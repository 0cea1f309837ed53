------------------------------- MODULE Zombies -------------------------------
(***************************************************************************)
(* The reaper of zombie processes (zombies.go) beside the commands that    *)
(* the program runs itself (exec.Command and cmd.Run).  The program is the *)
(* first process of its container and inherits the orphans in it.  Both    *)
(* killZombie and cmd.Run end in os.Process.Wait, which first waits until  *)
(* there is an exit status to collect and then collects it, in two system  *)
(* calls; either of the two can come too late and fails then.              *)
(*                                                                         *)
(* No process identifier is used twice: the kernel gives them out in       *)
(* ascending order and wraps around after many thousands.                  *)
(***************************************************************************)
EXTENDS Naturals

CONSTANTS
    Orphan,     \* processes that the program inherits
    Command,    \* processes that it starts
    MaxKillers  \* bound: goroutines of killZombie for one process at a time

ASSUME ZombiesAssumption ==
    /\ Orphan \cap Command = {}
    /\ MaxKillers \in Nat \ {0}

Pid == Orphan \cup Command

VARIABLES
    proc,     \* the process table
    scan,     \* watchForZombies
    zombies,  \* what findZombies has returned
    probing,  \* goroutines of killZombie in the first call of Wait
    reaping,  \* and in the second
    run       \* the call of cmd.Run for each command

vars == <<proc, scan, zombies, probing, reaping, run>>

TypeOK ==
    /\ proc \in [Pid -> {"none", "running", "zombie", "reaped"}]
    /\ scan \in {"sleep", "ps", "found"}
    /\ zombies \in SUBSET Pid
    /\ probing \in [Pid -> 0 .. MaxKillers]
    /\ reaping \in [Pid -> 0 .. MaxKillers]
    /\ run \in [Command -> {"none", "probing", "reaping", "status", "error"}]

Init ==
    /\ proc = [p \in Pid |-> "none"]
    /\ scan = "sleep"
    /\ zombies = {}
    /\ probing = [p \in Pid |-> 0]
    /\ reaping = [p \in Pid |-> 0]
    /\ run = [p \in Command |-> "none"]

-----------------------------------------------------------------------------
(***************************************************************************)
(* Processes.                                                              *)
(***************************************************************************)
\* A process whose parent has ended; it may have ended itself.
Adopt(p) ==
    /\ proc[p] = "none"
    /\ \E s \in {"running", "zombie"} : proc' = [proc EXCEPT ![p] = s]
    /\ UNCHANGED <<scan, zombies, probing, reaping, run>>

\* cmd.Start
StartCommand(p) ==
    /\ proc[p] = "none"
    /\ proc' = [proc EXCEPT ![p] = "running"]
    /\ run' = [run EXCEPT ![p] = "probing"]
    /\ UNCHANGED <<scan, zombies, probing, reaping>>

Exit(p) ==
    /\ proc[p] = "running"
    /\ proc' = [proc EXCEPT ![p] = "zombie"]
    /\ UNCHANGED <<scan, zombies, probing, reaping, run>>

-----------------------------------------------------------------------------
(***************************************************************************)
(* watchForZombies and findZombies.  The ps of findZombies is a child,     *)
(* too, but not one that is dead when it looks at the process table.       *)
(***************************************************************************)
StartPs ==
    /\ scan = "sleep"
    /\ scan' = "ps"
    /\ UNCHANGED <<proc, zombies, probing, reaping, run>>

\* Mutated form: processes of any state.
FoundAny == {p \in Pid : proc[p] \in {"running", "zombie"}}

\* Mutated form: a line without a number stands for process 0.
FoundUnparsed == {0} \cup {p \in Pid : proc[p] = "zombie"}

\* The lines of ps whose second column is "Z".
Found == {p \in Pid : proc[p] = "zombie"}

PsRuns ==
    /\ scan = "ps"
    /\ scan' = "found"
    /\ zombies' = Found
    /\ UNCHANGED <<proc, probing, reaping, run>>

\* The error is logged, and what there is of the output is used.
PsFails ==
    /\ scan = "ps"
    /\ scan' = "found"
    /\ zombies' \in SUBSET Found
    /\ UNCHANGED <<proc, probing, reaping, run>>

KillAll ==
    /\ scan = "found"
    /\ \A p \in zombies : probing[p] + reaping[p] < MaxKillers
    /\ probing' = [p \in Pid |-> IF p \in zombies THEN probing[p] + 1 ELSE probing[p]]
    /\ zombies' = {}
    /\ scan' = "sleep"
    /\ UNCHANGED <<proc, reaping, run>>

-----------------------------------------------------------------------------
(***************************************************************************)
(* killZombie.                                                             *)
(***************************************************************************)
\* The first call blocks while the process runs.
KillerProbes(p) ==
    /\ probing[p] > 0
    /\ proc[p] # "running"
    /\ probing' = [probing EXCEPT ![p] = @ - 1]
    /\ reaping' = IF proc[p] = "zombie" THEN [reaping EXCEPT ![p] = @ + 1]
                                        ELSE reaping
    /\ UNCHANGED <<proc, scan, zombies, run>>

\* Mutated form: the process is signalled, not waited for.
KillerSignals(p) ==
    /\ reaping[p] > 0
    /\ reaping' = [reaping EXCEPT ![p] = @ - 1]
    /\ UNCHANGED <<proc, scan, zombies, probing, run>>

\* An error if the process is gone already.
KillerReaps(p) ==
    /\ reaping[p] > 0
    /\ reaping' = [reaping EXCEPT ![p] = @ - 1]
    /\ proc' = [proc EXCEPT ![p] = "reaped"]
    /\ UNCHANGED <<scan, zombies, probing, run>>

-----------------------------------------------------------------------------
(***************************************************************************)
(* The end of cmd.Run.                                                     *)
(***************************************************************************)
\* Mutated form: the command is waited for until there is a status.
RunProbesAgain(p) ==
    /\ run[p] = "probing"
    /\ proc[p] = "zombie"
    /\ run' = [run EXCEPT ![p] = "reaping"]
    /\ UNCHANGED <<proc, scan, zombies, probing, reaping>>

\* Mutated form: the command is not waited for.
RunProbesAtOnce(p) ==
    /\ run[p] = "probing"
    /\ run' = [run EXCEPT ![p] = IF proc[p] = "zombie" THEN "reaping" ELSE "error"]
    /\ UNCHANGED <<proc, scan, zombies, probing, reaping>>

RunProbes(p) ==
    /\ run[p] = "probing"
    /\ proc[p] # "running"
    /\ run' = [run EXCEPT ![p] = IF proc[p] = "zombie" THEN "reaping" ELSE "error"]
    /\ UNCHANGED <<proc, scan, zombies, probing, reaping>>

RunReaps(p) ==
    /\ run[p] = "reaping"
    /\ run' = [run EXCEPT ![p] = IF proc[p] = "zombie" THEN "status" ELSE "error"]
    /\ proc' = [proc EXCEPT ![p] = "reaped"]
    /\ UNCHANGED <<scan, zombies, probing, reaping>>

-----------------------------------------------------------------------------
Killer(p) == KillerProbes(p) \/ KillerReaps(p)
RunEnds(p) == RunProbes(p) \/ RunReaps(p)

Next ==
    \/ \E p \in Orphan : Adopt(p)
    \/ \E p \in Command : StartCommand(p) \/ RunEnds(p)
    \/ \E p \in Pid : Exit(p) \/ Killer(p)
    \/ StartPs
    \/ PsRuns
    \/ PsFails
    \/ KillAll

(***************************************************************************)
(* The goroutines go on.  A process may run for ever, but ps ends, and     *)
(* does not fail for ever.                                                 *)
(***************************************************************************)
Fairness ==
    /\ WF_vars(StartPs)
    /\ SF_vars(PsRuns)
    /\ WF_vars(PsRuns \/ PsFails)
    /\ WF_vars(KillAll)
    /\ \A p \in Pid : WF_vars(KillerProbes(p)) /\ WF_vars(KillerReaps(p))
    /\ \A p \in Command : WF_vars(RunEnds(p))

Spec == Init /\ [][Next]_vars
FairSpec == Spec /\ Fairness

-----------------------------------------------------------------------------
(***************************************************************************)
(* killZombie never waits for a process that still runs, however long ago  *)
(* ps has seen it: its goroutines never block.  Above all none is blocked  *)
(* on a command whose exit status cmd.Run is to collect.                   *)
(***************************************************************************)
KillersNeverBlock ==
    \A p \in Pid :
        p \in zombies \/ probing[p] + reaping[p] > 0 => proc[p] \in {"zombie", "reaped"}

(***************************************************************************)
(* When cmd.Run returns its command has ended and has been collected,      *)
(* whether by cmd.Run or by killZombie in any place between: even after an *)
(* error the command no longer writes the files that the program is about  *)
(* to read or to overwrite.                                                *)
(***************************************************************************)
ReturnedCommandsEnded ==
    \A p \in Command : run[p] \in {"status", "error"} => proc[p] = "reaped"

(***************************************************************************)
(* Every zombie is collected, whoever its parent was: none stays in the    *)
(* process table, although ps may fail and goroutines may be slow.         *)
(***************************************************************************)
ZombiesReaped == \A p \in Pid : proc[p] = "zombie" ~> proc[p] = "reaped"

(***************************************************************************)
(* cmd.Run returns once its command has ended, with a status or an error,  *)
(* even if killZombie has collected the status before it.                  *)
(***************************************************************************)
CommandsReturn ==
    \A p \in Command : proc[p] = "zombie" ~> run[p] \in {"status", "error"}

=============================================================================
