----------------------------- MODULE ZombiesProofs -----------------------------
(***************************************************************************)
(* Proofs of the invariants of Zombies.                                    *)
(***************************************************************************)
EXTENDS Zombies, TLAPS

\* The goroutines in the two calls of Wait together keep to the bound.
KillersBounded == \A p \in Pid : probing[p] + reaping[p] <= MaxKillers

\* A call of cmd.Run has started its command.
CommandsStarted == \A p \in Command : run[p] # "none" => proc[p] # "none"

IInv ==
    /\ TypeOK
    /\ KillersBounded /\ KillersNeverBlock
    /\ CommandsStarted /\ ReturnedCommandsEnded

(***************************************************************************)
(* At the start there are no processes and no goroutines of killZombie.    *)
(***************************************************************************)
LEMMA InitIInv == Init => IInv
  BY ZombiesAssumption
  DEF Init, IInv, TypeOK, KillersBounded, KillersNeverBlock, CommandsStarted,
      ReturnedCommandsEnded, Pid

(***************************************************************************)
(* No step of a process, of the scan, of killZombie or of cmd.Run makes a  *)
(* dead process run again, or starts killZombie for one that runs.         *)
(***************************************************************************)
LEMMA NextIInv == IInv /\ [Next]_vars => IInv'
  <1> SUFFICES ASSUME IInv, [Next]_vars
               PROVE  IInv'
    OBVIOUS
  <1> USE ZombiesAssumption
      DEF IInv, TypeOK, KillersBounded, KillersNeverBlock, CommandsStarted,
          ReturnedCommandsEnded, Pid
  <1>1. ASSUME NEW p \in Orphan, Adopt(p)
        PROVE  IInv'
    BY <1>1 DEF Adopt
  <1>2. ASSUME NEW p \in Command, StartCommand(p)
        PROVE  IInv'
    BY <1>2 DEF StartCommand
  <1>3. ASSUME NEW p \in Pid, Exit(p)
        PROVE  IInv'
    BY <1>3 DEF Exit
  <1>4. CASE StartPs
    BY <1>4 DEF StartPs
  <1>5. CASE PsRuns
    BY <1>5 DEF PsRuns, Found
  <1>6. CASE PsFails
    BY <1>6 DEF PsFails, Found
  <1>7. CASE KillAll
    BY <1>7 DEF KillAll
  <1>8. ASSUME NEW p \in Pid, KillerProbes(p)
        PROVE  IInv'
    BY <1>8 DEF KillerProbes
  <1>9. ASSUME NEW p \in Pid, KillerReaps(p)
        PROVE  IInv'
    BY <1>9 DEF KillerReaps
  <1>10. ASSUME NEW p \in Command, RunProbes(p)
         PROVE  IInv'
    BY <1>10 DEF RunProbes
  <1>11. ASSUME NEW p \in Command, RunReaps(p)
         PROVE  IInv'
    BY <1>11 DEF RunReaps
  <1>12. CASE UNCHANGED vars
    BY <1>12 DEF vars
  <1> QED
    BY <1>1, <1>2, <1>3, <1>4, <1>5, <1>6, <1>7, <1>8, <1>9, <1>10, <1>11, <1>12
    DEF Next, Killer, RunEnds

(***************************************************************************)
(* Every variable keeps its type; in particular the goroutines of          *)
(* killZombie for a process stay within their bound.                       *)
(***************************************************************************)
THEOREM TypeCorrect == Spec => []TypeOK
  <1>1. IInv => TypeOK
    BY DEF IInv
  <1> QED
    BY <1>1, InitIInv, NextIInv, PTL DEF Spec

(***************************************************************************)
(* killZombie never waits for a process that still runs, for any number of *)
(* orphans, commands and goroutines.                                       *)
(***************************************************************************)
THEOREM KillersDoNotBlock == Spec => []KillersNeverBlock
  <1>1. IInv => KillersNeverBlock
    BY DEF IInv
  <1> QED
    BY <1>1, InitIInv, NextIInv, PTL DEF Spec

(***************************************************************************)
(* A command whose cmd.Run has returned has ended, whichever of cmd.Run    *)
(* and the goroutines of killZombie has collected it.                      *)
(***************************************************************************)
THEOREM ReturnedCommandsHaveEnded == Spec => []ReturnedCommandsEnded
  <1>1. IInv => ReturnedCommandsEnded
    BY DEF IInv
  <1> QED
    BY <1>1, InitIInv, NextIInv, PTL DEF Spec

=============================================================================
