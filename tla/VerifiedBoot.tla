----------------------------- MODULE VerifiedBoot -----------------------------
(***************************************************************************)
(* What a dual-bank bootloader promises, with no counters, CRCs or resets  *)
(* in it: the ECU runs only a Stage 2 and an application that pass their   *)
(* checks, gives up only when no Stage 2 passes, keeps its hands off the   *)
(* images, and (Fairness) starts an application whenever it can.           *)
(***************************************************************************)
EXTENDS Naturals

CONSTANTS
  Faults,            \* what may be wrong with an image
  Stage2Accepted,    \* the Stage 2 images Stage 1 accepts
  AppAccepted        \* the applications Stage 2 accepts

Bank == {0, 1}

VARIABLES
  phase,             \* "booting", "running" or "halted" (safe mode)
  runStage2, runApp, \* the banks the ECU runs from; 0 unless running
  stage2, app        \* the images

images == <<stage2, app>>
vars == <<phase, runStage2, runApp, images>>

Init ==
  /\ phase = "booting"
  /\ runStage2 = 0 /\ runApp = 0
  /\ stage2 \in [Bank -> Faults] /\ app \in [Bank -> Faults]

\* Start an application.
Boot ==
  /\ phase = "booting"
  /\ phase' = "running"
  /\ runStage2' \in {b \in Bank : stage2[b] \in Stage2Accepted}
  /\ runApp' \in {b \in Bank : app[b] \in AppAccepted}
  /\ UNCHANGED images

\* Give up.
Halt ==
  /\ phase = "booting"
  /\ \A b \in Bank : stage2[b] \notin Stage2Accepted
  /\ phase' = "halted"
  /\ UNCHANGED <<runStage2, runApp, images>>

\* A reset or a power cycle.
Reset ==
  /\ phase # "booting"
  /\ phase' = "booting"
  /\ runStage2' = 0 /\ runApp' = 0
  /\ UNCHANGED images

\* The running software rewrites one image it does not run from.
Reflash ==
  /\ phase = "running"
  /\ \E f \in Faults :
       \/ stage2' = [stage2 EXCEPT ![1 - runStage2] = f] /\ app' = app
       \/ app' = [app EXCEPT ![1 - runApp] = f] /\ stage2' = stage2
  /\ UNCHANGED <<phase, runStage2, runApp>>

Next == Boot \/ Halt \/ Reset \/ Reflash

Spec == Init /\ [][Next]_vars

Fairness == WF_vars(Boot)

FairSpec == Spec /\ Fairness

===============================================================================
