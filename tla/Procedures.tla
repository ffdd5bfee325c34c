----------------------------- MODULE Procedures -----------------------------
(***************************************************************************)
(* What the modules about procedures share: handlers, helpers and commands *)
(* that make one call to vCD, NSX-T or PKS after another, and whose only   *)
(* state between two calls is in local variables.  A module says what its  *)
(* world is, the records at the other end of the calls, and what the local *)
(* variables are.  A step is one call with the decision that follows it; a *)
(* call may fail before or after it was carried out.  An actor that has no *)
(* call left is at "done" or, with an exception, at "failed".              *)
(***************************************************************************)
EXTENDS Naturals, FiniteSets

CONSTANTS
  Actors,      \* threads, processes or administrators
  MaxFaults,   \* bound on the calls that fail
  Absent       \* no value

VARIABLES
  world,   \* what the other systems keep
  loc,     \* the local variables of each actor
  pc,      \* the next call of each actor
  faults   \* calls that have failed

procedureVars == <<world, loc, pc, faults>>

Goto(a, next) == pc' = [pc EXCEPT ![a] = next]
Fault         == faults < MaxFaults /\ faults' = faults + 1
Ended(a)      == pc[a] \in {"idle", "done", "failed"}
AllEnded      == \A a \in Actors : Ended(a)

\* A call that changes the world to w and leads to next, or fails and leads to
\* raised; an answer may be lost when the change is made.
Call(a, w, next, raised) ==
  \/ world' = w /\ Goto(a, next) /\ UNCHANGED faults
  \/ world' \in {world, w} /\ Goto(a, raised) /\ Fault

\* A call that changes nothing, or work without one.
Query(a, next, raised) ==
  /\ UNCHANGED world
  /\ \/ Goto(a, next) /\ UNCHANGED faults
     \/ Goto(a, raised) /\ Fault
Step(a, next) == Goto(a, next) /\ UNCHANGED <<world, faults>>

Keep(a)   == UNCHANGED loc
Set(a, l) == loc' = [loc EXCEPT ![a] = l]

\* Actor a alone starts, at first, with local variables l; or all of them do.
Alone(a, first, l, nothing) ==
  /\ pc = [b \in Actors |-> IF b = a THEN first ELSE "idle"]
  /\ loc = [b \in Actors |-> IF b = a THEN l ELSE nothing]
  /\ faults = 0
=============================================================================
