----------------------------- MODULE EntityStore -----------------------------
(***************************************************************************)
(* What the rest of the server expects of DefEntityService.update_entity:  *)
(* the caller names the attributes it changes, and the store applies these *)
(* changes, and nothing else, in one step and at most once per call.  A    *)
(* call that returns has been applied; a call that raises may have been    *)
(* applied, when only the reply was lost.                                  *)
(*                                                                         *)
(* This is the abstract specification; EntityUpdate implements it.         *)
(***************************************************************************)

CONSTANTS
  Callers,      \* operation contexts that update the defined entity (RDE)
  Attributes,   \* paths such as entity.status.phase, externalId, ...
  Values,       \* what an attribute may hold
  Keep,         \* marks an attribute that a change set does not name; no value
  Gone          \* the entity after its deletion; no entity

VARIABLES
  entity,       \* the stored entity, or Gone
  request,      \* the change set of each caller's last call
  outcome,      \* "idle", "pending", "returned" or "raised"
  applied       \* has the caller's last call been applied?

storeVars == <<entity, request, outcome, applied>>

Entities   == [Attributes -> Values]
ChangeSets == [Attributes -> Values \cup {Keep}]

\* The entity with the changes written over it.
Overwrite(e, changes) ==
  [a \in Attributes |-> IF changes[a] = Keep THEN e[a] ELSE changes[a]]

Init ==
  /\ entity \in Entities
  /\ request = [c \in Callers |-> [a \in Attributes |-> Keep]]
  /\ outcome = [c \in Callers |-> "idle"]
  /\ applied = [c \in Callers |-> FALSE]

Call(c, changes) ==
  /\ outcome[c] # "pending"
  /\ request' = [request EXCEPT ![c] = changes]
  /\ outcome' = [outcome EXCEPT ![c] = "pending"]
  /\ applied' = [applied EXCEPT ![c] = FALSE]
  /\ UNCHANGED entity

\* The changes land on the entity as it is in that very step.
Apply(c) ==
  /\ outcome[c] = "pending"
  /\ ~applied[c]
  /\ entity # Gone
  /\ entity' = Overwrite(entity, request[c])
  /\ applied' = [applied EXCEPT ![c] = TRUE]
  /\ outcome' \in {outcome, [outcome EXCEPT ![c] = "returned"],
                            [outcome EXCEPT ![c] = "raised"]}
  /\ UNCHANGED request

Raise(c) ==
  /\ outcome[c] = "pending"
  /\ outcome' = [outcome EXCEPT ![c] = "raised"]
  /\ UNCHANGED <<entity, request, applied>>

Delete ==
  /\ entity # Gone
  /\ entity' = Gone
  /\ UNCHANGED <<request, outcome, applied>>

Next ==
  \/ \E c \in Callers : \/ \E changes \in ChangeSets : Call(c, changes)
                        \/ Apply(c)
                        \/ Raise(c)
  \/ Delete

Spec == Init /\ [][Next]_storeVars

=============================================================================
