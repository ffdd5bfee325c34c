------------------------- MODULE EntityUpdateProofs -------------------------
(***************************************************************************)
(* Proofs about EntityUpdate, for any callers, attributes, values, number  *)
(* of attempts and number of calls: type correctness, the guarantee of the *)
(* ETag, the meaning of an exhausted call, and that update_entity          *)
(* implements the atomic store.  All of them rest on IInv.                 *)
(***************************************************************************)
EXTENDS EntityUpdate, TLAPS

USE EntityAssumption

\* A change set written over an entity is an entity.
LEMMA OverwriteType ==
  ASSUME NEW e \in Store!Entities, NEW ch \in Store!ChangeSets
  PROVE  Store!Overwrite(e, ch) \in Store!Entities
BY DEF Store!Entities, Store!ChangeSets, Store!Overwrite

\* The invariant holds when the server starts.
LEMMA InitIInv == Init => IInv
BY DEF Init, IInv, TypeOK, CallerInv, LoopInv, FormInv, PutInv, FreshCopyOf,
       ExhaustedOf, InLoop, Store!Entities, Store!ChangeSets, Outcomes, Statuses

\* A step keeps the types; the bound on attempts needs the rest of IInv.
LEMMA TypeStep == IInv /\ [Next]_vars => TypeOK'
<1> SUFFICES ASSUME IInv, [Next]_vars PROVE TypeOK'
  OBVIOUS
<1>0. TypeOK /\ \A c \in Callers : LoopInv(c) /\ FormInv(c) /\ PutInv(c)
  BY DEF IInv, CallerInv
<1>1. CASE DeleteEntity
  BY <1>0, <1>1 DEF DeleteEntity, TypeOK, callVars
<1>2. ASSUME NEW c \in Callers, NEW ch \in Store!ChangeSets, Call(c, ch)
      PROVE  TypeOK'
  BY <1>0, <1>2 DEF Call, Outcomes, TypeOK
<1>3. ASSUME NEW c \in Callers, GetEntity(c) PROVE TypeOK'
  <2>1. entity \in Store!Entities /\ request[c] \in Store!ChangeSets
    BY <1>0, <1>3 DEF GetEntity, TypeOK
  <2>2. Store!Overwrite(entity, request[c]) \in Store!Entities
    BY <2>1, OverwriteType
  <2> QED
    BY <1>0, <1>3, <2>2 DEF GetEntity, Respond, Statuses, TypeOK, callVars,
                            ClientOf
<1>4. ASSUME NEW c \in Callers, GetFails(c) PROVE TypeOK'
  BY <1>0, <1>4 DEF GetFails, Respond, Leave, Statuses, Outcomes, TypeOK,
                    callVars, ClientOf
<1>5. ASSUME NEW c \in Callers, ReadEtag(c) PROVE TypeOK'
  BY <1>0, <1>5 DEF ReadEtag, TypeOK, callVars, ClientOf
<1>6. ASSUME NEW c \in Callers, PutEntity(c) PROVE TypeOK'
  BY <1>0, <1>6 DEF PutEntity, Leave, Statuses, Outcomes, TypeOK, callVars,
                    ClientOf
<1>7. ASSUME NEW c \in Callers, PutReplyLost(c) PROVE TypeOK'
  BY <1>0, <1>7 DEF PutReplyLost, HandlePutException, Leave, Outcomes, TypeOK,
                    callVars, ClientOf, PutInv
<1>8. ASSUME NEW c \in Callers, PutConflict(c) PROVE TypeOK'
  <2> USE DEF PutConflict, HandlePutException, Retry, Leave, TypeOK, callVars
  <2>1. attempts[c] + 1 \in 0..MaxAttempts
    BY <1>0, <1>8 DEF LoopInv, InLoop
  <2>2. attempts' \in [Callers -> 0..MaxAttempts]
    BY <1>0, <1>8, <2>1
  <2>3. pc' \in [Callers -> {"done", "get", "form", "put"}]
    BY <1>0, <1>8
  <2>4. outcome' \in [Callers -> Outcomes]
    BY <1>0, <1>8 DEF Outcomes
  <2>5. lastResponse' \in [Callers -> [status : Statuses, etag : Nat]]
    BY <1>0, <1>8 DEF Respond, Statuses, ClientOf
  <2> QED
    BY <1>0, <1>8, <2>2, <2>3, <2>4, <2>5
<1>9. ASSUME NEW c \in Callers, PutRefused(c) PROVE TypeOK'
  <2>1. PICK status \in {404, 400} :
          Respond(c, status) /\ Leave(c, "raised") /\ UNCHANGED attempts
    BY <1>9 DEF PutRefused, HandlePutException
  <2>2. lastResponse' \in [Callers -> [status : Statuses, etag : Nat]]
    BY <1>0, <2>1 DEF Respond, Statuses, ClientOf, TypeOK
  <2> QED
    BY <1>0, <1>9, <2>1, <2>2 DEF PutRefused, Leave, Outcomes, TypeOK, callVars
<1>10. ASSUME NEW c \in Callers, PutNotSent(c) PROVE TypeOK'
  <2>1. lastResponse[c].status = 200
    BY <1>0, <1>10 DEF PutNotSent, PutInv
  <2>2. Leave(c, "raised") /\ UNCHANGED attempts
    BY <1>10, <2>1 DEF PutNotSent, HandlePutException, ClientOf
  <2> QED
    BY <1>0, <1>10, <2>2 DEF PutNotSent, Leave, Outcomes, TypeOK, callVars
<1>11. CASE UNCHANGED vars
  BY <1>0, <1>11 DEF vars, TypeOK
<1> QED
  BY <1>1, <1>2, <1>3, <1>4, <1>5, <1>6, <1>7, <1>8, <1>9, <1>10, <1>11
  DEF Next, Step

\* A step keeps what a caller holds.  The steps of the caller itself are taken
\* one by one; of any other step only its effect on the entity matters: it is
\* untouched, or it moves to a new ETag, or it is deleted.
LEMMA CallerStep ==
  ASSUME IInv, [Next]_vars, NEW d \in Callers
  PROVE  CallerInv(d)'
<1>0. TypeOK /\ CallerInv(d) /\ \A c \in Callers : CallerInv(c)
  BY DEF IInv
<1> USE DEF TypeOK, callVars, ClientOf, CallerInv, LoopInv, FormInv, PutInv,
            FreshCopyOf, ExhaustedOf, InLoop, Precondition
<1>1. CASE DeleteEntity
  BY <1>0, <1>1 DEF DeleteEntity
<1>2. ASSUME NEW c \in Callers, NEW ch \in Store!ChangeSets, Call(c, ch)
      PROVE  CallerInv(d)'
  BY <1>0, <1>2 DEF Call
<1>3. ASSUME NEW c \in Callers, GetEntity(c) PROVE CallerInv(d)'
  BY <1>0, <1>3 DEF GetEntity, Respond
<1>4. ASSUME NEW c \in Callers, GetFails(c) PROVE CallerInv(d)'
  BY <1>0, <1>4 DEF GetFails, Respond, Leave
<1>5. ASSUME NEW c \in Callers, ReadEtag(c) PROVE CallerInv(d)'
  BY <1>0, <1>5 DEF ReadEtag
<1>6. ASSUME NEW c \in Callers, PutEntity(c) PROVE CallerInv(d)'
  BY <1>0, <1>6 DEF PutEntity, Leave
<1>7. ASSUME NEW c \in Callers, PutReplyLost(c) PROVE CallerInv(d)'
  BY <1>0, <1>7 DEF PutReplyLost, HandlePutException, Leave
<1>8. ASSUME NEW c \in Callers, PutConflict(c) PROVE CallerInv(d)'
  <2>1. pc[c] = "put" /\ ~Precondition(c) /\ entity # Gone
    BY <1>8 DEF PutConflict
  <2>2. etag >= startEtag[c] + attempts[c] + 1
    <3>1. /\ ifMatch[c] # etag
          /\ ifMatch[c] <= etag
          /\ ifMatch[c] >= startEtag[c] + attempts[c]
      BY <1>0, <2>1
    <3>2. ifMatch[c] \in Nat /\ etag \in Nat
          /\ startEtag[c] \in Nat /\ attempts[c] \in Nat
      BY <1>0
    <3> HIDE DEF TypeOK, CallerInv, LoopInv, FormInv, PutInv, FreshCopyOf,
                 ExhaustedOf, InLoop, Precondition
    <3> QED
      BY <3>1, <3>2
  <2>3. Respond(c, 412) /\ Retry(c)
        /\ UNCHANGED <<entity, etag, applied, copy, ifMatch, callVars>>
    BY <1>8 DEF PutConflict, HandlePutException
  <2>4. CASE d # c
    BY <1>0, <2>3, <2>4 DEF Respond, Retry, Leave
  <2>5. CASE d = c /\ attempts[c] + 1 < MaxAttempts
    <3>1. /\ attempts'[c] = attempts[c] + 1
          /\ pc'[c] = "get"
          /\ outcome'[c] = "pending"
      BY <1>0, <2>1, <2>3, <2>5 DEF Retry
    <3> QED
      BY <1>0, <2>1, <2>2, <2>3, <2>5, <3>1
  <2>6. CASE d = c /\ ~(attempts[c] + 1 < MaxAttempts)
    <3>1. pc'[c] = "done" /\ outcome'[c] = "exhausted"
      BY <1>0, <2>3, <2>6 DEF Retry, Leave
    <3>2. etag >= startEtag[c] + MaxAttempts
      BY <1>0, <2>1, <2>2, <2>6
    <3> QED
      BY <1>0, <2>1, <2>3, <2>6, <3>1, <3>2
  <2> QED
    BY <2>4, <2>5, <2>6
<1>9. ASSUME NEW c \in Callers, PutRefused(c) PROVE CallerInv(d)'
  BY <1>0, <1>9 DEF PutRefused, HandlePutException, Respond, Leave
<1>10. ASSUME NEW c \in Callers, PutNotSent(c) PROVE CallerInv(d)'
  BY <1>0, <1>10 DEF PutNotSent, HandlePutException, Leave
<1>11. CASE UNCHANGED vars
  BY <1>0, <1>11 DEF vars
<1> QED
  BY <1>1, <1>2, <1>3, <1>4, <1>5, <1>6, <1>7, <1>8, <1>9, <1>10, <1>11
  DEF Next, Step

\* The inductive invariant holds in every reachable state of the loop.
LEMMA Inductive == Spec => []IInv
<1>1. IInv /\ [Next]_vars => IInv'
  BY TypeStep, CallerStep DEF IInv
<1> QED
  BY InitIInv, <1>1, PTL DEF Spec

\* Every variable keeps its type; the retry loop never exceeds MaxAttempts.
THEOREM TypeCorrect == Spec => []TypeOK
<1>1. IInv => TypeOK
  BY DEF IInv
<1> QED
  BY <1>1, Inductive, PTL

\* A PUT that vCD accepts overwrites nothing another caller has stored.
THEOREM FreshCopyHolds == Spec => []FreshCopy
<1>1. IInv => FreshCopy
  BY DEF IInv, CallerInv, FreshCopy
<1> QED
  BY <1>1, Inductive, PTL

\* update_entity gives up only against MaxAttempts updates of other callers.
THEOREM ExhaustedByOthersHolds == Spec => []ExhaustedByOthers
<1>1. IInv => ExhaustedByOthers
  BY DEF IInv, CallerInv, ExhaustedByOthers
<1> QED
  BY <1>1, Inductive, PTL

-----------------------------------------------------------------------------
\* The initial states are initial states of the abstract store.
LEMMA InitImplements == Init => Store!Init
BY DEF Init, Store!Init

\* How the outcome of a call looks in the abstract store.
Seen == [c \in Callers |->
           IF outcome[c] = "exhausted" THEN "raised" ELSE outcome[c]]

\* A caller that leaves the loop by an exception raises in the abstract store.
LEMMA LeaveRaises ==
  ASSUME TypeOK, NEW c \in Callers, NEW how \in {"raised", "exhausted"},
         Leave(c, how)
  PROVE  Seen' = [Seen EXCEPT ![c] = "raised"]
BY DEF TypeOK, Leave, Seen

\* Every step is a step of the abstract store, or none.
LEMMA StepImplements == IInv /\ [Next]_vars => [Store!Next]_(Store!storeVars)
<1> SUFFICES ASSUME IInv, [Next]_vars
             PROVE  [Store!Next]_(Store!storeVars)
  OBVIOUS
<1>0. TypeOK /\ \A c \in Callers : CallerInv(c)
  BY DEF IInv
<1> DEFINE Raises(c) == Store!Raise(c) \/ UNCHANGED Store!storeVars
<1>1. CASE DeleteEntity
  BY <1>1 DEF DeleteEntity, callVars, Store!Next, Store!Delete
<1>2. ASSUME NEW c \in Callers, NEW ch \in Store!ChangeSets, Call(c, ch)
      PROVE  Store!Call(c, ch)
  BY <1>0, <1>2 DEF Call, TypeOK, CallerInv, LoopInv, InLoop, Store!Call
<1>3. ASSUME NEW c \in Callers, GetEntity(c) PROVE UNCHANGED Store!storeVars
  BY <1>3 DEF GetEntity, callVars, Store!storeVars
<1>4. ASSUME NEW c \in Callers, GetFails(c) PROVE Store!Raise(c)
  BY <1>0, <1>4, LeaveRaises
  DEF GetFails, callVars, CallerInv, LoopInv, InLoop, Seen, Store!Raise
<1>5. ASSUME NEW c \in Callers, ReadEtag(c) PROVE UNCHANGED Store!storeVars
  BY <1>5 DEF ReadEtag, callVars, Store!storeVars
<1>6. ASSUME NEW c \in Callers, PutEntity(c) PROVE Store!Apply(c)
  BY <1>0, <1>6
  DEF PutEntity, Leave, callVars, CallerInv, LoopInv, InLoop, FreshCopyOf,
      Precondition, TypeOK, Store!Apply
<1>7. ASSUME NEW c \in Callers, PutReplyLost(c) PROVE Store!Apply(c)
  <2>1. Leave(c, "raised")
    BY <1>0, <1>7 DEF PutReplyLost, HandlePutException, ClientOf, CallerInv, PutInv
  <2>2. Seen' = [Seen EXCEPT ![c] = "raised"]
    BY <1>0, <2>1, LeaveRaises
  <2> QED
    BY <1>0, <1>7, <2>2
    DEF PutReplyLost, callVars, CallerInv, LoopInv, InLoop, FreshCopyOf,
        Precondition, TypeOK, Seen, Store!Apply
<1>8. ASSUME NEW c \in Callers, PutConflict(c) PROVE Raises(c)
  <2>1. CASE Leave(c, "exhausted")
    BY <1>0, <1>8, <2>1, LeaveRaises
    DEF PutConflict, callVars, CallerInv, LoopInv, InLoop, Seen, Store!Raise
  <2>2. CASE UNCHANGED outcome
    BY <1>8, <2>2 DEF PutConflict, callVars, Store!storeVars
  <2> QED
    BY <1>8, <2>1, <2>2 DEF PutConflict, HandlePutException, Retry
<1>9. ASSUME NEW c \in Callers, PutRefused(c) PROVE Store!Raise(c)
  <2>1. Leave(c, "raised")
    BY <1>9 DEF PutRefused, HandlePutException
  <2> QED
    BY <1>0, <1>9, <2>1, LeaveRaises
    DEF PutRefused, callVars, CallerInv, LoopInv, InLoop, Seen, Store!Raise
<1>10. ASSUME NEW c \in Callers, PutNotSent(c) PROVE Store!Raise(c)
  <2>1. Leave(c, "raised")
    BY <1>0, <1>10 DEF PutNotSent, HandlePutException, ClientOf, CallerInv, PutInv
  <2> QED
    BY <1>0, <1>10, <2>1, LeaveRaises
    DEF PutNotSent, callVars, CallerInv, LoopInv, InLoop, Seen, Store!Raise
<1>11. CASE UNCHANGED vars
  BY <1>11 DEF vars, Store!storeVars
<1> QED
  BY <1>1, <1>2, <1>3, <1>4, <1>5, <1>6, <1>7, <1>8, <1>9, <1>10, <1>11
  DEF Next, Step, Store!Next

\* update_entity implements the atomic store: a call changes exactly the
\* attributes it names, in one step and at most once, and has done so when it
\* returns, whatever the other callers, lost replies and retries do.
THEOREM Implements == Spec => AtomicUpdates
<1>1. Spec => [][Store!Next]_(Store!storeVars)
  BY Inductive, StepImplements, PTL DEF Spec
<1>2. Spec => Store!Init
  BY InitImplements DEF Spec
<1> QED
  BY <1>1, <1>2, PTL DEF AtomicUpdates, Store!Spec
=============================================================================
