---------------------------- MODULE EntityUpdate ----------------------------
(***************************************************************************)
(* DefEntityService.update_entity (rde/common/entity_service.py), the loop *)
(* every status change of a cluster goes through: GET the entity, write    *)
(* the changes over the copy, PUT the whole copy back with the ETag of the *)
(* GET in If-Match, start over on 412, give up after MaxAttempts.          *)
(*                                                                         *)
(* The ETag is not returned by get_entity: it is fetched afterwards from   *)
(* the last response of the CloudApiClient, and so is the status code that *)
(* decides whether a failed PUT is retried.  Each operation context owns   *)
(* its clients and its threads use them one after the other, so a caller   *)
(* here is an operation context, with a client of its own.                 *)
(***************************************************************************)
EXTENDS Naturals

CONSTANTS
  Callers, Attributes, Values, Keep, Gone,   \* as in EntityStore
  MaxAttempts,                               \* MAX_RDE_UPDATE_ATTEMPTS
  MaxCalls                                   \* bound on the calls made

ASSUME EntityAssumption ==
  /\ Keep \notin Values
  /\ Gone \notin [Attributes -> Values]
  /\ MaxAttempts \in Nat \ {0}
  /\ MaxCalls \in Nat

VARIABLES
  entity,        \* the RDE as vCD stores it, or Gone
  etag,          \* vCD's version of the RDE, the ETag of its responses
  request,       \* the "changes" argument of each caller's last call
  outcome,       \* how that call stands
  applied,       \* history: vCD has stored a PUT of that call
  pc,            \* where the caller is in update_entity
  copy,          \* the local DefEntity it forms
  ifMatch,       \* the etag it read after its GET
  attempts,      \* iterations of the retry loop already spent
  lastResponse,  \* CloudApiClient._last_response: status and ETag header
  startEtag,     \* history: etag when the call started
  calls          \* calls made so far, bounded by MaxCalls

callVars == <<request, startEtag, calls>>
vars == <<entity, etag, request, outcome, applied, pc, copy, ifMatch,
          attempts, lastResponse, startEtag, calls>>

Outcomes == {"idle", "pending", "returned", "raised", "exhausted"}
Statuses == {200, 404, 412, 400}

Store == INSTANCE EntityStore WITH
  outcome <- [c \in Callers |->
                IF outcome[c] = "exhausted" THEN "raised" ELSE outcome[c]]

\* Variant: one client for all operation contexts.
SharedClient(c) == CHOOSE d \in Callers : TRUE

\* The CloudApiClient a caller's DefEntityService was built with.
ClientOf(c) == c

-----------------------------------------------------------------------------
Init ==
  /\ entity \in Store!Entities
  /\ etag = 0
  /\ request = [c \in Callers |-> [a \in Attributes |-> Keep]]
  /\ outcome = [c \in Callers |-> "idle"]
  /\ applied = [c \in Callers |-> FALSE]
  /\ pc = [c \in Callers |-> "done"]
  /\ copy = [c \in Callers |-> entity]
  /\ ifMatch = [c \in Callers |-> 0]
  /\ attempts = [c \in Callers |-> 0]
  /\ lastResponse = [c \in Callers |-> [status |-> 200, etag |-> 0]]
  /\ startEtag = [c \in Callers |-> 0]
  /\ calls = 0

\* update_entity(entity_id, changes=changes) is entered.
Call(c, changes) ==
  /\ pc[c] = "done"
  /\ calls < MaxCalls
  /\ calls' = calls + 1
  /\ request' = [request EXCEPT ![c] = changes]
  /\ outcome' = [outcome EXCEPT ![c] = "pending"]
  /\ applied' = [applied EXCEPT ![c] = FALSE]
  /\ attempts' = [attempts EXCEPT ![c] = 0]
  /\ startEtag' = [startEtag EXCEPT ![c] = etag]
  /\ pc' = [pc EXCEPT ![c] = "get"]
  /\ UNCHANGED <<entity, etag, copy, ifMatch, lastResponse>>

\* The call ends with an exception.
Leave(c, how) ==
  /\ pc' = [pc EXCEPT ![c] = "done"]
  /\ outcome' = [outcome EXCEPT ![c] = how]

\* Records a response of vCD in the caller's client.
Respond(c, status) ==
  lastResponse' =
    [lastResponse EXCEPT ![ClientOf(c)] = [status |-> status, etag |-> etag]]

\* get_entity: a 404 once the entity is deleted, or the request itself fails;
\* both are outside the try block of update_entity and propagate.
GetEntity(c) ==
  /\ pc[c] = "get"
  /\ entity # Gone
  /\ Respond(c, 200)
  /\ copy' = [copy EXCEPT ![c] = Store!Overwrite(entity, request[c])]
  /\ pc' = [pc EXCEPT ![c] = "form"]
  /\ UNCHANGED <<entity, etag, outcome, applied, ifMatch, attempts, callVars>>

GetFails(c) ==
  /\ pc[c] = "get"
  /\ IF entity = Gone THEN Respond(c, 404) ELSE UNCHANGED lastResponse
  /\ Leave(c, "raised")
  /\ UNCHANGED <<entity, etag, applied, copy, ifMatch, attempts, callVars>>

\* get_last_response_etag: whatever response the client saw last.
ReadEtag(c) ==
  /\ pc[c] = "form"
  /\ ifMatch' = [ifMatch EXCEPT ![c] = lastResponse[ClientOf(c)].etag]
  /\ pc' = [pc EXCEPT ![c] = "put"]
  /\ UNCHANGED <<entity, etag, outcome, applied, copy, attempts,
                 lastResponse, callVars>>

\* vCD accepts a PUT only under the current ETag.
Precondition(c) == entity # Gone /\ ifMatch[c] = etag

\* Variant: the loop is one iteration short.
RetryOnceLess(c) ==
  /\ attempts' = [attempts EXCEPT ![c] = @ + 1]
  /\ IF attempts[c] + 2 < MaxAttempts
       THEN pc' = [pc EXCEPT ![c] = "get"] /\ UNCHANGED outcome
       ELSE Leave(c, "exhausted")

\* Variant: the loop has no end.
RetryForever(c) ==
  /\ attempts' = [attempts EXCEPT ![c] = @ + 1]
  /\ pc' = [pc EXCEPT ![c] = "get"]
  /\ UNCHANGED outcome

\* Another iteration of the retry loop, or the exception after the last one.
Retry(c) ==
  /\ attempts' = [attempts EXCEPT ![c] = @ + 1]
  /\ IF attempts[c] + 1 < MaxAttempts
       THEN pc' = [pc EXCEPT ![c] = "get"] /\ UNCHANGED outcome
       ELSE Leave(c, "exhausted")

\* Variant: every PUT that fails is retried.
RetryAnyFailure(c, status) == Retry(c)

\* The except block around the PUT: the status of the last response of the
\* client decides, whether or not that response answered this PUT.
HandlePutException(c, status) ==
  IF status = 412
    THEN Retry(c)
    ELSE Leave(c, "raised") /\ UNCHANGED attempts

\* vCD stores the PUT and update_entity returns the stored entity.
PutEntity(c) ==
  /\ pc[c] = "put"
  /\ Precondition(c)
  /\ entity' = copy[c]
  /\ etag' = etag + 1
  /\ applied' = [applied EXCEPT ![c] = TRUE]
  /\ Leave(c, "returned")
  /\ lastResponse' = [lastResponse EXCEPT
       ![ClientOf(c)] = [status |-> 200, etag |-> etag + 1]]
  /\ UNCHANGED <<copy, ifMatch, attempts, callVars>>

\* vCD stores the PUT, and the reply is lost.
PutReplyLost(c) ==
  /\ pc[c] = "put"
  /\ Precondition(c)
  /\ entity' = copy[c]
  /\ etag' = etag + 1
  /\ applied' = [applied EXCEPT ![c] = TRUE]
  /\ HandlePutException(c, lastResponse[ClientOf(c)].status)
  /\ UNCHANGED <<copy, ifMatch, lastResponse, callVars>>

\* vCD answers 412 Precondition Failed.
PutConflict(c) ==
  /\ pc[c] = "put"
  /\ entity # Gone
  /\ ~Precondition(c)
  /\ Respond(c, 412)
  /\ HandlePutException(c, 412)
  /\ UNCHANGED <<entity, etag, applied, copy, ifMatch, callVars>>

\* Any other answer: 404 on a deleted entity, 400 for every other refusal.
PutRefused(c) ==
  /\ pc[c] = "put"
  /\ LET status == IF entity = Gone THEN 404 ELSE 400
     IN  Respond(c, status) /\ HandlePutException(c, status)
  /\ UNCHANGED <<entity, etag, applied, copy, ifMatch, callVars>>

\* The PUT never reaches vCD: the last response is still that of the GET.
PutNotSent(c) ==
  /\ pc[c] = "put"
  /\ HandlePutException(c, lastResponse[ClientOf(c)].status)
  /\ UNCHANGED <<entity, etag, applied, copy, ifMatch, lastResponse, callVars>>

\* delete_entity or force_delete_entity, by a rollback or by vCD itself.
DeleteEntity ==
  /\ entity # Gone
  /\ entity' = Gone
  /\ UNCHANGED <<etag, outcome, applied, pc, copy, ifMatch, attempts,
                 lastResponse, callVars>>

Step(c) ==
  \/ \E changes \in Store!ChangeSets : Call(c, changes)
  \/ GetEntity(c) \/ GetFails(c) \/ ReadEtag(c)
  \/ PutEntity(c) \/ PutReplyLost(c)
  \/ PutConflict(c) \/ PutRefused(c) \/ PutNotSent(c)

Next == DeleteEntity \/ \E c \in Callers : Step(c)

Spec == Init /\ [][Next]_vars

-----------------------------------------------------------------------------
TypeOK ==
  /\ entity \in Store!Entities \cup {Gone}
  /\ etag \in Nat
  /\ request \in [Callers -> Store!ChangeSets]
  /\ outcome \in [Callers -> Outcomes]
  /\ applied \in [Callers -> BOOLEAN]
  /\ pc \in [Callers -> {"done", "get", "form", "put"}]
  /\ copy \in [Callers -> Store!Entities]
  /\ ifMatch \in [Callers -> Nat]
  /\ attempts \in [Callers -> 0..MaxAttempts]
  /\ lastResponse \in [Callers -> [status : Statuses, etag : Nat]]
  /\ startEtag \in [Callers -> Nat]
  /\ calls \in 0..MaxCalls

\* A PUT that vCD would accept carries the stored entity with exactly the
\* requested attributes changed: what If-Match is there to guarantee, although
\* the ETag and the copy reach update_entity on two different paths.
FreshCopyOf(c) ==
  pc[c] = "put" /\ Precondition(c) => copy[c] = Store!Overwrite(entity, request[c])

FreshCopy == \A c \in Callers : FreshCopyOf(c)

\* update_entity gives up for contention only: every attempt it spends is paid
\* by a different update of another caller that vCD stored meanwhile.
ExhaustedOf(c) == outcome[c] = "exhausted" => etag >= startEtag[c] + MaxAttempts

ExhaustedByOthers == \A c \in Callers : ExhaustedOf(c)

-----------------------------------------------------------------------------
(***************************************************************************)
(* The inductive invariant behind these properties: what the caller holds  *)
(* at each point of the loop.  The copy is fresh as long as the ETag of    *)
(* the response it came with is current, from the GET (in the client) to   *)
(* the PUT (in ifMatch); the ETag has moved at least once per attempt.     *)
(***************************************************************************)
InLoop(c) == pc[c] # "done"

LoopInv(c) ==
  /\ InLoop(c) <=> outcome[c] = "pending"
  /\ InLoop(c) => /\ ~applied[c]
                  /\ attempts[c] < MaxAttempts
                  /\ etag >= startEtag[c] + attempts[c]
  /\ outcome[c] = "returned" => applied[c]

FormInv(c) ==
  pc[c] = "form" =>
    /\ lastResponse[c].status = 200
    /\ lastResponse[c].etag <= etag
    /\ lastResponse[c].etag >= startEtag[c] + attempts[c]
    /\ entity # Gone /\ lastResponse[c].etag = etag
          => copy[c] = Store!Overwrite(entity, request[c])

PutInv(c) ==
  pc[c] = "put" =>
    /\ lastResponse[c].status = 200
    /\ ifMatch[c] <= etag
    /\ ifMatch[c] >= startEtag[c] + attempts[c]

CallerInv(c) ==
  LoopInv(c) /\ FormInv(c) /\ PutInv(c) /\ FreshCopyOf(c) /\ ExhaustedOf(c)

IInv == TypeOK /\ \A c \in Callers : CallerInv(c)

\* Each call changes only the attributes it names, in one step, at most once,
\* and at least once when it returns (the abstract store).
AtomicUpdates == Store!Spec

=============================================================================
