---------------------------- MODULE ResourcesProofs ----------------------------
(***************************************************************************)
(* Proofs about Resources, for any values of its constants: an inductive   *)
(* invariant of each of its procedures.                                    *)
(***************************************************************************)
EXTENDS Resources, SequenceTheorems, FiniteSetTheorems, WellFoundedInduction, TLAPS

-----------------------------------------------------------------------------
(***************************************************************************)
(* ClusterAcl, for any users, any ACLs that are asked for, any number of   *)
(* updates that overlap and any number of failures.                        *)
(***************************************************************************)
\* Users of the organization, whom an update may share with.
AclOwnUsers == AclUsers \ SystemUsers

(***************************************************************************)
(* The inductive invariant.                                                *)
(***************************************************************************)
\* What update_native_def_entity_acl is called with: the request or, in the exception
\* handler, the previous ACL.
AclTarget(a) == IF loc[a].undoing THEN loc[a].prev ELSE loc[a].request

\* Half-way through it: whether u has been shared with, or still is and should not be.
AclSharing(a, u) ==
  /\ loc[a].entries[u] \in {Absent, AclTarget(a)[u]}
  /\ AclTarget(a)[u] = Absent => u \in loc[a].own \/ world.entity[u] = Absent
  /\ AclTarget(a)[u] # Absent /\ loc[a].entries[u] = Absent =>
       world.entity[u] = AclTarget(a)[u] /\ u \notin loc[a].own

\* What an update knows of user u, by where it is.
AclKnown(a, u) ==
  /\ pc[a] \in {"share", "unshare"} => AclSharing(a, u)
  /\ pc[a] = "unshare" => loc[a].entries[u] = Absent
  /\ pc[a] \in {"readVapp", "vapp", "done"} => world.entity[u] = loc[a].request[u]
  /\ pc[a] = "done" /\ loc[a].request[u] # Absent => world.vapp[u] = loc[a].request[u]
  /\ loc[a].alone =>
       /\ world.entity[u] \in {loc[a].request[u], loc[a].prev[u]}
       /\ pc[a] = "done" /\ loc[a].prev[u] # Absent => world.vapp[u] = loc[a].request[u]
       /\ loc[a].restored => world.entity[u] = loc[a].prev[u]

\* It knows that when no other is at work, or all ask the same for the user.
AclProgress(a, u) == C!Begun(a) /\ (loc[a].alone \/ C!Agreed(u)) => AclKnown(a, u)

\* What its local variables say, whatever the others do.
AclPath(a) ==
  /\ pc[a] \in {"read", "share", "unshare", "readVapp", "vapp", "rollback", "done", "failed"}
  /\ loc[a].undoing => pc[a] \in {"share", "unshare", "rollback", "failed"}
  /\ loc[a].restored => pc[a] = "failed"
  /\ pc[a] = "vapp" => \A u \in AclOwnUsers : loc[a].prev[u] # Absent => loc[a].kept[u] = Absent

\* While an update is alone no other is at work.
AclAlone == \A a, b \in Ops : a # b /\ C!Begun(a) /\ loc[a].alone => ~C!Busy(b)

AclInv ==
  /\ C!TypeOK /\ AclAlone
  /\ \A a \in Ops : AclPath(a) /\ \A u \in AclOwnUsers : AclProgress(a, u)

(***************************************************************************)
(* What a step of one update must show to keep the invariant.              *)
(***************************************************************************)
AclWorlds == [entity : C!Acls, ids : [AclUsers -> C!EntryIds], vapp : C!Acls]

\* A step of a, which has begun, sets its local variables to l.
AclMoves(a, l) ==
  /\ loc' = [loc EXCEPT ![a] = l] /\ l \in C!Locals
  /\ l.request = loc[a].request /\ l.alone = loc[a].alone
  /\ loc[a].undoing => l.undoing
  /\ C!Busy(a) /\ pc' = [pc EXCEPT ![a] = pc'[a]] /\ pc'[a] # "read"
  /\ faults' \in 0..MaxFaults

\* What it writes of user u is what it was asked for.
AclWrites(a, u) ==
  /\ world'.entity[u] \in {world.entity[u], loc[a].request[u]}
  /\ loc[a].request[u] # Absent => world'.vapp[u] \in {world.vapp[u], loc[a].request[u]}

\* The others' variables stay.
LEMMA AclFrame ==
  ASSUME C!TypeOK, NEW a \in Ops, NEW l, AclMoves(a, l)
  PROVE  /\ loc'[a] = l
         /\ \A b \in Ops \ {a} : loc'[b] = loc[b] /\ pc'[b] = pc[b]
         /\ \A b \in Ops : C!Begun(b)' = C!Begun(b) /\ loc'[b].request = loc[b].request
         /\ \A b \in Ops : loc[b].undoing => loc'[b].undoing
<1>1. DOMAIN loc = Ops /\ DOMAIN pc = Ops
  BY DEF C!TypeOK
<1>2. loc'[a] = l /\ \A b \in Ops \ {a} : loc'[b] = loc[b] /\ pc'[b] = pc[b]
  BY <1>1 DEF AclMoves
<1>3. C!Begun(a)' = C!Begun(a)
  BY DEF AclMoves, C!Busy, C!Begun
<1>4. \A b \in Ops \ {a} : C!Begun(b)' = C!Begun(b)
  BY <1>2 DEF C!Begun
<1>5. \A b \in Ops : loc'[b].request = loc[b].request /\ (loc[b].undoing => loc'[b].undoing)
  BY <1>2 DEF AclMoves
<1> QED
  BY <1>2, <1>3, <1>4, <1>5

\* Updates that agree after a step agreed before it.
LEMMA AclStillAgreed ==
  ASSUME C!TypeOK, NEW a \in Ops, NEW l, AclMoves(a, l), NEW u \in AclUsers, C!Agreed(u)'
  PROVE  C!Agreed(u)
<1>1. \A b \in Ops : /\ C!Begun(b)' = C!Begun(b) /\ loc'[b].request = loc[b].request
                     /\ loc[b].undoing => loc'[b].undoing
  BY AclFrame
<1> QED
  BY <1>1 DEF C!Agreed

\* What the updates know before the step.
LEMMA AclWasKnown ==
  ASSUME AclInv, NEW a \in Ops, NEW l, AclMoves(a, l), NEW u \in AclOwnUsers,
         loc[a].alone \/ C!Agreed(u)'
  PROVE  AclKnown(a, u)
<1>1. C!Begun(a) /\ u \in AclUsers /\ C!TypeOK
  BY DEF AclMoves, C!Busy, AclOwnUsers, AclInv
<1>2. loc[a].alone \/ C!Agreed(u)
  BY <1>1, AclStillAgreed
<1> QED
  BY <1>1, <1>2 DEF AclInv, AclProgress

\* What another update knows it still knows.
LEMMA AclOthersKnow ==
  ASSUME AclInv, NEW a \in Ops, NEW l, AclMoves(a, l), NEW u \in AclOwnUsers,
         C!Agreed(u)' => AclWrites(a, u), NEW b \in Ops \ {a}
  PROVE  AclProgress(b, u)'
<1> SUFFICES ASSUME C!Begun(b)', loc'[b].alone \/ C!Agreed(u)'
             PROVE  AclKnown(b, u)'
  BY DEF AclProgress
<1>1. u \in AclUsers /\ C!TypeOK /\ C!Begun(a)
  BY DEF AclOwnUsers, AclInv, AclMoves, C!Busy
<1>2. loc'[b] = loc[b] /\ pc'[b] = pc[b] /\ C!Begun(b)
  BY <1>1, AclFrame DEF C!Begun
<1>3. ~loc[b].alone
  BY <1>2 DEF AclInv, AclAlone, AclMoves
<1>4. AclWrites(a, u) /\ C!Agreed(u)
  BY <1>1, <1>2, <1>3, AclStillAgreed
<1>5. loc[a].request[u] = loc[b].request[u] /\ ~loc[b].undoing
  BY <1>1, <1>2, <1>4 DEF C!Agreed
<1>6. AclKnown(b, u)
  BY <1>2, <1>4 DEF AclInv, AclProgress
<1>7. AclTarget(b) = loc[b].request /\ AclTarget(b)' = loc[b].request
  BY <1>2, <1>5 DEF AclTarget
<1>8. AclSharing(b, u) => AclSharing(b, u)'
  BY <1>2, <1>4, <1>5, <1>7 DEF AclSharing, AclWrites
<1> QED
  BY <1>2, <1>3, <1>4, <1>5, <1>6, <1>8 DEF AclKnown, AclWrites

LEMMA AclOneMoves ==
  ASSUME AclInv, NEW a \in Ops, NEW l, AclMoves(a, l), world' \in AclWorlds, AclPath(a)',
         \A u \in AclOwnUsers : C!Agreed(u)' => AclWrites(a, u),
         \A u \in AclOwnUsers : AclKnown(a, u) => AclKnown(a, u)'
  PROVE  AclInv'
<1>1. C!TypeOK'
  BY DEF AclMoves, AclInv, C!TypeOK, AclWorlds
<1>2. /\ loc'[a] = l /\ l.alone = loc[a].alone /\ C!Busy(a)
      /\ \A b \in Ops \ {a} : loc'[b] = loc[b] /\ pc'[b] = pc[b]
      /\ \A b \in Ops : C!Begun(b)' = C!Begun(b)
  BY AclFrame DEF AclInv, AclMoves
<1>3. AclAlone'
  <2> SUFFICES ASSUME NEW b \in Ops, NEW c \in Ops, b # c, C!Begun(b)', loc'[b].alone
               PROVE  ~C!Busy(c)'
    BY DEF AclAlone
  <2>1. C!Begun(b) /\ loc[b].alone /\ ~C!Busy(c)
    BY <1>2 DEF AclInv, AclAlone
  <2>2. c # a
    BY <1>2, <2>1
  <2> QED
    BY <1>2, <2>1, <2>2 DEF C!Busy, C!Begun, C!Ended
<1>4. \A b \in Ops : AclPath(b)'
  BY <1>2 DEF AclInv, AclPath
<1>5. \A b \in Ops, u \in AclOwnUsers : AclProgress(b, u)'
  <2> SUFFICES ASSUME NEW b \in Ops, NEW u \in AclOwnUsers PROVE AclProgress(b, u)'
    OBVIOUS
  <2>1. CASE b = a
    <3> SUFFICES ASSUME loc[a].alone \/ C!Agreed(u)' PROVE AclKnown(a, u)'
      BY <1>2, <2>1 DEF AclProgress
    <3> QED
      BY AclWasKnown
  <2>2. CASE b # a
    BY <2>2, AclOthersKnow
  <2> QED
    BY <2>1, <2>2
<1> QED
  BY <1>1, <1>3, <1>4, <1>5 DEF AclInv

(***************************************************************************)
(* What the calls change.                                                  *)
(***************************************************************************)
\* Such a user is none of those that are left, and nothing else is changed.
AclUserSeenTo(a, u) == [loc[a] EXCEPT !.entries[u] = Absent, !.own = @ \ {u}]

\* One user's entry in the ACL of the entity has another level, and the id of another.
AclEntry(u, level)        == [world EXCEPT !.entity[u] = level]
AclNewEntry(u, level, id) == [world EXCEPT !.entity[u] = level, !.ids[u] = id]

LEMMA AclEntityEntry ==
  ASSUME C!TypeOK, NEW w, NEW u \in AclUsers, NEW level \in C!Levels \cup {Absent},
         NEW id \in C!EntryIds, w = AclNewEntry(u, level, id) \/ w = AclEntry(u, level)
  PROVE  /\ w \in AclWorlds /\ w.entity[u] = level /\ w.vapp = world.vapp
         /\ \A v \in AclUsers \ {u} : w.entity[v] = world.entity[v]
<1> DEFINE e == [world.entity EXCEPT ![u] = level]
           i == [world.ids EXCEPT ![u] = id]
<1>1. world \in AclWorlds
  BY DEF C!TypeOK, AclWorlds
<1>2. e \in C!Acls /\ e[u] = level /\ \A v \in AclUsers \ {u} : e[v] = world.entity[v]
  BY <1>1 DEF C!Acls, AclWorlds
<1>3. i \in [AclUsers -> C!EntryIds]
  BY <1>1 DEF AclWorlds
<1>4. w = [world EXCEPT !.entity = e, !.ids = i] \/ w = [world EXCEPT !.entity = e]
  BY <1>1 DEF AclEntry, AclNewEntry, AclWorlds
<1> HIDE DEF e, i
<1>5. w \in AclWorlds /\ w.entity = e /\ w.vapp = world.vapp
  BY <1>1, <1>2, <1>3, <1>4 DEF AclWorlds
<1> QED
  BY <1>2, <1>5

LEMMA AclUserDone ==
  ASSUME C!TypeOK, NEW a \in Ops, NEW u \in AclUsers
  PROVE  /\ AclUserSeenTo(a, u) \in C!Locals /\ AclUserSeenTo(a, u).own = loc[a].own \ {u}
         /\ AclUserSeenTo(a, u).entries[u] = Absent
         /\ \A v \in AclUsers \ {u} : AclUserSeenTo(a, u).entries[v] = loc[a].entries[v]
         /\ AclUserSeenTo(a, u).request = loc[a].request /\ AclUserSeenTo(a, u).prev = loc[a].prev
         /\ AclUserSeenTo(a, u).undoing = loc[a].undoing
         /\ AclUserSeenTo(a, u).restored = loc[a].restored
         /\ AclUserSeenTo(a, u).alone = loc[a].alone
<1> DEFINE e == [loc[a].entries EXCEPT ![u] = Absent]
           l == AclUserSeenTo(a, u)
<1>1. l = [loc[a] EXCEPT !.entries = e, !.own = @ \ {u}] /\ loc[a] \in C!Locals
  BY DEF C!TypeOK, AclUserSeenTo
<1>2. e \in C!Acls /\ e[u] = Absent /\ \A v \in AclUsers \ {u} : e[v] = loc[a].entries[v]
  BY <1>1 DEF C!Acls, C!Locals
<1> HIDE DEF e, l
<1>3. /\ l \in C!Locals /\ l.own = loc[a].own \ {u} /\ l.entries = e
      /\ l.request = loc[a].request /\ l.prev = loc[a].prev
      /\ l.undoing = loc[a].undoing /\ l.restored = loc[a].restored /\ l.alone = loc[a].alone
  BY <1>1, <1>2 DEF C!Locals
<1> QED
  BY <1>2, <1>3 DEF l

\* At first no update has begun.
LEMMA AclInitInv == MaxFaults \in Nat /\ C!Init => AclInv
<1> SUFFICES ASSUME MaxFaults \in Nat, C!Init PROVE AclInv
  OBVIOUS
<1>1. C!NoAcl \in C!Acls /\ C!NoAcl \in [AclUsers -> C!EntryIds]
  BY DEF C!NoAcl, C!Acls, C!EntryIds
<1>2. PICK e \in C!Acls, v \in C!Acls : world = [entity |-> e, ids |-> C!NoAcl, vapp |-> v]
  BY DEF C!Init
<1>3. PICK r \in [Ops -> C!Acls], s \in [Ops -> BOOLEAN] :
        loc = [a \in Ops |-> C!Asking(r[a], s[a])]
  BY DEF C!Init
<1>4. pc = [a \in Ops |-> "read"] /\ faults = 0
  BY DEF C!Init
<1>5. \A a \in Ops : loc[a] \in C!Locals /\ ~loc[a].undoing /\ ~loc[a].restored
  <2> SUFFICES ASSUME NEW a \in Ops PROVE loc[a] \in C!Locals /\ ~loc[a].undoing /\ ~loc[a].restored
    OBVIOUS
  <2>1. loc[a] = C!Asking(r[a], s[a]) /\ r[a] \in C!Acls /\ s[a] \in BOOLEAN
    BY <1>3
  <2> QED
    BY <1>1, <2>1 DEF C!Asking, C!Locals
<1>6. world \in AclWorlds
  BY <1>1, <1>2 DEF AclWorlds
<1>7. C!TypeOK
  BY <1>3, <1>4, <1>5, <1>6 DEF C!TypeOK, AclWorlds
<1>8. \A a \in Ops : ~C!Begun(a) /\ AclPath(a)
  BY <1>4, <1>5 DEF C!Begun, AclPath
<1> QED
  BY <1>7, <1>8 DEF AclInv, AclAlone, AclProgress

(***************************************************************************)
(* Every call keeps the invariant.                                         *)
(***************************************************************************)
\* The reading of the ACL: no user has been seen to yet.  Those whom the update
\* overlaps are not alone any more.
LEMMA AclReadStep ==
  ASSUME MaxFaults \in Nat, AclInv, NEW a \in Ops, C!Read(a)
  PROVE  AclInv'
<1> DEFINE l == [loc[a] EXCEPT !.prev = world.entity, !.entries = loc[a].request,
                               !.own = C!Listed(world.entity), !.ids = world.ids,
                               !.alone = \A c \in Ops : ~C!Busy(c)]
<1>1. /\ C!TypeOK /\ loc \in [Ops -> C!Locals] /\ DOMAIN pc = Ops /\ world \in AclWorlds
      /\ AclAlone /\ pc[a] = "read"
  BY DEF AclInv, C!TypeOK, AclWorlds, C!Read
<1>2. /\ l \in C!Locals /\ l.entries = loc[a].request /\ l.own = C!Listed(world.entity)
      /\ l.request = loc[a].request /\ l.undoing = loc[a].undoing /\ l.restored = loc[a].restored
      /\ l.prev = world.entity /\ (l.alone <=> \A c \in Ops : ~C!Busy(c))
  BY <1>1 DEF C!Locals, C!Listed, AclWorlds
<1>3. /\ pc' = [pc EXCEPT ![a] = pc'[a]] /\ pc'[a] \in {"share", "failed"} /\ world' = world
      /\ faults' \in 0..MaxFaults
  <2>1. C!Query(a, "share", "failed") /\ faults \in 0..MaxFaults
    BY <1>1 DEF C!Read, C!TypeOK
  <2> QED
    BY <1>1, <2>1 DEF C!Query, C!Goto, C!Fault
<1>4. /\ loc' = [b \in Ops |-> IF b = a THEN l
                               ELSE [loc[b] EXCEPT !.alone = @ /\ ~C!Begun(b)]]
  BY DEF C!Read
<1> HIDE DEF l
<1>5. loc'[a] = l /\ \A b \in Ops \ {a} : loc'[b] = [loc[b] EXCEPT !.alone = @ /\ ~C!Begun(b)]
  BY <1>4
<1>6. \A b \in Ops \ {a} :
        /\ loc'[b] \in C!Locals /\ loc'[b].entries = loc[b].entries /\ loc'[b].own = loc[b].own
        /\ loc'[b].request = loc[b].request /\ loc'[b].prev = loc[b].prev
        /\ loc'[b].kept = loc[b].kept
        /\ loc'[b].undoing = loc[b].undoing /\ loc'[b].restored = loc[b].restored
        /\ (loc'[b].alone <=> loc[b].alone /\ ~C!Begun(b)) /\ pc'[b] = pc[b]
  <2> SUFFICES ASSUME NEW b \in Ops \ {a}
               PROVE  /\ loc'[b] \in C!Locals /\ loc'[b].entries = loc[b].entries
                      /\ loc'[b].own = loc[b].own
                      /\ loc'[b].request = loc[b].request /\ loc'[b].prev = loc[b].prev
                      /\ loc'[b].kept = loc[b].kept
                      /\ loc'[b].undoing = loc[b].undoing /\ loc'[b].restored = loc[b].restored
                      /\ (loc'[b].alone <=> loc[b].alone /\ ~C!Begun(b)) /\ pc'[b] = pc[b]
    OBVIOUS
  <2>1. loc[b] \in C!Locals /\ loc'[b] = [loc[b] EXCEPT !.alone = @ /\ ~C!Begun(b)]
    BY <1>1, <1>5
  <2>2. (loc[b].alone /\ ~C!Begun(b)) \in BOOLEAN
    BY <2>1 DEF C!Locals, C!Begun
  <2>3. pc'[b] = pc[b]
    BY <1>1, <1>3
  <2> QED
    BY <2>1, <2>2, <2>3 DEF C!Locals
<1>7. C!TypeOK'
  <2>1. loc' \in [Ops -> C!Locals]
    BY <1>2, <1>4, <1>5, <1>6
  <2>2. DOMAIN pc' = Ops
    BY <1>1, <1>3
  <2> QED
    BY <1>1, <1>3, <2>1, <2>2 DEF C!TypeOK, AclWorlds
<1>8. AclAlone'
  <2> SUFFICES ASSUME NEW b \in Ops, NEW c \in Ops, b # c, C!Begun(b)', loc'[b].alone
               PROVE  ~C!Busy(c)'
    BY DEF AclAlone
  <2>1. b = a
    BY <1>6 DEF C!Begun
  <2>2. ~C!Busy(c) /\ pc'[c] = pc[c]
    BY <1>2, <1>5, <1>6, <2>1
  <2> QED
    BY <2>2 DEF C!Busy, C!Begun, C!Ended
<1>9. \A b \in Ops : AclPath(b)'
  <2>1. AclPath(a)'
    BY <1>1, <1>2, <1>3, <1>5 DEF AclInv, AclPath
  <2>2. \A b \in Ops \ {a} : AclPath(b)'
    BY <1>6 DEF AclInv, AclPath
  <2> QED
    BY <2>1, <2>2
<1>10. \A b \in Ops, u \in AclOwnUsers : AclProgress(b, u)'
  <2> SUFFICES ASSUME NEW b \in Ops, NEW u \in AclOwnUsers,
                      C!Begun(b)', loc'[b].alone \/ C!Agreed(u)'
               PROVE  AclKnown(b, u)'
    BY DEF AclProgress
  <2>1. CASE b = a
    <3>1. AclTarget(a)' = loc[a].request
      <4>1. ~loc[a].undoing
        BY <1>1 DEF AclInv, AclPath
      <4> QED
        BY <1>2, <1>5, <4>1 DEF AclTarget
    <3>2. loc[a].request \in C!Acls /\ world.entity \in C!Acls /\ ~loc[a].restored
      BY <1>1 DEF C!Locals, AclWorlds, AclInv, AclPath
    <3>3. AclSharing(a, u)'
      BY <1>2, <1>3, <1>5, <3>1, <3>2 DEF AclSharing, C!Listed, AclOwnUsers
    <3> QED
      BY <1>2, <1>3, <1>5, <2>1, <3>2, <3>3 DEF AclKnown
  <2>2. CASE b # a
    <3>1. C!Begun(b) /\ ~loc'[b].alone
      BY <1>6, <2>2 DEF C!Begun
    <3>2. C!Agreed(u)
      <4> SUFFICES ASSUME NEW c \in Ops, NEW d \in Ops, C!Begun(c), C!Begun(d)
                   PROVE  loc[c].request[u] = loc[d].request[u] /\ ~loc[c].undoing
        BY DEF C!Agreed
      <4>1. c # a /\ d # a
        BY <1>1 DEF C!Begun
      <4>2. C!Begun(c)' /\ C!Begun(d)'
        BY <1>6, <4>1 DEF C!Begun
      <4> QED
        BY <1>6, <3>1, <4>1, <4>2 DEF C!Agreed
    <3>3. AclKnown(b, u)
      BY <3>1, <3>2 DEF AclInv, AclProgress
    <3>4. AclSharing(b, u)' <=> AclSharing(b, u)
      BY <1>3, <1>6, <2>2 DEF AclSharing, AclTarget
    <3> QED
      BY <1>3, <1>6, <2>2, <3>1, <3>3, <3>4 DEF AclKnown
  <2> QED
    BY <2>1, <2>2
<1> QED
  BY <1>7, <1>8, <1>9, <1>10 DEF AclInv

\* The exception handler: the same calls, for the previous ACL.
LEMMA AclRollbackStep ==
  ASSUME MaxFaults \in Nat, AclInv, NEW a \in Ops, C!Rollback(a)
  PROVE  AclInv'
<1> DEFINE l == [loc[a] EXCEPT !.undoing = TRUE, !.entries = loc[a].prev,
                               !.own = C!Listed(world.entity), !.ids = world.ids]
<1>1. loc[a] \in C!Locals /\ world \in AclWorlds /\ C!TypeOK
  BY DEF AclInv, C!TypeOK, AclWorlds
<1>2. /\ l \in C!Locals /\ l.entries = loc[a].prev /\ l.own = C!Listed(world.entity)
      /\ l.request = loc[a].request /\ l.prev = loc[a].prev /\ l.undoing
      /\ l.restored = loc[a].restored /\ l.alone = loc[a].alone
  BY <1>1 DEF C!Locals, C!Listed, AclWorlds
<1>3. /\ AclMoves(a, l) /\ pc[a] = "rollback" /\ pc'[a] \in {"share", "failed"} /\ world' = world
  BY <1>1, <1>2
  DEF C!Rollback, C!Query, C!Goto, C!Set, C!Fault, AclMoves, C!Busy, C!Begun, C!Ended, C!TypeOK
<1> HIDE DEF l
<1>4. loc'[a] = l /\ ~l.restored
  BY <1>1, <1>2, <1>3, AclFrame DEF AclInv, AclPath
<1>5. AclPath(a)'
  BY <1>2, <1>3, <1>4 DEF AclPath
<1>6. \A u \in AclOwnUsers : AclWrites(a, u)
  BY <1>3 DEF AclWrites
<1>7. \A u \in AclOwnUsers : AclKnown(a, u) => AclKnown(a, u)'
  <2> SUFFICES ASSUME NEW u \in AclOwnUsers, AclKnown(a, u) PROVE AclKnown(a, u)'
    OBVIOUS
  <2>1. AclSharing(a, u)'
    BY <1>1, <1>2, <1>3, <1>4 DEF AclSharing, AclTarget, C!Listed, AclOwnUsers
  <2> QED
    BY <1>2, <1>3, <1>4, <2>1 DEF AclKnown
<1> QED
  BY <1>1, <1>3, <1>5, <1>6, <1>7, AclOneMoves

\* An entry is shared: its user has the level that is wanted.
LEMMA AclShareStep ==
  ASSUME MaxFaults \in Nat, AclInv, NEW a \in Ops, C!Share(a)
  PROVE  AclInv'
<1>1. /\ pc[a] = "share" /\ loc[a] \in C!Locals /\ ~loc[a].restored /\ C!TypeOK
      /\ world \in AclWorlds
  BY DEF C!Share, AclInv, C!TypeOK, AclPath, AclWorlds
<1>2. PICK u \in C!Listed(loc[a].entries) : C!SkipUser(a, u) \/ C!ShareUser(a, u)
  BY DEF C!Share
<1>3. u \in AclUsers /\ loc[a].entries[u] # Absent /\ loc[a].entries[u] \in C!Levels
  BY <1>1, <1>2 DEF C!Listed, C!Locals, C!Acls
<1> DEFINE l == AclUserSeenTo(a, u)
           w == C!WithEntry(a, u, loc[a].entries[u])
<1>4. /\ l \in C!Locals /\ l.own = loc[a].own \ {u} /\ l.entries[u] = Absent
      /\ \A v \in AclUsers \ {u} : l.entries[v] = loc[a].entries[v]
      /\ l.request = loc[a].request /\ l.prev = loc[a].prev
      /\ l.undoing = loc[a].undoing /\ l.restored = loc[a].restored /\ l.alone = loc[a].alone
  BY <1>1, <1>3, AclUserDone
<1>5. /\ w \in AclWorlds /\ w.entity[u] = loc[a].entries[u] /\ w.vapp = world.vapp
      /\ \A v \in AclUsers \ {u} : w.entity[v] = world.entity[v]
  <2> DEFINE id == IF world.entity[u] = Absent THEN <<a, loc[a].undoing>> ELSE world.ids[u]
  <2>1. id \in C!EntryIds
    BY <1>1, <1>3 DEF C!EntryIds, C!Locals, AclWorlds
  <2>2. w = AclNewEntry(u, loc[a].entries[u], id)
    BY <1>1 DEF C!WithEntry, AclNewEntry, AclWorlds
  <2> HIDE DEF id, w
  <2> QED
    BY <1>1, <1>3, <2>1, <2>2, AclEntityEntry
<1>6. /\ AclMoves(a, l) /\ pc'[a] \in {"share", "rollback"} /\ world' \in {world, w}
      /\ pc'[a] = "share" => (u \in SystemUsers /\ world' = world) \/ world' = w
      /\ u \in SystemUsers \/ world' \in {world, w}
  BY <1>1, <1>2, <1>4
  DEF C!SkipUser, C!ShareUser, AclUserSeenTo, C!Call, C!Step, C!Goto, C!Set, C!Fault, AclMoves,
      C!Busy, C!Begun, C!Ended, C!TypeOK
<1> HIDE DEF l, w
<1>7. loc'[a] = l /\ AclTarget(a)' = AclTarget(a) /\ world' \in AclWorlds
  BY <1>1, <1>4, <1>5, <1>6, AclFrame DEF AclTarget
<1>8. AclPath(a)'
  BY <1>1, <1>4, <1>6, <1>7 DEF AclInv, AclPath
<1>9. ASSUME NEW v \in AclOwnUsers, AclKnown(a, v)
      PROVE  world'.entity[v] \in {world.entity[v], AclTarget(a)[v]} /\ world'.vapp = world.vapp
  <2>1. v \in AclUsers /\ AclSharing(a, v)
    BY <1>1, <1>9 DEF AclOwnUsers, AclKnown
  <2>2. CASE v = u
    BY <1>3, <1>5, <1>6, <2>1, <2>2 DEF AclSharing
  <2>3. CASE v # u
    BY <1>5, <1>6, <2>1, <2>3
  <2> QED
    BY <2>2, <2>3
<1>10. \A v \in AclOwnUsers : C!Agreed(v)' => AclWrites(a, v)
  <2> SUFFICES ASSUME NEW v \in AclOwnUsers, C!Agreed(v)' PROVE AclWrites(a, v)
    OBVIOUS
  <2>1. C!Agreed(v) /\ AclKnown(a, v) /\ C!Begun(a)
    BY <1>1, <1>6, AclStillAgreed, AclWasKnown DEF AclOwnUsers, C!Begun
  <2>2. AclTarget(a) = loc[a].request
    BY <2>1 DEF C!Agreed, AclTarget
  <2> QED
    BY <1>9, <2>1, <2>2 DEF AclWrites
<1>11. \A v \in AclOwnUsers : AclKnown(a, v) => AclKnown(a, v)'
  <2> SUFFICES ASSUME NEW v \in AclOwnUsers, AclKnown(a, v) PROVE AclKnown(a, v)'
    OBVIOUS
  <2>1. v \in AclUsers /\ v \notin SystemUsers /\ AclSharing(a, v)
    BY <1>1 DEF AclOwnUsers, AclKnown
  <2>2. pc'[a] = "share" => AclSharing(a, v)'
    <3> SUFFICES ASSUME pc'[a] = "share"
                 PROVE  /\ l.entries[v] \in {Absent, AclTarget(a)[v]}
                        /\ AclTarget(a)[v] = Absent => v \in l.own \/ world'.entity[v] = Absent
                        /\ AclTarget(a)[v] # Absent /\ l.entries[v] = Absent =>
                             world'.entity[v] = AclTarget(a)[v] /\ v \notin l.own
      BY <1>7 DEF AclSharing
    <3>1. CASE v = u
      BY <1>3, <1>4, <1>5, <1>6, <2>1, <3>1 DEF AclSharing
    <3>2. CASE v # u
      BY <1>4, <1>5, <1>6, <2>1, <3>2 DEF AclSharing
    <3> QED
      BY <3>1, <3>2
  <2>3. l.alone => world'.entity[v] \in {loc[a].request[v], loc[a].prev[v]}
    BY <1>4, <1>9 DEF AclKnown, AclTarget
  <2> QED
    BY <1>1, <1>4, <1>6, <1>7, <2>2, <2>3 DEF AclKnown
<1> QED
  BY <1>6, <1>7, <1>8, <1>10, <1>11, AclOneMoves

\* A user whom the entity is no longer shared with is none that is wanted.
LEMMA AclUnshareStep ==
  ASSUME MaxFaults \in Nat, AclInv, NEW a \in Ops, C!Unshare(a)
  PROVE  AclInv'
<1>1. /\ pc[a] = "unshare" /\ loc[a] \in C!Locals /\ ~loc[a].restored /\ C!TypeOK
      /\ world \in AclWorlds
  BY DEF C!Unshare, AclInv, C!TypeOK, AclPath, AclWorlds
<1>2. PICK u \in loc[a].own :
        /\ \/ C!Call(a, [world EXCEPT !.entity[u] = Absent], "unshare", "rollback")
           \/ C!Step(a, "rollback")
        /\ C!Set(a, [loc[a] EXCEPT !.own = @ \ {u}])
  BY DEF C!Unshare
<1> DEFINE l == [loc[a] EXCEPT !.own = @ \ {u}]
           w == [world EXCEPT !.entity[u] = Absent]
<1>3. u \in AclUsers
  BY <1>1 DEF C!Locals
<1>4. /\ l \in C!Locals /\ l.own = loc[a].own \ {u} /\ l.entries = loc[a].entries
      /\ l.request = loc[a].request /\ l.prev = loc[a].prev
      /\ l.undoing = loc[a].undoing /\ l.restored = loc[a].restored /\ l.alone = loc[a].alone
  BY <1>1 DEF C!Locals
<1>5. /\ w \in AclWorlds /\ w.entity[u] = Absent /\ w.vapp = world.vapp
      /\ \A v \in AclUsers \ {u} : w.entity[v] = world.entity[v]
  <2>1. Absent \in C!EntryIds /\ Absent \in C!Levels \cup {Absent}
    BY DEF C!EntryIds
  <2>2. w = AclEntry(u, Absent)
    BY DEF AclEntry
  <2> HIDE DEF w
  <2> QED
    BY <1>1, <1>3, <2>1, <2>2, AclEntityEntry
<1>6. /\ AclMoves(a, l) /\ pc'[a] \in {"unshare", "rollback"} /\ world' \in {world, w}
      /\ pc'[a] = "unshare" => world' = w
  BY <1>1, <1>2, <1>4
  DEF C!Call, C!Step, C!Goto, C!Set, C!Fault, AclMoves, C!Busy, C!Begun, C!Ended, C!TypeOK
<1> HIDE DEF l, w
<1>7. loc'[a] = l /\ AclTarget(a)' = AclTarget(a) /\ world' \in AclWorlds
  BY <1>1, <1>4, <1>5, <1>6, AclFrame DEF AclTarget
<1>8. AclPath(a)'
  BY <1>1, <1>4, <1>6, <1>7 DEF AclInv, AclPath
<1>9. ASSUME NEW v \in AclOwnUsers, AclKnown(a, v)
      PROVE  world'.entity[v] \in {world.entity[v], AclTarget(a)[v]} /\ world'.vapp = world.vapp
  <2>1. v \in AclUsers /\ AclSharing(a, v) /\ loc[a].entries[v] = Absent
    BY <1>1, <1>9 DEF AclOwnUsers, AclKnown
  <2>2. CASE v = u
    BY <1>5, <1>6, <2>1, <2>2 DEF AclSharing
  <2>3. CASE v # u
    BY <1>5, <1>6, <2>1, <2>3
  <2> QED
    BY <2>2, <2>3
<1>10. \A v \in AclOwnUsers : C!Agreed(v)' => AclWrites(a, v)
  <2> SUFFICES ASSUME NEW v \in AclOwnUsers, C!Agreed(v)' PROVE AclWrites(a, v)
    OBVIOUS
  <2>1. C!Agreed(v) /\ AclKnown(a, v) /\ C!Begun(a)
    BY <1>1, <1>6, AclStillAgreed, AclWasKnown DEF AclOwnUsers, C!Begun
  <2>2. AclTarget(a) = loc[a].request
    BY <2>1 DEF C!Agreed, AclTarget
  <2> QED
    BY <1>9, <2>1, <2>2 DEF AclWrites
<1>11. \A v \in AclOwnUsers : AclKnown(a, v) => AclKnown(a, v)'
  <2> SUFFICES ASSUME NEW v \in AclOwnUsers, AclKnown(a, v) PROVE AclKnown(a, v)'
    OBVIOUS
  <2>1. v \in AclUsers /\ AclSharing(a, v) /\ loc[a].entries[v] = Absent
    BY <1>1 DEF AclOwnUsers, AclKnown
  <2>2. pc'[a] = "unshare" => AclSharing(a, v)'
    BY <1>4, <1>5, <1>6, <1>7, <2>1 DEF AclSharing
  <2>3. l.alone => world'.entity[v] \in {loc[a].request[v], loc[a].prev[v]}
    BY <1>4, <1>9 DEF AclKnown, AclTarget
  <2> QED
    BY <1>1, <1>4, <1>6, <1>7, <2>1, <2>2, <2>3 DEF AclKnown
<1> QED
  BY <1>6, <1>7, <1>8, <1>10, <1>11, AclOneMoves

\* When every entry has been seen to, the entity is shared as wanted.
LEMMA AclEndStep ==
  ASSUME MaxFaults \in Nat, AclInv, NEW a \in Ops, C!Shared(a) \/ C!Unshared(a) \/ C!RollbackFails(a)
  PROVE  AclInv'
<1>1. /\ loc[a] \in C!Locals /\ C!TypeOK /\ world' = world /\ faults' \in 0..MaxFaults
      /\ world \in AclWorlds /\ pc[a] \in {"share", "unshare", "rollback"} /\ C!Busy(a)
      /\ ~loc[a].restored
  BY DEF C!Shared, C!Unshared, C!RollbackFails, C!Step, AclInv, C!TypeOK, AclWorlds, AclPath,
         C!Busy, C!Begun, C!Ended
<1>2. \A u \in AclOwnUsers : AclWrites(a, u)
  BY <1>1 DEF AclWrites
<1>3. CASE C!Shared(a)
  <2>1. AclMoves(a, loc[a]) /\ pc[a] = "share" /\ pc'[a] = "unshare" /\ loc' = loc
    BY <1>1, <1>3 DEF C!Shared, C!Step, C!Goto, AclMoves, C!TypeOK
  <2>2. \A u \in AclUsers : loc[a].entries[u] = Absent
    BY <1>3 DEF C!Shared, C!Listed
  <2>3. AclPath(a)'
    BY <1>1, <2>1 DEF AclInv, AclPath
  <2>4. \A u \in AclOwnUsers : AclKnown(a, u) => AclKnown(a, u)'
    BY <1>1, <2>1, <2>2 DEF AclKnown, AclSharing, AclTarget, AclOwnUsers
  <2> QED
    BY <1>1, <1>2, <2>1, <2>3, <2>4, AclOneMoves
<1>4. CASE C!Unshared(a)
  <2> DEFINE l == [loc[a] EXCEPT !.restored = loc[a].undoing]
  <2>1. pc[a] = "unshare" /\ loc[a].own = {}
    BY <1>4 DEF C!Unshared
  <2>2. /\ l \in C!Locals /\ l.restored = loc[a].undoing /\ l.undoing = loc[a].undoing
        /\ l.request = loc[a].request /\ l.prev = loc[a].prev /\ l.alone = loc[a].alone
        /\ l.kept = loc[a].kept
    BY <1>1 DEF C!Locals
  <2>3. AclMoves(a, l) /\ pc'[a] = IF loc[a].undoing THEN "failed" ELSE "readVapp"
    BY <1>1, <1>4, <2>2 DEF C!Unshared, C!Step, C!Set, C!Goto, AclMoves, C!TypeOK
  <2> HIDE DEF l
  <2>4. loc'[a] = l
    BY <1>1, <2>3, AclFrame
  <2>5. AclPath(a)'
    BY <1>1, <2>2, <2>3, <2>4 DEF AclPath
  <2>6. \A u \in AclOwnUsers : AclKnown(a, u) => AclKnown(a, u)'
    <3> SUFFICES ASSUME NEW u \in AclOwnUsers, AclKnown(a, u) PROVE AclKnown(a, u)'
      OBVIOUS
    <3>1. world.entity[u] = AclTarget(a)[u]
      BY <2>1 DEF AclKnown, AclSharing
    <3> QED
      BY <1>1, <2>2, <2>3, <2>4, <3>1 DEF AclKnown, AclTarget
  <2> QED
    BY <1>1, <1>2, <2>3, <2>5, <2>6, AclOneMoves
<1>5. CASE C!RollbackFails(a)
  <2>1. /\ AclMoves(a, loc[a]) /\ pc[a] = "rollback" /\ pc'[a] = "failed" /\ loc' = loc
    BY <1>1, <1>5 DEF C!RollbackFails, C!Step, C!Goto, AclMoves, AclInv, C!TypeOK
  <2>2. AclPath(a)'
    BY <1>1, <2>1 DEF AclInv, AclPath
  <2>3. \A u \in AclOwnUsers : AclKnown(a, u) => AclKnown(a, u)'
    BY <1>1, <2>1 DEF AclKnown
  <2> QED
    BY <1>1, <1>2, <2>1, <2>2, <2>3, AclOneMoves
<1> QED
  BY <1>3, <1>4, <1>5

\* The vApp is shared as requested, and as before with those whom only it knows.
LEMMA AclVappStep ==
  ASSUME MaxFaults \in Nat, AclInv, NEW a \in Ops, C!ReadVapp(a) \/ C!UpdateVapp(a)
  PROVE  AclInv'
<1>1. /\ loc[a] \in C!Locals /\ world \in AclWorlds /\ C!TypeOK /\ C!Busy(a)
      /\ pc[a] \in {"readVapp", "vapp"} /\ ~loc[a].undoing /\ ~loc[a].restored
  BY DEF C!ReadVapp, C!UpdateVapp, AclInv, C!TypeOK, AclPath, AclWorlds, C!Busy, C!Begun, C!Ended
<1>2. CASE C!ReadVapp(a)
  <2> DEFINE k == [u \in AclUsers |-> IF loc[a].prev[u] = Absent THEN world.vapp[u] ELSE Absent]
             l == [loc[a] EXCEPT !.kept = k]
  <2>1. k \in C!Acls /\ \A u \in AclUsers : loc[a].prev[u] # Absent => k[u] = Absent
    BY <1>1 DEF C!Acls, AclWorlds
  <2> HIDE DEF k
  <2>2. /\ l \in C!Locals /\ l.kept = k /\ l.prev = loc[a].prev /\ l.request = loc[a].request
        /\ l.undoing = loc[a].undoing /\ l.restored = loc[a].restored /\ l.alone = loc[a].alone
    BY <1>1, <2>1 DEF C!Locals
  <2>3. /\ AclMoves(a, l) /\ pc[a] = "readVapp" /\ pc'[a] \in {"vapp", "rollback"}
        /\ world' = world
    BY <1>1, <1>2, <2>2 DEF C!ReadVapp, C!Query, C!Set, C!Goto, C!Fault, AclMoves, C!TypeOK, k
  <2> HIDE DEF l
  <2>4. loc'[a] = l
    BY <1>1, <2>3, AclFrame
  <2>5. AclPath(a)'
    BY <1>1, <2>1, <2>2, <2>3, <2>4 DEF AclPath, AclOwnUsers
  <2>6. \A u \in AclOwnUsers : AclKnown(a, u) => AclKnown(a, u)'
    BY <1>1, <2>2, <2>3, <2>4 DEF AclKnown
  <2>7. \A u \in AclOwnUsers : AclWrites(a, u)
    BY <2>3 DEF AclWrites
  <2> QED
    BY <1>1, <2>3, <2>5, <2>6, <2>7, AclOneMoves
<1>3. CASE C!UpdateVapp(a)
  <2> DEFINE v == [u \in AclUsers |-> IF C!Wanted(loc[a])[u] # Absent THEN C!Wanted(loc[a])[u]
                                      ELSE loc[a].kept[u]]
             w == [world EXCEPT !.vapp = v]
  <2>1. C!Wanted(loc[a]) \in C!Acls
        /\ \A u \in AclOwnUsers : C!Wanted(loc[a])[u] = loc[a].request[u]
    BY <1>1 DEF C!Wanted, C!Acls, C!Locals, AclOwnUsers
  <2>2. v \in C!Acls /\ \A u \in AclOwnUsers : loc[a].request[u] # Absent \/ loc[a].prev[u] # Absent =>
                                            v[u] = loc[a].request[u]
    <3>1. pc[a] = "vapp" /\ \A u \in AclOwnUsers : loc[a].prev[u] # Absent => loc[a].kept[u] = Absent
      BY <1>3 DEF C!UpdateVapp, AclInv, AclPath
    <3> QED
      BY <1>1, <2>1, <3>1 DEF C!Acls, C!Locals, AclOwnUsers
  <2> HIDE DEF v
  <2>3. w \in AclWorlds /\ w.entity = world.entity /\ w.vapp = v
    BY <1>1, <2>2 DEF AclWorlds
  <2>4. /\ AclMoves(a, loc[a]) /\ loc' = loc /\ pc[a] = "vapp" /\ pc'[a] \in {"done", "rollback"}
        /\ world' \in {world, w} /\ (pc'[a] = "done" => world' = w)
    BY <1>1, <1>3 DEF C!UpdateVapp, C!Call, C!Goto, C!Fault, AclMoves, C!TypeOK, v
  <2> HIDE DEF w
  <2>5. AclPath(a)'
    BY <1>1, <2>4 DEF AclPath
  <2>6. \A u \in AclOwnUsers : AclKnown(a, u) => AclKnown(a, u)'
    BY <1>1, <2>2, <2>3, <2>4 DEF AclKnown
  <2>7. \A u \in AclOwnUsers : AclWrites(a, u)
    BY <2>2, <2>3, <2>4 DEF AclWrites
  <2>8. world' \in AclWorlds
    BY <1>1, <2>3, <2>4
  <2> QED
    BY <2>4, <2>5, <2>6, <2>7, <2>8, AclOneMoves
<1> QED
  BY <1>2, <1>3

\* Every step keeps the invariant.
LEMMA AclNextInv ==
  ASSUME MaxFaults \in Nat, AclInv, [C!Next]_(C!procedureVars)
  PROVE  AclInv'
<1>1. CASE UNCHANGED C!procedureVars
  BY <1>1 DEF C!procedureVars, AclInv, C!TypeOK, AclAlone, AclPath, AclProgress, AclKnown,
              AclSharing, AclTarget, C!Agreed, C!Begun, C!Busy, C!Ended
<1>2. CASE C!Next
  <2>1. PICK a \in Ops :
          \/ C!Read(a) \/ C!Share(a) \/ C!Shared(a) \/ C!Unshare(a) \/ C!Unshared(a)
          \/ C!ReadVapp(a) \/ C!UpdateVapp(a) \/ C!Rollback(a) \/ C!RollbackFails(a)
    BY <1>2 DEF C!Next
  <2> QED
    BY <2>1, AclReadStep, AclRollbackStep, AclShareStep, AclUnshareStep, AclEndStep, AclVappStep
<1> QED
  BY <1>1, <1>2

\* The invariant holds in every reachable state.
LEMMA AclInductive == C!Spec => []AclInv
<1>0. MaxFaults \in Nat
  BY ThreadsAssumption
<1>1. C!Init => AclInv
  BY <1>0, AclInitInv
<1>2. AclInv /\ [C!Next]_(C!procedureVars) => AclInv'
  BY <1>0, AclNextInv
<1> QED
  BY <1>1, <1>2, PTL DEF C!Spec

\* What the invariant says of updates that ended.
LEMMA AclOutcome ==
  ASSUME AclInv
  PROVE  C!AclsAgree /\ C!AgreedIsShared /\ C!RollbackRestores
<1>1. ASSUME NEW a \in Ops, NEW u \in AclUsers \ SystemUsers, C!Ended(a),
             loc[a].alone \/ C!Agreed(u)
      PROVE  AclKnown(a, u)
  BY <1>1 DEF AclInv, AclProgress, AclPath, C!Begun, C!Ended, AclOwnUsers
<1>2. C!AclsAgree
  BY <1>1 DEF C!AclsAgree, C!Ended, AclKnown
<1>3. C!AgreedIsShared
  BY <1>1 DEF C!AgreedIsShared, C!Ended, AclKnown
<1>4. C!RollbackRestores
  BY <1>1 DEF C!RollbackRestores, C!Ended, AclKnown
<1> QED
  BY <1>2, <1>3, <1>4

\* Type correctness.
THEOREM AclTypeCorrect == C!Spec => []C!TypeOK
<1>1. AclInv => C!TypeOK
  BY DEF AclInv
<1> QED
  BY <1>1, AclInductive, PTL

\* An update that failed while no other was at work, and whose exception handler came
\* to its end, has left the entity shared as before.
THEOREM RollbackRestoresHolds == C!Spec => []C!RollbackRestores
<1> QED
  BY AclOutcome, AclInductive, PTL

-----------------------------------------------------------------------------
(***************************************************************************)
(* NetworkExpose, for any clusters, any IP ranges of the gateway and any   *)
(* number of retries and failures.                                         *)
(***************************************************************************)
\* The ranges are pairs of addresses, and no value is none of them.
ExposeAssumption ==
  /\ Ranges \in Seq(Int \X Int)
  /\ MaxRetries \in Nat /\ MaxFaults \in Nat
  /\ Absent \notin Int

(***************************************************************************)
(* The inductive invariant.                                                *)
(***************************************************************************)
\* A procedure makes the calls of its operation, and retries within the bound.
ExposePath(a) ==
  /\ pc[a] \in (IF loc[a].op = "expose" THEN {"gateway", "lookup", "add", "done", "failed"}
                ELSE {"gateway", "find", "delete", "done", "failed"})
  /\ pc[a] = "add" => loc[a].ip \in E!Addresses
  /\ pc[a] # "failed" => loc[a].tries <= MaxRetries

\* A cluster that has not created its rule has none.
OneRule(a) ==
  loc[a].op = "expose" /\ pc[a] \in {"gateway", "lookup", "add"} => \A r \in world : r.name # a

\* The address found is free until another cluster creates its rule.
FreeAddress(a) ==
  pc[a] = "add" /\ ~loc[a].crossed => \A r \in world : r.ip # loc[a].ip

ExposeInv ==
  /\ E!TypeOK
  /\ \A a \in Ops : ExposePath(a) /\ OneRule(a) /\ FreeAddress(a)
  /\ E!RulesDiffer
  /\ E!ExposureIsTrue

\* A set of natural numbers has a least one.
LEMMA LeastNatural ==
  ASSUME NEW S \in SUBSET Nat, S # {}
  PROVE  \E m \in S : \A n \in S : m <= n
<1>1. IsWellFoundedOn(OpToRel(<, Nat), Nat)
  BY NatLessThanWellFounded
<1>2. \E m \in S : \A n \in S : ~(<<n, m>> \in OpToRel(<, Nat))
  BY <1>1, WFMin
<1>3. PICK m \in S : \A n \in S : ~(<<n, m>> \in OpToRel(<, Nat))
  BY <1>2
<1>4. \A n \in S : ~(n < m)
  BY <1>3 DEF OpToRel
<1> QED
  BY <1>4

\* A part of a range of addresses has a least one.
LEMMA LeastAddress ==
  ASSUME NEW lo \in Int, NEW S, S # {}, \A i \in S : i \in Int /\ lo <= i
  PROVE  \E m \in S : \A n \in S : m <= n
<1> DEFINE T == {i - lo : i \in S}
<1>1. T \in SUBSET Nat /\ T # {}
  OBVIOUS
<1>2. PICK t \in T : \A u \in T : t <= u
  BY <1>1, LeastNatural
<1>3. PICK m \in S : t = m - lo
  OBVIOUS
<1>4. \A n \in S : m - lo <= n - lo
  BY <1>2, <1>3
<1> QED
  BY <1>4

\* The address that is looked for is one of a range and not in use, if there is one.
LEMMA AvailableIp ==
  ASSUME ExposeAssumption, NEW used
  PROVE  E!get_available_ip(used) \in (E!Addresses \ used) \cup {Absent}
<1> DEFINE free(i) == E!available_ip(Ranges[i], used)
           with == {i \in DOMAIN Ranges : free(i) # {}}
           first == CHOOSE i \in with : \A j \in with : i <= j
           ip == CHOOSE x \in free(first) : \A other \in free(first) : x <= other
<1>1. E!get_available_ip(used) = IF with = {} THEN Absent ELSE ip
  BY DEF E!get_available_ip
<1>2. SUFFICES ASSUME with # {} PROVE ip \in E!Addresses \ used
  BY <1>1
<1>3. with \in SUBSET Nat
  BY DEF ExposeAssumption
<1>4. first \in with
  <2>1. \E i \in with : \A j \in with : i <= j
    BY <1>2, <1>3, LeastNatural
  <2> QED
    BY <2>1
<1>5. Ranges[first] \in Int \X Int /\ first \in DOMAIN Ranges
  BY <1>4 DEF ExposeAssumption
<1>6. ip \in free(first)
  <2> DEFINE S == free(first)
             lo == Ranges[first][1]
  <2>1. lo \in Int /\ \A i \in S : i \in Int /\ lo <= i
    BY <1>5 DEF E!available_ip, E!RangeSet
  <2>2. S # {}
    BY <1>4
  <2> HIDE DEF S, lo
  <2>3. \E m \in S : \A n \in S : m <= n
    BY <2>1, <2>2, LeastAddress
  <2> QED
    BY <2>3 DEF S
<1>7. free(first) = E!RangeSet(Ranges[first]) \ used
  BY DEF E!available_ip
<1> QED
  BY <1>5, <1>6, <1>7 DEF E!Addresses

\* The addresses are numbers, hence not the absent value.
LEMMA AbsentIsNoAddress ==
  ASSUME ExposeAssumption
  PROVE  Absent \notin E!Addresses
<1>1. \A i \in DOMAIN Ranges : Ranges[i] \in Int \X Int
  BY DEF ExposeAssumption
<1>2. E!Addresses \subseteq Int
  BY <1>1 DEF E!Addresses, E!RangeSet
<1> QED
  BY <1>2 DEF ExposeAssumption

(***************************************************************************)
(* The invariant holds initially and is kept by every step.                *)
(***************************************************************************)
\* At first nobody looks for an address, and no two rules share one.
LEMMA ExposeInitInv == ExposeAssumption /\ E!Init => ExposeInv
<1> SUFFICES ASSUME ExposeAssumption, E!Init PROVE ExposeInv
  OBVIOUS
<1>1. PICK exposed \in SUBSET Ops, ip \in [Ops -> E!Addresses] :
        /\ \A a, b \in exposed : ip[a] = ip[b] => a = b
        /\ world = {[name |-> a, ip |-> ip[a]] : a \in exposed}
        /\ loc = [a \in Ops |->
                    [op |-> IF a \in exposed THEN "unexpose" ELSE "expose", ip |-> Absent,
                     tries |-> 0, swallowed |-> FALSE, crossed |-> FALSE]]
  BY DEF E!Init
<1>2. world \in SUBSET E!Rules
  BY <1>1 DEF E!Rules
<1>3. loc \in [Ops -> E!Locals]
  BY <1>1 DEF E!Locals, ExposeAssumption
<1>4. E!TypeOK
  BY <1>2, <1>3 DEF E!TypeOK, E!Init, ExposeAssumption
<1>5. \A a \in Ops : ExposePath(a) /\ OneRule(a) /\ FreeAddress(a)
  BY <1>1 DEF ExposePath, OneRule, FreeAddress, E!Init, ExposeAssumption
<1>6. E!RulesDiffer /\ E!ExposureIsTrue
  BY <1>1 DEF E!RulesDiffer, E!ExposureIsTrue, E!Init
<1> QED
  BY <1>4, <1>5, <1>6 DEF ExposeInv

\* A step of cluster a leaves the others where they are, with what they know but that
\* they are crossed.
ExposeFrame(a) ==
  /\ \A b \in Ops \ {a} :
       /\ pc'[b] = pc[b] /\ loc'[b].op = loc[b].op /\ loc'[b].ip = loc[b].ip
       /\ loc'[b].tries = loc[b].tries /\ loc'[b].swallowed = loc[b].swallowed
  /\ loc'[a].op = loc[a].op
  /\ \A b \in Ops : loc[b].crossed => loc'[b].crossed

\* A step that changes no rule keeps the invariant if it does for the cluster that
\* takes it.
LEMMA ExposeSameRules ==
  ASSUME ExposeInv, NEW a \in Ops, E!TypeOK', ExposeFrame(a), world' = world,
         ExposePath(a)', OneRule(a)', FreeAddress(a)', pc'[a] # "done"
  PROVE  ExposeInv'
<1>1. \A b \in Ops : (ExposePath(b) /\ OneRule(b) /\ FreeAddress(b))'
  BY DEF ExposeInv, ExposeFrame, ExposePath, OneRule, FreeAddress
<1>2. E!RulesDiffer'
  BY DEF ExposeInv, E!RulesDiffer, ExposeFrame, E!TypeOK, E!Rules
<1>3. E!ExposureIsTrue'
  BY DEF ExposeInv, E!ExposureIsTrue, ExposeFrame
<1> QED
  BY <1>1, <1>2, <1>3 DEF ExposeInv

\* A look-up finds an address that no rule has.
LEMMA ExposeLookUpStep ==
  ASSUME ExposeAssumption, ExposeInv, NEW a \in Ops, E!LookUp(a)
  PROVE  ExposeInv'
<1> DEFINE ip == E!get_available_ip(E!Used)
<1>1. ip \in (E!Addresses \ E!Used) \cup {Absent} /\ Absent \notin E!Addresses
  BY AvailableIp, AbsentIsNoAddress
<1>2. /\ loc' = [loc EXCEPT ![a] = [loc[a] EXCEPT !.ip = ip]] /\ world' = world
      /\ pc[a] = "lookup" /\ faults' \in 0..MaxFaults
      /\ pc' = [pc EXCEPT ![a] = "failed"] \/ (ip # Absent /\ pc' = [pc EXCEPT ![a] = "add"])
  BY DEF E!LookUp, E!Query, E!Goto, E!Fault, E!Set, ExposeInv, E!TypeOK, ExposeAssumption
<1> HIDE DEF ip
<1>3. [loc[a] EXCEPT !.ip = ip] \in E!Locals
  BY <1>1 DEF ExposeInv, E!TypeOK, E!Locals
<1>4. E!TypeOK'
  BY <1>2, <1>3 DEF ExposeInv, E!TypeOK
<1>5. ExposeFrame(a) /\ loc'[a].ip = ip /\ loc'[a].tries = loc[a].tries
  BY <1>2 DEF ExposeFrame, ExposeInv, E!TypeOK, E!Locals
<1>6. pc'[a] \in {"add", "failed"} /\ (pc'[a] = "add" => ip \in E!Addresses \ E!Used)
  BY <1>1, <1>2 DEF ExposeInv, E!TypeOK
<1>7. ExposePath(a)' /\ OneRule(a)'
  BY <1>2, <1>5, <1>6 DEF ExposeInv, ExposePath, OneRule, ExposeFrame
<1>8. FreeAddress(a)'
  BY <1>2, <1>5, <1>6 DEF FreeAddress, E!Used
<1> QED
  BY <1>2, <1>4, <1>5, <1>6, <1>7, <1>8, ExposeSameRules

\* The POST makes the cluster's only rule, and crosses those that had looked before.
LEMMA ExposeAddRuleStep ==
  ASSUME ExposeAssumption, ExposeInv, NEW a \in Ops, E!AddRule(a)
  PROVE  ExposeInv'
<1> DEFINE r == [name |-> a, ip |-> loc[a].ip]
<1>1. pc[a] = "add" /\ loc[a].op = "expose" /\ r \in E!Rules /\ r.name = a /\ r.ip = loc[a].ip
  BY DEF E!AddRule, ExposeInv, ExposePath, E!Rules
<1>2. /\ world' \in {world, world \cup {r}} /\ pc' = [pc EXCEPT ![a] = pc'[a]]
      /\ pc'[a] \in {"done", "failed"} /\ (pc'[a] = "done" => r \in world')
      /\ faults' \in 0..MaxFaults
  BY DEF E!AddRule, E!Call, E!Goto, E!Fault, ExposeInv, E!TypeOK, ExposeAssumption
<1>0. r = [name |-> a, ip |-> loc[a].ip]
  OBVIOUS
<1> HIDE DEF r
<1>3. /\ DOMAIN loc' = Ops
      /\ \A b \in Ops :
           /\ loc'[b] \in E!Locals /\ loc'[b].op = loc[b].op /\ loc'[b].ip = loc[b].ip
           /\ loc'[b].tries = loc[b].tries /\ loc'[b].swallowed = loc[b].swallowed
           /\ loc[b].crossed => loc'[b].crossed
           /\ b # a /\ pc[b] = "add" => loc'[b].crossed
  <2> DEFINE crossed(b) == [loc[b] EXCEPT !.crossed = @ \/ (b # a /\ pc[b] = "add")]
  <2>1. loc' = [b \in Ops |-> crossed(b)]
    BY DEF E!AddRule
  <2>2. \A b \in Ops :
           /\ crossed(b) \in E!Locals /\ crossed(b).op = loc[b].op /\ crossed(b).ip = loc[b].ip
           /\ crossed(b).tries = loc[b].tries /\ crossed(b).swallowed = loc[b].swallowed
           /\ crossed(b).crossed = (loc[b].crossed \/ (b # a /\ pc[b] = "add"))
    BY DEF ExposeInv, E!TypeOK, E!Locals
  <2> HIDE DEF crossed
  <2> QED
    BY <2>1, <2>2
<1>4. loc' \in [Ops -> E!Locals]
  <2>1. loc' = [b \in Ops |-> loc'[b]]
    BY DEF E!AddRule
  <2> QED
    BY <1>3, <2>1
<1>5. E!TypeOK'
  BY <1>1, <1>2, <1>4 DEF ExposeInv, E!TypeOK
<1>6. \A b \in Ops \ {a} : pc'[b] = pc[b]
  BY <1>2 DEF ExposeInv, E!TypeOK
<1>7. \A s \in world : s.name # a
  BY <1>1 DEF ExposeInv, OneRule
<1>8. \A b \in Ops : (ExposePath(b) /\ OneRule(b) /\ FreeAddress(b))'
  BY <1>1, <1>2, <1>3, <1>6 DEF ExposeInv, ExposePath, OneRule, FreeAddress
<1>9. E!RulesDiffer'
  <2>1. \A s \in world : s.ip = r.ip => loc'[a].crossed
    BY <1>1, <1>3 DEF ExposeInv, FreeAddress
  <2>2. \A s \in world : s.name \in Ops /\ (loc[s.name].crossed => loc'[s.name].crossed)
    BY <1>3 DEF ExposeInv, E!TypeOK, E!Rules
  <2> QED
    BY <1>1, <1>2, <1>7, <2>1, <2>2 DEF ExposeInv, E!RulesDiffer
<1>10. E!ExposureIsTrue'
  <2> SUFFICES ASSUME NEW b \in Ops, pc'[b] = "done"
               PROVE  IF loc'[b].op = "expose" THEN [name |-> b, ip |-> loc'[b].ip] \in world'
                      ELSE loc'[b].swallowed \/ \A s \in world' : s.name # b
    BY DEF E!ExposureIsTrue
  <2>1. CASE b = a
    BY <1>0, <1>1, <1>2, <1>3, <2>1
  <2>2. CASE b # a
    <3>1. IF loc[b].op = "expose" THEN [name |-> b, ip |-> loc[b].ip] \in world
          ELSE loc[b].swallowed \/ \A s \in world : s.name # b
      BY <1>6, <2>2 DEF ExposeInv, E!ExposureIsTrue
    <3> QED
      BY <1>1, <1>2, <1>3, <2>2, <3>1
  <2> QED
    BY <2>1, <2>2
<1> QED
  BY <1>5, <1>8, <1>9, <1>10 DEF ExposeInv

\* A cluster deletes no rule but its own.
LEMMA ExposeDeleteRuleStep ==
  ASSUME ExposeAssumption, ExposeInv, NEW a \in Ops, E!DeleteRule(a)
  PROVE  ExposeInv'
<1> DEFINE left == {r \in world : r.name # a}
           l == [loc[a] EXCEPT !.swallowed = TRUE]
<1>1. pc[a] = "delete" /\ pc' = [pc EXCEPT ![a] = "done"] /\ loc[a].op # "expose"
  BY DEF E!DeleteRule, E!Goto, ExposeInv, ExposePath
<1>2. /\ world' \in {world, left} /\ faults' \in 0..MaxFaults
      /\ (loc' = loc /\ world' = left) \/ loc' = [loc EXCEPT ![a] = l]
  BY DEF E!DeleteRule, E!Fault, E!Set, ExposeInv, E!TypeOK, ExposeAssumption
<1>3. l \in E!Locals /\ l = [loc[a] EXCEPT !.swallowed = TRUE] /\ l.swallowed
      /\ l.op = loc[a].op /\ l.crossed = loc[a].crossed /\ l.tries = loc[a].tries
  BY DEF ExposeInv, E!TypeOK, E!Locals
<1> HIDE DEF l
<1>4. E!TypeOK'
  BY <1>1, <1>2, <1>3 DEF ExposeInv, E!TypeOK
<1>5. \A b \in Ops \ {a} : pc'[b] = pc[b] /\ loc'[b] = loc[b]
  BY <1>1, <1>2 DEF ExposeInv, E!TypeOK
<1>6. /\ loc'[a].op = loc[a].op /\ loc'[a].crossed = loc[a].crossed /\ pc'[a] = "done"
      /\ loc'[a].tries = loc[a].tries /\ (world' = left \/ loc'[a].swallowed)
  BY <1>1, <1>2, <1>3 DEF ExposeInv, E!TypeOK
<1>7. \A b \in Ops : (ExposePath(b) /\ OneRule(b) /\ FreeAddress(b))'
  BY <1>1, <1>2, <1>5, <1>6 DEF ExposeInv, ExposePath, OneRule, FreeAddress
<1>8. E!RulesDiffer'
  <2>1. \A r \in world' : r \in world /\ r.name \in Ops /\ loc'[r.name].crossed = loc[r.name].crossed
    BY <1>2, <1>5, <1>6 DEF ExposeInv, E!TypeOK, E!Rules
  <2> QED
    BY <2>1 DEF ExposeInv, E!RulesDiffer
<1>9. E!ExposureIsTrue'
  <2>1. \A b \in Ops \ {a}, ip \in E!Addresses \cup {Absent} :
          [name |-> b, ip |-> ip] \in world => [name |-> b, ip |-> ip] \in world'
    BY <1>2
  <2> QED
    BY <1>1, <1>2, <1>5, <1>6, <2>1 DEF ExposeInv, E!ExposureIsTrue, E!TypeOK, E!Locals
<1> QED
  BY <1>4, <1>7, <1>8, <1>9 DEF ExposeInv

\* The other calls change no rule.
LEMMA ExposeGatewayStep ==
  ASSUME ExposeAssumption, ExposeInv, NEW a \in Ops, E!GetGateway(a) \/ E!GatewayBusy(a) \/ E!FindRule(a)
  PROVE  ExposeInv'
<1>1. CASE E!GetGateway(a) \/ E!FindRule(a)
  <2>1. /\ UNCHANGED <<world, loc>> /\ pc' = [pc EXCEPT ![a] = pc'[a]] /\ faults' \in 0..MaxFaults
        /\ pc[a] \in {"gateway", "find"} /\ (pc[a] = "find" => loc[a].op # "expose")
        /\ pc'[a] \in (IF loc[a].op = "expose" THEN {"lookup", "failed"}
                       ELSE {"find", "delete", "failed"})
    <3>1. /\ DOMAIN pc = Ops /\ faults \in 0..MaxFaults /\ MaxFaults \in Nat
          /\ pc[a] = "find" => loc[a].op # "expose"
      BY DEF ExposeInv, E!TypeOK, ExposePath, ExposeAssumption
    <3>2. CASE E!GetGateway(a)
      BY <3>1, <3>2 DEF E!GetGateway, E!Step, E!Goto
    <3>3. CASE E!FindRule(a)
      BY <3>1, <3>3 DEF E!FindRule, E!Query, E!Goto, E!Fault
    <3> QED
      BY <1>1, <3>2, <3>3
  <2>2. E!TypeOK' /\ ExposeFrame(a)
    BY <2>1 DEF ExposeInv, E!TypeOK, ExposeFrame
  <2>3. ExposePath(a)' /\ OneRule(a)' /\ FreeAddress(a)'
    BY <2>1 DEF ExposeInv, ExposePath, OneRule, FreeAddress
  <2> QED
    BY <2>1, <2>2, <2>3, ExposeSameRules
<1>2. CASE E!GatewayBusy(a)
  <2> DEFINE l == [loc[a] EXCEPT !.tries = @ + 1]
  <2>1. /\ world' = world /\ faults' = faults /\ loc' = [loc EXCEPT ![a] = l]
        /\ pc' = [pc EXCEPT ![a] = pc'[a]] /\ pc[a] = "add" /\ pc'[a] \in {"add", "failed"}
        /\ pc'[a] = "add" => loc[a].tries + 1 <= MaxRetries
    BY <1>2 DEF E!GatewayBusy, E!Set, E!Step, E!Goto, ExposeInv, E!TypeOK
  <2>2. l \in E!Locals /\ l.op = loc[a].op /\ l.ip = loc[a].ip /\ l.crossed = loc[a].crossed
        /\ l.tries = loc[a].tries + 1
    <3>1. loc[a] \in E!Locals /\ loc[a].tries \in 0..MaxRetries
      BY <2>1 DEF ExposeInv, E!TypeOK, E!Locals, ExposePath, ExposeAssumption
    <3>2. loc[a].tries + 1 \in 0..(MaxRetries + 1)
      BY <3>1 DEF ExposeAssumption
    <3> QED
      BY <3>1, <3>2 DEF E!Locals
  <2> HIDE DEF l
  <2>3. E!TypeOK' /\ ExposeFrame(a) /\ loc'[a] = l
    BY <2>1, <2>2 DEF ExposeInv, E!TypeOK, ExposeFrame
  <2>4. ExposePath(a)' /\ OneRule(a)' /\ FreeAddress(a)'
    BY <2>1, <2>2, <2>3 DEF ExposeInv, ExposePath, OneRule, FreeAddress
  <2> QED
    BY <2>1, <2>3, <2>4, ExposeSameRules
<1> QED
  BY <1>1, <1>2

\* Every step keeps the invariant.
LEMMA ExposeNextInv ==
  ASSUME ExposeAssumption, ExposeInv, [E!Next]_(E!procedureVars)
  PROVE  ExposeInv'
<1>1. CASE UNCHANGED E!procedureVars
  BY <1>1 DEF E!procedureVars, ExposeInv, E!TypeOK, ExposePath, OneRule, FreeAddress, E!RulesDiffer,
     E!ExposureIsTrue
<1>2. CASE E!Next
  <2>1. PICK a \in Ops : \/ E!GetGateway(a) \/ E!LookUp(a) \/ E!AddRule(a) \/ E!GatewayBusy(a)
                            \/ E!FindRule(a) \/ E!DeleteRule(a)
    BY <1>2 DEF E!Next
  <2> QED
    BY <2>1, ExposeLookUpStep, ExposeAddRuleStep, ExposeDeleteRuleStep, ExposeGatewayStep
<1> QED
  BY <1>1, <1>2

\* The invariant holds in every reachable state.
LEMMA ExposeInductive == E!Spec => []ExposeInv
<1>0. ExposeAssumption
  BY ThreadsAssumption, ResourcesAssumption DEF ExposeAssumption
<1>1. E!Init => ExposeInv
  BY <1>0, ExposeInitInv
<1>2. ExposeInv /\ [E!Next]_(E!procedureVars) => ExposeInv'
  BY <1>0, ExposeNextInv
<1> QED
  BY <1>1, <1>2, PTL DEF E!Spec

\* Type correctness.
THEOREM ExposeTypeCorrect == E!Spec => []E!TypeOK
<1>1. ExposeInv => E!TypeOK
  BY DEF ExposeInv
<1> QED
  BY <1>1, ExposeInductive, PTL

\* An exposure that succeeded has its rule; one that was taken back has none, unless the
\* failure of the DELETE was swallowed.
THEOREM ExposureIsTrueHolds == E!Spec => []E!ExposureIsTrue
<1>1. ExposeInv => E!ExposureIsTrue
  BY DEF ExposeInv
<1> QED
  BY <1>1, ExposeInductive, PTL

-----------------------------------------------------------------------------
(***************************************************************************)
(* OvdcPolicies, with any policies and VMs.                                *)
(***************************************************************************)
\* Enabling or disabling a runtime: what the policies of the VDC should become.
OvdcUpdate(a) == loc[a].kind \in {"enable", "disable"}
OvdcWanted(a) == IF loc[a].kind = "enable" THEN loc[a].before \cup {loc[a].named}
                 ELSE loc[a].before \ {loc[a].named}
OvdcHidden    == IF world.tkgPlus THEN {} ELSE {TkgPlus}

\* The runtimes of the list that was sent are those wanted, but for what is hidden.
OvdcListSent(a) ==
  loc[a].runtimes \ OvdcHidden = (OvdcWanted(a) \cap Placement) \ OvdcHidden

\* What is left to add and to delete makes the runtimes of the VDC those of the list.
OvdcAdding(a) ==
  /\ V!ListedOn(world.vdc) \cup loc[a].add = loc[a].runtimes \cup loc[a].del
  /\ loc[a].add \subseteq loc[a].runtimes /\ loc[a].del \cap loc[a].runtimes = {}
OvdcDeleting(a) ==
  /\ loc[a].policy \in Placement \ (loc[a].runtimes \cup loc[a].del) /\ loc[a].add = {}
  /\ V!ListedOn(world.vdc) = loc[a].runtimes \cup loc[a].del \cup {loc[a].policy}
  /\ loc[a].del \cap loc[a].runtimes = {}

OvdcProgress(a) ==
  /\ pc[a] \notin {"get", "failed"} => OvdcListSent(a)
  /\ pc[a] \in {"task", "check", "diff"} => world.vdc = loc[a].before
  /\ pc[a] \notin {"get", "failed"} => world.vdc \ Placement = loc[a].before \ Placement
  /\ pc[a] = "add placement" => OvdcAdding(a)
  /\ pc[a] \in {"find VMs", "VMs", "remove policy"} => OvdcDeleting(a)
  /\ pc[a] \in {"succeed", "done"} => V!ListedOn(world.vdc) = loc[a].runtimes

OvdcPath(a) ==
  /\ pc[a] \in {"get", "task", "check", "diff"} => OvdcUpdate(a)
  /\ OvdcUpdate(a) =>
       /\ loc[a].named \in Placement
       /\ pc[a] \in {"get", "task", "check", "diff", "add placement", "find VMs", "VMs",
                     "remove policy", "succeed", "error", "done", "failed"}

OvdcInv ==
  /\ V!TypeOK
  /\ \A a \in Ops : OvdcPath(a) /\ (OvdcUpdate(a) /\ ~loc[a].crossed => OvdcProgress(a))
  /\ V!VmsKeepPolicy

-----------------------------------------------------------------------------
OvdcWorlds == [tkgPlus : BOOLEAN, vdc : SUBSET (Placement \cup Sizing),
               vms : [VMs -> V!VmPolicies], task : [Ops -> V!TaskStatuses]]

\* What a step of a leaves to the others: they have not read the VDC, or it stays as it
\* was, or they are crossed.
OvdcFrame(a) ==
  \A b \in Ops \ {a} :
    /\ pc'[b] = pc[b] /\ loc'[b].kind = loc[b].kind /\ loc'[b].named = loc[b].named
    /\ \/ pc[b] = "get"
       \/ loc'[b].crossed
       \/ loc'[b] = loc[b] /\ world'.vdc = world.vdc

\* A call that makes the world w is answered, or fails, and may be carried out even so.
OvdcAnswered(a, w, next, raised) ==
  /\ DOMAIN pc' = Ops /\ pc'[a] \in {next, raised} /\ faults' \in 0..MaxFaults
  /\ \A b \in Ops \ {a} : pc'[b] = pc[b]
  /\ world' \in OvdcWorlds /\ world' \in {world, w}
  /\ pc'[a] # raised => world' = w

LEMMA OvdcCalls ==
  ASSUME V!TypeOK, NEW a \in Ops, NEW w \in OvdcWorlds, NEW next, NEW raised,
         V!Call(a, w, next, raised) \/ V!Request(a, w, next, raised)
  PROVE  OvdcAnswered(a, w, next, raised)
BY ThreadsAssumption DEF OvdcAnswered, V!TypeOK, V!Call, V!Request, V!Step, V!Goto, V!Fault, OvdcWorlds

\* A step without a call, or with one that cannot fail.
LEMMA OvdcSteps ==
  ASSUME V!TypeOK, NEW a \in Ops, NEW next, V!Step(a, next)
  PROVE  /\ DOMAIN pc' = Ops /\ pc'[a] = next /\ faults' \in 0..MaxFaults
         /\ \A b \in Ops \ {a} : pc'[b] = pc[b]
         /\ world' = world
BY ThreadsAssumption DEF V!TypeOK, V!Step, V!Goto

LEMMA OvdcQueries ==
  ASSUME V!TypeOK, NEW a \in Ops, NEW next, NEW raised, V!Query(a, next, raised)
  PROVE  /\ DOMAIN pc' = Ops /\ pc'[a] \in {next, raised} /\ faults' \in 0..MaxFaults
         /\ \A b \in Ops \ {a} : pc'[b] = pc[b]
         /\ world' = world
BY ThreadsAssumption DEF V!TypeOK, V!Query, V!Goto, V!Fault

\* What a step of a must show to keep the invariant.
LEMMA OvdcKept ==
  ASSUME OvdcInv, NEW a \in Ops, OvdcFrame(a),
         DOMAIN pc' = Ops, faults' \in 0..MaxFaults, world' \in OvdcWorlds,
         world'.tkgPlus = world.tkgPlus, loc' \in [Ops -> V!Locals],
         OvdcPath(a)', OvdcUpdate(a)' /\ ~loc'[a].crossed => OvdcProgress(a)',
         V!VmsKeepPolicy'
  PROVE  OvdcInv'
<1>1. V!TypeOK'
  BY DEF V!TypeOK, OvdcWorlds
<1>2. ASSUME NEW b \in Ops, b # a
      PROVE  OvdcPath(b)'
  BY <1>2 DEF OvdcInv, OvdcFrame, OvdcPath, OvdcUpdate
<1>3. ASSUME NEW b \in Ops, b # a, OvdcUpdate(b)', ~loc'[b].crossed
      PROVE  OvdcProgress(b)'
  <2>1. CASE pc[b] = "get"
    BY <1>3, <2>1 DEF OvdcFrame, OvdcProgress
  <2>2. CASE loc'[b] = loc[b] /\ world'.vdc = world.vdc
    <3>1. pc'[b] = pc[b] /\ OvdcProgress(b)
      BY <1>3, <2>2 DEF OvdcInv, OvdcFrame, OvdcUpdate
    <3> QED
      BY <2>2, <3>1 DEF OvdcProgress, OvdcListSent, OvdcWanted, OvdcHidden, OvdcAdding,
         OvdcDeleting, V!ListedOn
  <2> QED
    BY <1>3, <2>1, <2>2 DEF OvdcFrame
<1> QED
  BY <1>1, <1>2, <1>3 DEF OvdcInv

-----------------------------------------------------------------------------
\* A VM that keeps its policies keeps one, as long as the VDC keeps them.
LEMMA OvdcVmsSame ==
  ASSUME V!VmsKeepPolicy, world'.vms = world.vms, world.vdc \subseteq world'.vdc
  PROVE  V!VmsKeepPolicy'
BY DEF V!VmsKeepPolicy

\* The parts of the world that a call changes.
LEMMA OvdcWorldParts ==
  ASSUME V!TypeOK
  PROVE  /\ world \in OvdcWorlds
         /\ \A a \in Ops, s \in V!TaskStatuses :
              LET w == V!SetTask(a, s)
              IN  w \in OvdcWorlds /\ w.tkgPlus = world.tkgPlus /\ w.vdc = world.vdc
                  /\ w.vms = world.vms
         /\ \A vdc \in SUBSET (Placement \cup Sizing) :
              LET w == [world EXCEPT !.vdc = vdc]
              IN  w \in OvdcWorlds /\ w.tkgPlus = world.tkgPlus /\ w.vdc = vdc
                  /\ w.vms = world.vms
<1>1. world \in OvdcWorlds
  BY DEF V!TypeOK, OvdcWorlds
<1>2. ASSUME NEW a \in Ops, NEW s \in V!TaskStatuses
      PROVE  LET w == V!SetTask(a, s)
             IN  w \in OvdcWorlds /\ w.tkgPlus = world.tkgPlus /\ w.vdc = world.vdc
                 /\ w.vms = world.vms
  <2> DEFINE t == [world.task EXCEPT ![a] = s]
  <2>1. t \in [Ops -> V!TaskStatuses] /\ V!SetTask(a, s) = [world EXCEPT !.task = t]
    BY <1>1 DEF OvdcWorlds, V!SetTask
  <2> HIDE DEF t
  <2> QED
    BY <1>1, <2>1 DEF OvdcWorlds
<1>3. ASSUME NEW vdc \in SUBSET (Placement \cup Sizing)
      PROVE  LET w == [world EXCEPT !.vdc = vdc]
             IN  w \in OvdcWorlds /\ w.tkgPlus = world.tkgPlus /\ w.vdc = vdc
                 /\ w.vms = world.vms
  BY <1>1, <1>3 DEF OvdcWorlds
<1> QED
  BY <1>1, <1>2, <1>3

\* A call that leaves the VDC and its VMs alone keeps the invariant, if it keeps what is
\* known of the request itself.
LEMMA OvdcQuiet ==
  ASSUME OvdcInv, NEW a \in Ops, NEW l \in V!Locals, loc' = [loc EXCEPT ![a] = l],
         DOMAIN pc' = Ops, \A b \in Ops \ {a} : pc'[b] = pc[b],
         faults' \in 0..MaxFaults, world' \in OvdcWorlds,
         world'.tkgPlus = world.tkgPlus, world'.vdc = world.vdc, world'.vms = world.vms,
         OvdcPath(a)', OvdcUpdate(a)' /\ ~l.crossed => OvdcProgress(a)'
  PROVE  OvdcInv'
<1>1. loc'[a] = l /\ loc' \in [Ops -> V!Locals] /\ \A b \in Ops \ {a} : loc'[b] = loc[b]
  BY DEF OvdcInv, V!TypeOK
<1>2. OvdcFrame(a)
  BY <1>1 DEF OvdcFrame
<1>3. V!VmsKeepPolicy'
  BY OvdcVmsSame DEF OvdcInv
<1> QED
  BY <1>1, <1>2, <1>3, OvdcKept

\* The list that was sent stays what was wanted.
LEMMA OvdcSent ==
  ASSUME NEW a, world'.tkgPlus = world.tkgPlus, loc'[a].runtimes = loc[a].runtimes,
         loc'[a].kind = loc[a].kind, loc'[a].named = loc[a].named,
         loc'[a].before = loc[a].before
  PROVE  OvdcListSent(a)' = OvdcListSent(a)
BY DEF OvdcListSent, OvdcWanted, OvdcHidden

LEMMA OvdcClientUpdate ==
  ASSUME OvdcInv, NEW a \in Ops, V!ClientUpdate(a)
  PROVE  OvdcInv'
<1> DEFINE enable == loc[a].kind = "enable"
           runtimes == IF enable THEN V!get_ovdc \cup {loc[a].named} ELSE V!get_ovdc \ {loc[a].named}
           l == [loc[a] EXCEPT !.before = world.vdc, !.runtimes = runtimes]
           next == IF enable = (loc[a].named \in V!get_ovdc) THEN "failed" ELSE "task"
<1>1. /\ loc[a] \in V!Locals /\ world \in OvdcWorlds /\ pc[a] = "get" /\ OvdcPath(a) /\ V!TypeOK
      /\ V!Query(a, next, "failed") /\ loc' = [loc EXCEPT ![a] = l]
  BY DEF OvdcInv, V!TypeOK, OvdcWorlds, V!ClientUpdate, V!Set
<1>2. runtimes \in SUBSET Placement
  BY <1>1 DEF V!get_ovdc, V!ListedOn, OvdcPath
<1>3. /\ l \in V!Locals /\ l.before = world.vdc /\ l.runtimes = runtimes
      /\ l.kind = loc[a].kind /\ l.named = loc[a].named
  BY <1>1, <1>2 DEF V!Locals, OvdcWorlds
<1>4. /\ DOMAIN pc' = Ops /\ pc'[a] \in {"task", "failed"} /\ faults' \in 0..MaxFaults
      /\ \A b \in Ops \ {a} : pc'[b] = pc[b]
      /\ world' = world
  BY <1>1, OvdcQueries
<1> HIDE DEF l, next
<1>5. loc'[a] = l
  BY <1>1, <1>3 DEF V!TypeOK
<1>6. OvdcPath(a)'
  BY <1>1, <1>3, <1>4, <1>5 DEF OvdcPath, OvdcUpdate
<1>7. OvdcListSent(a)'
  BY <1>1, <1>3, <1>4, <1>5 DEF OvdcListSent, OvdcWanted, OvdcHidden, V!get_ovdc, V!ListedOn,
     OvdcPath, OvdcUpdate
<1>8. OvdcProgress(a)'
  BY <1>3, <1>4, <1>5, <1>7 DEF OvdcProgress
<1> QED
  BY <1>1, <1>3, <1>4, <1>6, <1>8, OvdcQuiet

\* The calls that a task is made and ended with, and the refusal of TKG+.
LEMMA OvdcTaskStep ==
  ASSUME OvdcInv, NEW a \in Ops,
         \/ V!CreateTask(a) \/ V!CheckTkgPlus(a) \/ V!Succeed(a) \/ V!Fail(a) \/ V!RemoveSizing(a)
  PROVE  OvdcInv'
<1>1. loc[a] \in V!Locals /\ world \in OvdcWorlds /\ V!TypeOK
  BY DEF OvdcInv, V!TypeOK, OvdcWorlds
<1>2. PICK w, next, raised :
        /\ w \in OvdcWorlds
        /\ w.tkgPlus = world.tkgPlus /\ w.vdc = world.vdc /\ w.vms = world.vms
        /\ \/ V!Call(a, w, next, raised) \/ V!Request(a, w, next, raised)
           \/ w = world /\ V!Step(a, next)
        /\ \/ pc[a] = "task" /\ next = "check" /\ raised = "failed"
           \/ pc[a] = "check" /\ next \in {"diff", "failed"} /\ raised = "failed"
           \/ pc[a] = "succeed" /\ next = "done" /\ raised = "error"
           \/ pc[a] = "error" /\ next = "failed" /\ raised = "failed"
           \/ pc[a] = "remove" /\ next = "thread" /\ raised = "failed"
        /\ loc' = loc
  <2>1. \A s \in {"RUNNING", "SUCCESS", "ERROR"} :
          /\ V!SetTask(a, s) \in OvdcWorlds /\ V!SetTask(a, s).tkgPlus = world.tkgPlus
          /\ V!SetTask(a, s).vdc = world.vdc /\ V!SetTask(a, s).vms = world.vms
    BY <1>1, OvdcWorldParts DEF V!TaskStatuses
  <2> QED
    BY <1>1, <2>1 DEF V!CreateTask, V!CheckTkgPlus, V!Succeed, V!Fail, V!RemoveSizing
<1>3. /\ DOMAIN pc' = Ops /\ pc'[a] \in {next, raised} /\ faults' \in 0..MaxFaults
      /\ \A b \in Ops \ {a} : pc'[b] = pc[b]
      /\ world' \in OvdcWorlds /\ world' \in {world, w}
  <2>1. CASE w = world /\ V!Step(a, next)
    BY <1>1, <2>1, OvdcSteps
  <2>2. CASE V!Call(a, w, next, raised) \/ V!Request(a, w, next, raised)
    <3>1. w \in OvdcWorlds
      BY <1>2
    <3> QED
      BY <1>1, <2>2, <3>1, OvdcCalls DEF OvdcAnswered
  <2> QED
    BY <1>2, <2>1, <2>2
<1>4. /\ world'.tkgPlus = world.tkgPlus /\ world'.vdc = world.vdc /\ world'.vms = world.vms
      /\ loc' = [loc EXCEPT ![a] = loc[a]]
  BY <1>1, <1>2, <1>3 DEF V!TypeOK
<1>5. OvdcPath(a)'
  BY <1>2, <1>3 DEF OvdcInv, OvdcPath, OvdcUpdate
<1>6. ASSUME OvdcUpdate(a), ~loc[a].crossed
      PROVE  OvdcProgress(a)'
  <2>1. OvdcProgress(a) /\ OvdcPath(a)
    BY <1>6 DEF OvdcInv
  <2>2. OvdcListSent(a)' = OvdcListSent(a)
    BY <1>2, <1>4, OvdcSent
  <2>3. pc[a] \in {"task", "check", "succeed", "error"}
    BY <1>2, <1>6, <2>1 DEF OvdcPath
  <2> QED
    BY <1>2, <1>3, <1>4, <2>1, <2>2, <2>3 DEF OvdcProgress, V!ListedOn
<1>7. OvdcUpdate(a)' = OvdcUpdate(a)
  BY <1>2 DEF OvdcUpdate
<1> QED
  BY <1>1, <1>3, <1>4, <1>5, <1>6, <1>7, OvdcQuiet

\* The comparison of the list with the runtimes of the VDC.
LEMMA OvdcDiff ==
  ASSUME OvdcInv, NEW a \in Ops, V!Diff(a)
  PROVE  OvdcInv'
<1> DEFINE existing == V!ListedOn(world.vdc)
           l == [loc[a] EXCEPT !.add = loc[a].runtimes \ existing,
                               !.del = existing \ loc[a].runtimes]
<1>1. /\ loc[a] \in V!Locals /\ world \in OvdcWorlds /\ pc[a] = "diff" /\ OvdcPath(a) /\ V!TypeOK
      /\ V!Query(a, "add placement", "error") /\ loc' = [loc EXCEPT ![a] = l]
  BY DEF OvdcInv, V!TypeOK, OvdcWorlds, V!Diff, V!Set
<1>2. /\ l \in V!Locals /\ l.add = loc[a].runtimes \ existing /\ l.del = existing \ loc[a].runtimes
      /\ l.kind = loc[a].kind /\ l.named = loc[a].named /\ l.before = loc[a].before
      /\ l.runtimes = loc[a].runtimes /\ l.crossed = loc[a].crossed
  BY <1>1 DEF V!Locals, V!ListedOn
<1>3. /\ DOMAIN pc' = Ops /\ pc'[a] \in {"add placement", "error"} /\ faults' \in 0..MaxFaults
      /\ \A b \in Ops \ {a} : pc'[b] = pc[b]
      /\ world' = world
  BY <1>1, OvdcQueries
<1> HIDE DEF l
<1>4. loc'[a] = l
  BY <1>1, <1>2 DEF V!TypeOK
<1>5. OvdcPath(a)'
  BY <1>1, <1>2, <1>3, <1>4 DEF OvdcPath, OvdcUpdate
<1>6. ASSUME ~l.crossed
      PROVE  OvdcProgress(a)'
  <2>1. OvdcProgress(a)
    BY <1>1, <1>2, <1>6 DEF OvdcInv, OvdcPath
  <2>2. OvdcListSent(a)' = OvdcListSent(a)
    BY <1>2, <1>3, <1>4, OvdcSent
  <2>3. OvdcAdding(a)'
    BY <1>2, <1>3, <1>4 DEF OvdcAdding
  <2> QED
    BY <1>1, <1>2, <1>3, <1>4, <2>1, <2>2, <2>3 DEF OvdcProgress
<1> QED
  BY <1>1, <1>2, <1>3, <1>5, <1>6, OvdcQuiet

\* The end of the additions, and the choice of what is deleted next.
LEMMA OvdcDeleteNext ==
  ASSUME OvdcInv, NEW a \in Ops, V!DeleteNext(a)
  PROVE  OvdcInv'
<1>1. /\ loc[a] \in V!Locals /\ world \in OvdcWorlds /\ pc[a] = "add placement" /\ OvdcPath(a)
      /\ V!TypeOK /\ loc[a].add = {}
  BY DEF OvdcInv, V!TypeOK, OvdcWorlds, V!DeleteNext
<1>2. OvdcUpdate(a) /\ ~loc[a].crossed => OvdcListSent(a) /\ OvdcAdding(a)
        /\ world.vdc \ Placement = loc[a].before \ Placement
  BY <1>1 DEF OvdcInv, OvdcProgress
<1>3. CASE loc[a].del = {} /\ V!Step(a, "succeed") /\ loc' = loc
  <2>1. /\ DOMAIN pc' = Ops /\ pc'[a] = "succeed" /\ faults' \in 0..MaxFaults
        /\ \A b \in Ops \ {a} : pc'[b] = pc[b]
        /\ world' = world
    BY <1>1, <1>3, OvdcSteps
  <2>2. loc' = [loc EXCEPT ![a] = loc[a]]
    BY <1>3 DEF OvdcInv, V!TypeOK
  <2>3. OvdcPath(a)'
    BY <1>1, <1>3, <2>1 DEF OvdcPath, OvdcUpdate
  <2>4. ASSUME OvdcUpdate(a), ~loc[a].crossed
        PROVE  OvdcProgress(a)'
    <3>1. OvdcListSent(a)' = OvdcListSent(a)
      BY <1>3, <2>1, OvdcSent
    <3>2. V!ListedOn(world.vdc) = loc[a].runtimes
      BY <1>1, <1>2, <1>3, <2>4 DEF OvdcAdding
    <3> QED
      BY <1>2, <1>3, <2>1, <2>4, <3>1, <3>2 DEF OvdcProgress
  <2>5. OvdcUpdate(a)' = OvdcUpdate(a)
    BY <1>3 DEF OvdcUpdate
  <2> QED
    BY <1>1, <2>1, <2>2, <2>3, <2>4, <2>5, OvdcQuiet
<1>4. ASSUME NEW p \in loc[a].del,
             V!Set(a, [loc[a] EXCEPT !.policy = p, !.del = @ \ {p}]),
             V!Step(a, IF loc[a].force THEN "find VMs" ELSE "remove policy")
      PROVE  OvdcInv'
  <2> DEFINE l == [loc[a] EXCEPT !.policy = p, !.del = @ \ {p}]
             next == IF loc[a].force THEN "find VMs" ELSE "remove policy"
  <2>1. p \in Placement /\ loc' = [loc EXCEPT ![a] = l] /\ V!Step(a, next)
    BY <1>1, <1>4 DEF V!Locals, V!Set
  <2>2. /\ l \in V!Locals /\ l.policy = p /\ l.del = loc[a].del \ {p} /\ l.add = {}
        /\ l.kind = loc[a].kind /\ l.named = loc[a].named /\ l.before = loc[a].before
        /\ l.runtimes = loc[a].runtimes /\ l.crossed = loc[a].crossed
    BY <1>1, <2>1 DEF V!Locals
  <2>3. /\ DOMAIN pc' = Ops /\ pc'[a] \in {"find VMs", "remove policy"}
        /\ faults' \in 0..MaxFaults
        /\ \A b \in Ops \ {a} : pc'[b] = pc[b]
        /\ world' = world
    <3>1. next \in {"find VMs", "remove policy"}
      OBVIOUS
    <3> HIDE DEF next
    <3> QED
      BY <1>1, <2>1, <3>1, OvdcSteps
  <2> HIDE DEF l, next
  <2>4. loc'[a] = l
    BY <1>1, <2>1, <2>2 DEF V!TypeOK
  <2>5. OvdcPath(a)'
    BY <1>1, <2>2, <2>3, <2>4 DEF OvdcPath, OvdcUpdate
  <2>6. ASSUME OvdcUpdate(a)', ~l.crossed
        PROVE  OvdcProgress(a)'
    <3>1. OvdcUpdate(a)
      BY <2>2, <2>4, <2>6 DEF OvdcUpdate
    <3>2. OvdcListSent(a)' = OvdcListSent(a)
      BY <2>2, <2>3, <2>4, OvdcSent
    <3>3. OvdcAdding(a)
      BY <1>2, <2>2, <2>6, <3>1
    <3>4. /\ p \in Placement \ (l.runtimes \cup l.del) /\ l.del \cap l.runtimes = {}
          /\ V!ListedOn(world.vdc) = l.runtimes \cup l.del \cup {p}
      BY <1>1, <2>1, <2>2, <3>3 DEF OvdcAdding
    <3>5. OvdcDeleting(a)'
      BY <2>2, <2>3, <2>4, <3>4 DEF OvdcDeleting, V!ListedOn
    <3> QED
      BY <1>2, <2>2, <2>3, <2>4, <2>6, <3>1, <3>2, <3>5 DEF OvdcProgress
  <2> QED
    BY <1>1, <2>1, <2>2, <2>3, <2>5, <2>6, OvdcQuiet
<1> QED
  BY <1>3, <1>4 DEF V!DeleteNext

\* The look at the VMs with the policy, and its end.
LEMMA OvdcVmsLooked ==
  ASSUME OvdcInv, NEW a \in Ops, V!FindVms(a) \/ V!NoVmLeft(a)
  PROVE  OvdcInv'
<1>1. loc[a] \in V!Locals /\ world \in OvdcWorlds /\ V!TypeOK
  BY DEF OvdcInv, V!TypeOK, OvdcWorlds
<1>2. PICK targets \in SUBSET VMs :
        /\ loc' = [loc EXCEPT ![a] = [loc[a] EXCEPT !.targets = targets]]
        /\ \/ pc[a] = "find VMs" /\ V!Query(a, "VMs", "error")
           \/ pc[a] = "VMs" /\ V!Step(a, "remove policy")
  <2>1. CASE V!FindVms(a)
    BY <1>1, <2>1 DEF V!FindVms, V!Set
  <2>2. CASE V!NoVmLeft(a)
    <3>1. loc[a].targets \in SUBSET VMs /\ loc[a] = [loc[a] EXCEPT !.targets = loc[a].targets]
      BY <1>1 DEF V!Locals
    <3> QED
      BY <1>1, <2>2, <3>1 DEF V!NoVmLeft, V!TypeOK
  <2> QED
    BY <2>1, <2>2
<1> DEFINE l == [loc[a] EXCEPT !.targets = targets]
<1>3. /\ l \in V!Locals /\ l.policy = loc[a].policy /\ l.del = loc[a].del /\ l.add = loc[a].add
      /\ l.kind = loc[a].kind /\ l.named = loc[a].named /\ l.before = loc[a].before
      /\ l.runtimes = loc[a].runtimes /\ l.crossed = loc[a].crossed
  BY <1>1 DEF V!Locals
<1>4. loc' = [loc EXCEPT ![a] = l]
  BY <1>2
<1> HIDE DEF l
<1>5. /\ DOMAIN pc' = Ops /\ pc'[a] \in {"VMs", "remove policy", "error"}
      /\ faults' \in 0..MaxFaults
      /\ \A b \in Ops \ {a} : pc'[b] = pc[b]
      /\ world' = world
  <2>1. CASE V!Query(a, "VMs", "error")
    BY <1>1, <2>1, OvdcQueries
  <2>2. CASE V!Step(a, "remove policy")
    BY <1>1, <2>2, OvdcSteps
  <2> QED
    BY <1>2, <2>1, <2>2
<1>6. loc'[a] = l
  BY <1>1, <1>3, <1>4 DEF V!TypeOK
<1>7. OvdcPath(a)'
  BY <1>2, <1>3, <1>5, <1>6 DEF OvdcPath, OvdcUpdate, OvdcInv
<1>8. ASSUME OvdcUpdate(a)', ~l.crossed
      PROVE  OvdcProgress(a)'
  <2>1. OvdcProgress(a)
    BY <1>3, <1>6, <1>8 DEF OvdcInv, OvdcUpdate
  <2>2. OvdcListSent(a)' = OvdcListSent(a)
    BY <1>3, <1>5, <1>6, OvdcSent
  <2>3. OvdcDeleting(a)' = OvdcDeleting(a)
    BY <1>3, <1>5, <1>6 DEF OvdcDeleting
  <2> QED
    BY <1>2, <1>3, <1>5, <1>6, <2>1, <2>2, <2>3 DEF OvdcProgress
<1> QED
  BY <1>1, <1>3, <1>4, <1>5, <1>7, <1>8, OvdcQuiet

\* The thread that removes a sizing policy, and the one that ends its session.
LEMMA OvdcRemovalStep ==
  ASSUME OvdcInv, NEW a \in Ops, V!StartRemoval(a) \/ V!FollowFails(a)
  PROVE  OvdcInv'
<1>1. loc[a] \in V!Locals /\ world \in OvdcWorlds /\ V!TypeOK /\ OvdcPath(a)
  BY DEF OvdcInv, V!TypeOK, OvdcWorlds
<1>2. ~OvdcUpdate(a)
  BY <1>1 DEF V!StartRemoval, V!FollowFails, OvdcPath, OvdcUpdate
<1>3. PICK l \in V!Locals :
        /\ loc' = [loc EXCEPT ![a] = l] /\ l.kind = loc[a].kind /\ l.named = loc[a].named
  <2>1. CASE V!StartRemoval(a)
    <3> DEFINE l == [loc[a] EXCEPT !.policy = loc[a].named]
    <3>1. l \in V!Locals /\ l.kind = loc[a].kind /\ l.named = loc[a].named
      BY <1>1 DEF V!Locals
    <3> QED
      BY <2>1, <3>1 DEF V!StartRemoval, V!Set
  <2>2. CASE V!FollowFails(a)
    <3> DEFINE l == [loc[a] EXCEPT !.session = FALSE]
    <3>1. l \in V!Locals /\ l.kind = loc[a].kind /\ l.named = loc[a].named
      BY <1>1 DEF V!Locals
    <3> QED
      BY <2>2, <3>1 DEF V!FollowFails, V!Set
  <2> QED
    BY <2>1, <2>2
<1>4. /\ DOMAIN pc' = Ops /\ faults' \in 0..MaxFaults /\ world' = world
      /\ \A b \in Ops \ {a} : pc'[b] = pc[b]
      /\ pc'[a] \in {pc[a], "find VMs", "remove policy", "failed"}
  <2>1. CASE V!StartRemoval(a)
    <3> DEFINE next == IF loc[a].force THEN "find VMs" ELSE "remove policy"
    <3>1. next \in {"find VMs", "remove policy"} /\ V!Query(a, next, "failed")
      BY <2>1 DEF V!StartRemoval
    <3> HIDE DEF next
    <3> QED
      BY <1>1, <3>1, OvdcQueries
  <2>2. CASE V!FollowFails(a)
    BY <1>1, <2>2, ThreadsAssumption DEF V!FollowFails, V!Fault, V!TypeOK
  <2> QED
    BY <2>1, <2>2
<1>5. loc'[a] = l
  BY <1>1, <1>3 DEF V!TypeOK
<1>6. OvdcPath(a)' /\ ~OvdcUpdate(a)'
  BY <1>1, <1>2, <1>3, <1>4, <1>5 DEF OvdcPath, OvdcUpdate
<1> QED
  BY <1>1, <1>3, <1>4, <1>6, OvdcQuiet

\* A forced removal takes the policy from a VM, which is left with another one.
LEMMA OvdcTakeFromVm ==
  ASSUME OvdcInv, NEW a \in Ops, V!TakeFromVm(a)
  PROVE  OvdcInv'
<1>1. /\ loc[a] \in V!Locals /\ world \in OvdcWorlds /\ V!TypeOK /\ V!VmsKeepPolicy /\ OvdcPath(a)
      /\ pc[a] = "VMs"
  BY DEF OvdcInv, V!TypeOK, OvdcWorlds, V!TakeFromVm
<1>2. PICK v \in VMs : V!SetDefault(a, v) \/ V!RemovePlacement(a, v)
  BY <1>1 DEF V!TakeFromVm, V!Locals
<1>3. PICK policies \in V!VmPolicies, targets \in SUBSET VMs :
        /\ V!Request(a, [world EXCEPT !.vms[v] = policies], "VMs", "error")
        /\ loc' = [loc EXCEPT ![a] = [loc[a] EXCEPT !.targets = targets]]
        /\ \/ policies = [world.vms[v] EXCEPT !.sizing = V!SystemDefault]
           \/ policies = [world.vms[v] EXCEPT !.placement = Absent] /\ world.vms[v].sizing # Absent
  <2>1. world.vms \in [VMs -> V!VmPolicies] /\ loc[a].targets \in SUBSET VMs
    BY <1>1 DEF OvdcWorlds, V!Locals
  <2>2. CASE V!SetDefault(a, v)
    <3> DEFINE p == [world.vms[v] EXCEPT !.sizing = V!SystemDefault]
               t == IF loc[a].policy \in Sizing THEN loc[a].targets \ {v} ELSE loc[a].targets
    <3>1. p \in V!VmPolicies /\ t \in SUBSET VMs
      BY <2>1 DEF V!VmPolicies
    <3>2. V!Request(a, [world EXCEPT !.vms[v] = p], "VMs", "error")
      BY <2>2 DEF V!SetDefault
    <3>3. loc' = [loc EXCEPT ![a] = [loc[a] EXCEPT !.targets = t]]
      BY <2>2 DEF V!SetDefault, V!Set
    <3> QED
      BY <3>1, <3>2, <3>3
  <2>3. CASE V!RemovePlacement(a, v)
    <3> DEFINE p == [world.vms[v] EXCEPT !.placement = Absent]
               t == loc[a].targets \ {v}
    <3>1. p \in V!VmPolicies /\ t \in SUBSET VMs
      BY <2>1 DEF V!VmPolicies
    <3>2. V!Request(a, [world EXCEPT !.vms[v] = p], "VMs", "error") /\ world.vms[v].sizing # Absent
      BY <2>3 DEF V!RemovePlacement
    <3>3. loc' = [loc EXCEPT ![a] = [loc[a] EXCEPT !.targets = t]]
      BY <2>3 DEF V!RemovePlacement, V!Set
    <3> QED
      BY <3>1, <3>2, <3>3
  <2> QED
    BY <1>2, <2>2, <2>3
<1> DEFINE vms == [world.vms EXCEPT ![v] = policies]
           w == [world EXCEPT !.vms = vms]
           l == [loc[a] EXCEPT !.targets = targets]
<1>4. vms \in [VMs -> V!VmPolicies] /\ vms[v] = policies
        /\ \A u \in VMs \ {v} : vms[u] = world.vms[u]
  BY <1>1 DEF OvdcWorlds
<1>5. V!Request(a, w, "VMs", "error") /\ loc' = [loc EXCEPT ![a] = l]
  BY <1>3
<1> HIDE DEF vms
<1>6. /\ w \in OvdcWorlds /\ w.vms = vms /\ w.vdc = world.vdc /\ w.tkgPlus = world.tkgPlus
  BY <1>1, <1>4 DEF OvdcWorlds
<1>7. /\ l \in V!Locals /\ l.policy = loc[a].policy /\ l.del = loc[a].del /\ l.add = loc[a].add
      /\ l.kind = loc[a].kind /\ l.named = loc[a].named /\ l.before = loc[a].before
      /\ l.runtimes = loc[a].runtimes /\ l.crossed = loc[a].crossed
  BY <1>1 DEF V!Locals
<1> HIDE DEF w, l
<1>8. /\ DOMAIN pc' = Ops /\ pc'[a] \in {"VMs", "error"} /\ faults' \in 0..MaxFaults
      /\ \A b \in Ops \ {a} : pc'[b] = pc[b]
      /\ world' \in OvdcWorlds /\ world' \in {world, w}
  BY <1>1, <1>5, <1>6, OvdcCalls DEF OvdcAnswered
<1>9. world'.vdc = world.vdc /\ world'.tkgPlus = world.tkgPlus /\ world'.vms \in {world.vms, vms}
  BY <1>6, <1>8
<1>10. /\ loc'[a] = l /\ loc' \in [Ops -> V!Locals] /\ \A b \in Ops \ {a} : loc'[b] = loc[b]
  BY <1>1, <1>5, <1>7 DEF V!TypeOK
<1>11. OvdcFrame(a)
  BY <1>8, <1>9, <1>10 DEF OvdcFrame
<1>12. OvdcPath(a)'
  BY <1>1, <1>7, <1>8, <1>10 DEF OvdcPath, OvdcUpdate
<1>13. ASSUME OvdcUpdate(a)', ~l.crossed
       PROVE  OvdcProgress(a)'
  <2>1. OvdcProgress(a)
    BY <1>7, <1>10, <1>13 DEF OvdcInv, OvdcUpdate
  <2>2. OvdcListSent(a)' = OvdcListSent(a)
    BY <1>7, <1>9, <1>10, OvdcSent
  <2>3. OvdcDeleting(a)' = OvdcDeleting(a)
    BY <1>7, <1>9, <1>10 DEF OvdcDeleting, V!ListedOn
  <2> QED
    BY <1>1, <1>7, <1>8, <1>9, <1>10, <2>1, <2>2, <2>3 DEF OvdcProgress
<1>14. V!VmsKeepPolicy'
  <2> SUFFICES ASSUME NEW u \in VMs
               PROVE  LET policies_ == {world'.vms[u].placement, world'.vms[u].sizing}
                      IN  policies_ # {Absent}
                          /\ policies_ \subseteq world'.vdc \cup {V!SystemDefault, Absent}
    BY DEF V!VmsKeepPolicy
  <2>1. LET p == {world.vms[u].placement, world.vms[u].sizing}
        IN  p # {Absent} /\ p \subseteq world.vdc \cup {V!SystemDefault, Absent}
    BY <1>1 DEF V!VmsKeepPolicy
  <2>2. CASE world'.vms[u] = world.vms[u]
    BY <1>9, <2>1, <2>2
  <2>3. CASE u = v /\ world'.vms = vms
    <3>1. world.vms[v] \in V!VmPolicies
      BY <1>1 DEF OvdcWorlds
    <3>2. \/ policies.sizing = V!SystemDefault /\ policies.placement = world.vms[v].placement
          \/ /\ policies.placement = Absent /\ policies.sizing = world.vms[v].sizing
             /\ world.vms[v].sizing # Absent
      BY <1>3, <3>1 DEF V!VmPolicies
    <3>3. world'.vms[u] = policies
      BY <1>4, <2>3
    <3>4. Absent # V!SystemDefault
      BY ResourcesAssumption
    <3> QED
      BY <1>9, <2>1, <2>3, <3>2, <3>3, <3>4
  <2> QED
    BY <1>4, <1>9, <2>2, <2>3
<1> QED
  BY <1>8, <1>9, <1>10, <1>11, <1>12, <1>13, <1>14, OvdcKept

\* Who has read the VDC is crossed when another request changes it.
LEMMA OvdcCrossing ==
  ASSUME OvdcInv, NEW a \in Ops, NEW l \in V!Locals, l.kind = loc[a].kind, l.named = loc[a].named,
         \A b \in Ops \ {a} : pc'[b] = pc[b],
         \/ loc' = [b \in Ops |-> IF b = a THEN l
                                     ELSE [loc[b] EXCEPT !.crossed = @ \/ pc[b] # "get"]]
         \/ /\ l = loc[a]
            /\ loc' = [b \in Ops |-> [loc[b] EXCEPT !.crossed = @ \/ (b # a /\ pc[b] # "get")]]
  PROVE  loc'[a] = l /\ loc' \in [Ops -> V!Locals] /\ OvdcFrame(a)
<1>1. loc \in [Ops -> V!Locals]
  BY DEF OvdcInv, V!TypeOK
<1>2. ASSUME NEW b \in Ops, b # a
      PROVE  /\ loc'[b] \in V!Locals /\ loc'[b].kind = loc[b].kind /\ loc'[b].named = loc[b].named
             /\ pc[b] # "get" => loc'[b].crossed
  <2> DEFINE c == loc[b].crossed \/ pc[b] # "get"
             m == [loc[b] EXCEPT !.crossed = c]
  <2>1. loc[b] \in V!Locals /\ c \in BOOLEAN
    BY <1>1 DEF V!Locals
  <2>2. m \in V!Locals /\ m.kind = loc[b].kind /\ m.named = loc[b].named /\ m.crossed = c
    <3> HIDE DEF c
    <3> QED
      BY <2>1 DEF V!Locals
  <2>3. loc'[b] = m
    BY <1>2, <2>1 DEF V!Locals
  <2> HIDE DEF m
  <2> QED
    BY <2>2, <2>3
<1>3. loc'[a] = l
  <2>1. CASE loc' = [b \in Ops |-> IF b = a THEN l
                                      ELSE [loc[b] EXCEPT !.crossed = @ \/ pc[b] # "get"]]
    BY <2>1
  <2>2. CASE /\ l = loc[a]
             /\ loc' = [b \in Ops |->
                          [loc[b] EXCEPT !.crossed = @ \/ (b # a /\ pc[b] # "get")]]
    <3>1. loc'[a] = [loc[a] EXCEPT !.crossed = loc[a].crossed \/ (a # a /\ pc[a] # "get")]
      BY <2>2
    <3>2. (loc[a].crossed \/ (a # a /\ pc[a] # "get")) = loc[a].crossed
      BY <1>1 DEF V!Locals
    <3>3. [loc[a] EXCEPT !.crossed = loc[a].crossed] = loc[a]
      BY <1>1 DEF V!Locals
    <3> QED
      BY <2>2, <3>1, <3>2, <3>3
  <2> QED
    BY <2>1, <2>2
<1>4. loc' \in [Ops -> V!Locals]
  <2>1. \A b \in Ops : loc'[b] \in V!Locals
    BY <1>2, <1>3
  <2>2. loc' = [b \in Ops |-> loc'[b]]
    OBVIOUS
  <2> QED
    BY <2>1, <2>2
<1> QED
  BY <1>2, <1>3, <1>4 DEF OvdcFrame

\* A placement policy is added to the VDC.
LEMMA OvdcAddPlacement ==
  ASSUME OvdcInv, NEW a \in Ops, V!AddPlacement(a)
  PROVE  OvdcInv'
<1>1. /\ loc[a] \in V!Locals /\ world \in OvdcWorlds /\ V!TypeOK /\ V!VmsKeepPolicy /\ OvdcPath(a)
      /\ pc[a] = "add placement"
  BY DEF OvdcInv, V!TypeOK, OvdcWorlds, V!AddPlacement
<1>2. PICK p \in loc[a].add :
       /\ V!Request(a, [world EXCEPT !.vdc = @ \cup {p}], "add placement", "error")
       /\ loc' = [b \in Ops |->
                    IF b = a THEN [loc[a] EXCEPT !.add = @ \ {p}]
                    ELSE [loc[b] EXCEPT !.crossed = @ \/ pc[b] # "get"]]
  BY DEF V!AddPlacement
<1> DEFINE w == [world EXCEPT !.vdc = world.vdc \cup {p}]
           l == [loc[a] EXCEPT !.add = loc[a].add \ {p}]
<1>3. p \in Placement /\ world.vdc \cup {p} \in SUBSET (Placement \cup Sizing)
  BY <1>1 DEF V!Locals, OvdcWorlds
<1>4. /\ w \in OvdcWorlds /\ w.vms = world.vms /\ w.vdc = world.vdc \cup {p}
      /\ w.tkgPlus = world.tkgPlus
  BY <1>1, <1>3 DEF OvdcWorlds
<1>5. /\ l \in V!Locals /\ l.del = loc[a].del /\ l.add = loc[a].add \ {p}
      /\ l.kind = loc[a].kind /\ l.named = loc[a].named /\ l.before = loc[a].before
      /\ l.runtimes = loc[a].runtimes /\ l.crossed = loc[a].crossed
  BY <1>1 DEF V!Locals
<1>6. /\ V!Request(a, w, "add placement", "error")
      /\ loc' = [b \in Ops |-> IF b = a THEN l
                                  ELSE [loc[b] EXCEPT !.crossed = @ \/ pc[b] # "get"]]
  BY <1>2
<1> HIDE DEF w, l
<1>7. /\ DOMAIN pc' = Ops /\ pc'[a] \in {"add placement", "error"} /\ faults' \in 0..MaxFaults
      /\ \A b \in Ops \ {a} : pc'[b] = pc[b]
      /\ world' \in OvdcWorlds /\ world' \in {world, w}
      /\ pc'[a] # "error" => world' = w
  <2>1. OvdcAnswered(a, w, "add placement", "error")
    BY <1>1, <1>4, <1>6, OvdcCalls
  <2> QED
    BY <2>1 DEF OvdcAnswered
<1>8. loc'[a] = l /\ loc' \in [Ops -> V!Locals] /\ OvdcFrame(a)
  BY <1>5, <1>6, <1>7, OvdcCrossing
<1>9. /\ world'.tkgPlus = world.tkgPlus /\ world'.vms = world.vms /\ world.vdc \subseteq world'.vdc
      /\ world'.vdc \ Placement = world.vdc \ Placement
  BY <1>3, <1>4, <1>7
<1>10. OvdcPath(a)'
  BY <1>1, <1>5, <1>7, <1>8 DEF OvdcPath, OvdcUpdate
<1>11. ASSUME OvdcUpdate(a)', ~l.crossed
       PROVE  OvdcProgress(a)'
  <2>1. OvdcProgress(a)
    BY <1>5, <1>8, <1>11 DEF OvdcInv, OvdcUpdate
  <2>2. OvdcListSent(a)' = OvdcListSent(a)
    BY <1>5, <1>8, <1>9, OvdcSent
  <2>3. pc'[a] # "error" => OvdcAdding(a)'
    <3> SUFFICES ASSUME world' = w
                 PROVE  /\ V!ListedOn(w.vdc) \cup l.add = l.runtimes \cup l.del
                        /\ l.add \subseteq l.runtimes /\ l.del \cap l.runtimes = {}
      BY <1>7, <1>8 DEF OvdcAdding, V!ListedOn
    <3>1. OvdcAdding(a)
      BY <1>1, <2>1 DEF OvdcProgress
    <3> QED
      BY <1>3, <1>4, <1>5, <3>1 DEF OvdcAdding, V!ListedOn
  <2> QED
    BY <1>1, <1>5, <1>7, <1>8, <1>9, <2>1, <2>2, <2>3 DEF OvdcProgress
<1>12. V!VmsKeepPolicy'
  BY <1>1, <1>9, OvdcVmsSame
<1> QED
  BY <1>5, <1>7, <1>8, <1>9, <1>10, <1>11, <1>12, OvdcKept

\* A policy that no VM has is removed from the VDC.
LEMMA OvdcRemovePolicy ==
  ASSUME OvdcInv, NEW a \in Ops, V!RemovePolicy(a)
  PROVE  OvdcInv'
<1> DEFINE p == loc[a].policy
           w == [world EXCEPT !.vdc = world.vdc \ {p}]
           next == IF p \in Placement THEN "add placement" ELSE "succeed"
<1>1. /\ loc[a] \in V!Locals /\ world \in OvdcWorlds /\ V!TypeOK /\ V!VmsKeepPolicy /\ OvdcPath(a)
      /\ pc[a] = "remove policy"
  BY DEF OvdcInv, V!TypeOK, OvdcWorlds, V!RemovePolicy
<1>2. CASE V!Step(a, "error") /\ loc' = loc
  <2>1. /\ DOMAIN pc' = Ops /\ pc'[a] = "error" /\ faults' \in 0..MaxFaults
        /\ \A b \in Ops \ {a} : pc'[b] = pc[b]
        /\ world' = world
    BY <1>1, <1>2, OvdcSteps
  <2>2. loc' = [loc EXCEPT ![a] = loc[a]]
    BY <1>1, <1>2 DEF V!TypeOK
  <2>3. OvdcPath(a)'
    BY <1>1, <1>2, <2>1 DEF OvdcPath, OvdcUpdate
  <2>4. ASSUME OvdcUpdate(a)', ~loc[a].crossed
        PROVE  OvdcProgress(a)'
    <3>1. OvdcProgress(a)
      BY <1>2, <2>4 DEF OvdcInv, OvdcUpdate
    <3>2. OvdcListSent(a)' = OvdcListSent(a)
      BY <1>2, <2>1, OvdcSent
    <3> QED
      BY <1>1, <1>2, <2>1, <3>1, <3>2 DEF OvdcProgress
  <2> QED
    BY <1>1, <2>1, <2>2, <2>3, <2>4, OvdcQuiet
<1>3. CASE /\ V!Detachable(p)
           /\ V!Request(a, w, next, "error")
           /\ loc' = [b \in Ops |-> [loc[b] EXCEPT !.crossed = @ \/ (b # a /\ pc[b] # "get")]]
  <2>1. world.vdc \ {p} \in SUBSET (Placement \cup Sizing)
    BY <1>1 DEF OvdcWorlds
  <2>2. /\ w \in OvdcWorlds /\ w.vms = world.vms /\ w.vdc = world.vdc \ {p}
        /\ w.tkgPlus = world.tkgPlus
    BY <1>1, <2>1 DEF OvdcWorlds
  <2>3. V!Detachable(p) /\ next = (IF p \in Placement THEN "add placement" ELSE "succeed")
    BY <1>3
  <2> HIDE DEF w, next
  <2>4. /\ DOMAIN pc' = Ops /\ pc'[a] \in {next, "error"} /\ faults' \in 0..MaxFaults
        /\ \A b \in Ops \ {a} : pc'[b] = pc[b]
        /\ world' \in OvdcWorlds /\ world' \in {world, w}
        /\ pc'[a] # "error" => world' = w
    <3>1. V!Request(a, w, next, "error") /\ V!TypeOK
      BY <1>1, <1>3
    <3>2. OvdcAnswered(a, w, next, "error")
      BY <2>2, <3>1, OvdcCalls
    <3> QED
      BY <3>2 DEF OvdcAnswered
  <2>5. loc'[a] = loc[a] /\ loc' \in [Ops -> V!Locals] /\ OvdcFrame(a)
    BY <1>1, <1>3, <2>4, OvdcCrossing
  <2>6. /\ world'.tkgPlus = world.tkgPlus /\ world'.vms = world.vms
        /\ world'.vdc \in {world.vdc, world.vdc \ {p}}
    BY <2>2, <2>4
  <2>7. OvdcPath(a)'
    BY <1>1, <2>3, <2>4, <2>5 DEF OvdcPath, OvdcUpdate
  <2>8. ASSUME OvdcUpdate(a)', ~loc[a].crossed
        PROVE  OvdcProgress(a)'
    <3>1. OvdcProgress(a) /\ OvdcDeleting(a)
      BY <1>1, <2>5, <2>8 DEF OvdcInv, OvdcUpdate, OvdcProgress
    <3>2. OvdcListSent(a)' = OvdcListSent(a)
      BY <2>5, <2>6, OvdcSent
    <3>3. p \in Placement
      BY <3>1 DEF OvdcDeleting
    <3>4. pc'[a] # "error" => OvdcAdding(a)'
      <4> SUFFICES ASSUME world' = w
                   PROVE  /\ V!ListedOn(w.vdc) \cup loc[a].add = loc[a].runtimes \cup loc[a].del
                          /\ loc[a].add \subseteq loc[a].runtimes
                          /\ loc[a].del \cap loc[a].runtimes = {}
        BY <2>4, <2>5 DEF OvdcAdding, V!ListedOn
      <4> QED
        BY <2>2, <3>1 DEF OvdcDeleting, V!ListedOn
    <3>5. world'.vdc \ Placement = world.vdc \ Placement
      BY <2>6, <3>3
    <3> QED
      BY <1>1, <2>3, <2>4, <2>5, <3>1, <3>2, <3>3, <3>4, <3>5 DEF OvdcProgress
  <2>9. V!VmsKeepPolicy'
    BY <1>1, <2>3, <2>6 DEF V!VmsKeepPolicy, V!Detachable
  <2> QED
    BY <2>4, <2>5, <2>6, <2>7, <2>8, <2>9, OvdcKept
<1> QED
  BY <1>2, <1>3 DEF V!RemovePolicy, V!ChangeVdc

\* A sizing policy is added.
LEMMA OvdcAddSizing ==
  ASSUME OvdcInv, NEW a \in Ops, V!AddSizing(a)
  PROVE  OvdcInv'
<1> DEFINE w == [world EXCEPT !.vdc = world.vdc \cup {loc[a].named}]
<1>1. /\ loc[a] \in V!Locals /\ world \in OvdcWorlds /\ V!TypeOK /\ V!VmsKeepPolicy /\ OvdcPath(a)
      /\ pc[a] = "add"
  BY DEF OvdcInv, V!TypeOK, OvdcWorlds, V!AddSizing
<1>2. /\ V!Request(a, w, "done", "failed")
      /\ loc' = [b \in Ops |-> [loc[b] EXCEPT !.crossed = @ \/ (b # a /\ pc[b] # "get")]]
  BY DEF V!AddSizing, V!ChangeVdc
<1>3. world.vdc \cup {loc[a].named} \in SUBSET (Placement \cup Sizing)
  BY <1>1 DEF OvdcWorlds, V!Locals
<1>4. /\ w \in OvdcWorlds /\ w.vms = world.vms /\ w.vdc = world.vdc \cup {loc[a].named}
      /\ w.tkgPlus = world.tkgPlus
  BY <1>1, <1>3 DEF OvdcWorlds
<1> HIDE DEF w
<1>5. /\ DOMAIN pc' = Ops /\ pc'[a] \in {"done", "failed"} /\ faults' \in 0..MaxFaults
      /\ \A b \in Ops \ {a} : pc'[b] = pc[b]
      /\ world' \in OvdcWorlds /\ world' \in {world, w}
  BY <1>1, <1>2, <1>4, OvdcCalls DEF OvdcAnswered
<1>6. loc'[a] = loc[a] /\ loc' \in [Ops -> V!Locals] /\ OvdcFrame(a)
  BY <1>1, <1>2, <1>5, OvdcCrossing
<1>7. /\ world'.tkgPlus = world.tkgPlus /\ world'.vms = world.vms /\ world.vdc \subseteq world'.vdc
  BY <1>4, <1>5
<1>8. OvdcPath(a)' /\ ~OvdcUpdate(a)'
  BY <1>1, <1>5, <1>6 DEF OvdcPath, OvdcUpdate
<1>9. V!VmsKeepPolicy'
  BY <1>1, <1>7, OvdcVmsSame
<1> QED
  BY <1>5, <1>6, <1>7, <1>8, <1>9, OvdcKept

-----------------------------------------------------------------------------
\* At first nobody has read the VDC.
LEMMA OvdcInitInv == V!Init => OvdcInv
<1> SUFFICES ASSUME V!Init PROVE OvdcInv
  OBVIOUS
<1>1. PICK tkgPlus \in BOOLEAN, vdc \in SUBSET (Placement \cup Sizing), vms \in [VMs -> V!VmPolicies] :
       /\ \A v \in VMs :
            /\ {vms[v].placement, vms[v].sizing} \subseteq vdc \cup {V!SystemDefault, Absent}
            /\ {vms[v].placement, vms[v].sizing} # {Absent}
       /\ world = [tkgPlus |-> tkgPlus, vdc |-> vdc, vms |-> vms,
                   task |-> [a \in Ops |-> "NONE"]]
  BY DEF V!Init
<1>2. PICK kind \in [Ops -> {"enable", "disable", "add", "remove"}],
           named \in [Ops -> Placement \cup Sizing], force \in BOOLEAN :
       /\ \A a \in Ops :
            named[a] \in (IF kind[a] \in {"enable", "disable"} THEN Placement ELSE Sizing)
       /\ loc = [a \in Ops |->
                   [kind |-> kind[a], named |-> named[a], force |-> force,
                    runtimes |-> {}, add |-> {}, del |-> {}, policy |-> Absent,
                    targets |-> {}, session |-> TRUE, before |-> {}, crossed |-> FALSE]]
       /\ pc = [a \in Ops |-> IF kind[a] \in {"enable", "disable"} THEN "get"
                                 ELSE kind[a]]
  BY DEF V!Init
<1>3. world \in OvdcWorlds
  BY <1>1 DEF OvdcWorlds, V!TaskStatuses
<1>4. loc \in [Ops -> V!Locals] /\ DOMAIN pc = Ops
  BY <1>2 DEF V!Locals
<1>5. V!TypeOK
  <2>1. faults = 0 /\ faults \in 0..MaxFaults
    BY ThreadsAssumption DEF V!Init
  <2> QED
    BY <1>3, <1>4, <2>1 DEF V!TypeOK, OvdcWorlds
<1>6. V!VmsKeepPolicy
  BY <1>1 DEF V!VmsKeepPolicy
<1>7. ASSUME NEW a \in Ops
      PROVE  OvdcPath(a) /\ (OvdcUpdate(a) /\ ~loc[a].crossed => OvdcProgress(a))
  <2>1. loc[a].kind = kind[a] /\ loc[a].named = named[a]
    BY <1>2
  <2>2. pc[a] = IF kind[a] \in {"enable", "disable"} THEN "get" ELSE kind[a]
    BY <1>2
  <2>3. kind[a] \in {"enable", "disable", "add", "remove"}
    OBVIOUS
  <2> QED
    BY <1>2, <2>1, <2>2, <2>3 DEF OvdcPath, OvdcUpdate, OvdcProgress
<1> QED
  BY <1>5, <1>6, <1>7 DEF OvdcInv

LEMMA OvdcNextInv ==
  ASSUME OvdcInv, [V!Next]_(V!procedureVars)
  PROVE  OvdcInv'
<1>1. CASE UNCHANGED V!procedureVars
  BY <1>1 DEF V!procedureVars, OvdcInv, V!TypeOK, OvdcPath, OvdcUpdate, OvdcProgress, OvdcListSent,
     OvdcWanted, OvdcHidden, OvdcAdding, OvdcDeleting, V!ListedOn, V!VmsKeepPolicy
<1>2. CASE V!Next
  BY <1>2, OvdcClientUpdate, OvdcTaskStep, OvdcDiff, OvdcAddPlacement, OvdcDeleteNext,
     OvdcVmsLooked, OvdcTakeFromVm, OvdcRemovePolicy, OvdcAddSizing, OvdcRemovalStep DEF V!Next
<1> QED
  BY <1>1, <1>2

\* The invariant says what the requests have done.
LEMMA OvdcAsked == OvdcInv => V!OvdcAsRequested
<1> SUFFICES ASSUME OvdcInv, NEW a \in Ops,
                    pc[a] = "done", ~loc[a].crossed, OvdcUpdate(a)
             PROVE  world.vdc \ OvdcHidden = OvdcWanted(a) \ OvdcHidden
  BY DEF V!OvdcAsRequested, OvdcUpdate, OvdcHidden, OvdcWanted
<1>1. OvdcProgress(a) /\ OvdcPath(a)
  BY DEF OvdcInv
<1>2. /\ world.vdc \cap Placement = loc[a].runtimes
      /\ world.vdc \ Placement = loc[a].before \ Placement
      /\ loc[a].runtimes \ OvdcHidden = (OvdcWanted(a) \cap Placement) \ OvdcHidden
  BY <1>1 DEF OvdcProgress, OvdcListSent, V!ListedOn
<1>3. OvdcWanted(a) \ Placement = loc[a].before \ Placement
  BY <1>1 DEF OvdcPath, OvdcWanted
<1> QED
  BY <1>2, <1>3

-----------------------------------------------------------------------------
(***************************************************************************)
(* TemplateBuild, for any templates: how the list of them is walked, and   *)
(* the commands that build them.                                           *)
(***************************************************************************)
\* The walk over a list looks at one template after the other.
Look(before, i, plus) ==
  IF ~before.skip /\ i \in plus THEN [before EXCEPT !.skip = TRUE]
  ELSE [kept |-> before.kept \cup {i}, skip |-> FALSE]
IsWalk(w, list, n, plus) ==
  w = [i \in 0..n |-> IF i = 0 THEN [kept |-> {}, skip |-> FALSE]
                      ELSE Look(w[i - 1], list[i], plus)]

LEMMA ValidIs ==
  ASSUME NEW list, NEW plus
  PROVE  B!get_valid(list, plus) = (CHOOSE w : IsWalk(w, list, Len(list), plus))[Len(list)].kept
BY DEF B!get_valid, IsWalk, Look

\* There is such a walk over any list.
LEMMA WalkExists ==
  ASSUME NEW list, NEW plus, NEW n \in Nat
  PROVE  \E w : IsWalk(w, list, n, plus)
<1> DEFINE S == {k \in Nat : ~\E w : IsWalk(w, list, k, plus)}
<1> SUFFICES ASSUME S # {} PROVE FALSE
  OBVIOUS
<1>1. PICK m \in S : \A k \in S : m <= k
  BY LeastNatural
<1>2. m # 0
  <2> DEFINE w == [i \in 0..0 |-> [kept |-> {}, skip |-> FALSE]]
  <2>1. IsWalk(w, list, 0, plus)
    BY DEF IsWalk
  <2> QED
    BY <2>1
<1>3. PICK v : IsWalk(v, list, m - 1, plus)
  BY <1>1, <1>2
<1> DEFINE w == [i \in 0..m |-> IF i = m THEN Look(v[m - 1], list[m], plus) ELSE v[i]]
<1>4. ASSUME NEW i \in 0..m
      PROVE  w[i] = IF i = 0 THEN [kept |-> {}, skip |-> FALSE]
                    ELSE Look(w[i - 1], list[i], plus)
  <2>1. CASE i = m
    <3>1. w[i] = Look(v[m - 1], list[m], plus) /\ w[i - 1] = v[m - 1]
      BY <1>2, <2>1
    <3> QED
      BY <1>2, <2>1, <3>1
  <2>2. CASE i # m
    <3>1. i \in 0..(m - 1) /\ w[i] = v[i] /\ (i # 0 => w[i - 1] = v[i - 1])
      BY <1>1, <2>2
    <3>2. v[i] = IF i = 0 THEN [kept |-> {}, skip |-> FALSE] ELSE Look(v[i - 1], list[i], plus)
      BY <1>3, <3>1 DEF IsWalk
    <3> QED
      BY <3>1, <3>2
  <2> QED
    BY <2>1, <2>2
<1>5. w = [i \in 0..m |-> w[i]]
  OBVIOUS
<1> HIDE DEF w
<1>6. IsWalk(w, list, m, plus)
  BY <1>4, <1>5 DEF IsWalk
<1> QED
  BY <1>6

\* What has been kept when k templates were walked past: some of them, all that are not
\* to be removed, and one that is to be only right after one that was removed.
Spared(list, k, plus, kept, i) ==
  \E n \in 1..(k - 1) : list[n + 1] = i /\ list[n] \in plus \ kept

KeptAt(w, list, k, plus) ==
  /\ w[k] \in [kept : SUBSET {list[j] : j \in 1..k}, skip : BOOLEAN]
  /\ \A j \in 1..k : list[j] \notin plus => list[j] \in w[k].kept
  /\ w[k].skip => k # 0 /\ list[k] \in plus \ w[k].kept
  /\ \A i \in w[k].kept \cap plus : Spared(list, k, plus, w[k].kept, i)

LEMMA WalkKeeps ==
  ASSUME NEW list, NEW plus, NEW n \in Nat, NEW w, IsWalk(w, list, n, plus), NEW k \in 0..n,
         \A i, j \in 1..n : i # j => list[i] # list[j]
  PROVE  KeptAt(w, list, k, plus)
<1> DEFINE S == {i \in 0..n : ~KeptAt(w, list, i, plus)}
<1> SUFFICES ASSUME S # {} PROVE FALSE
  OBVIOUS
<1>1. S \in SUBSET Nat
  OBVIOUS
<1>2. PICK m \in S : \A i \in S : m <= i
  BY <1>1, LeastNatural
<1>3. m \in 0..n /\ ~KeptAt(w, list, m, plus)
  OBVIOUS
<1>4. w[m] = IF m = 0 THEN [kept |-> {}, skip |-> FALSE] ELSE Look(w[m - 1], list[m], plus)
  BY <1>3 DEF IsWalk
<1>5. m # 0
  <2> SUFFICES ASSUME m = 0 PROVE FALSE
    OBVIOUS
  <2>1. w[m] = [kept |-> {}, skip |-> FALSE]
    BY <1>4
  <2> QED
    BY <1>3, <2>1 DEF KeptAt
<1>6. m - 1 \in 0..n /\ KeptAt(w, list, m - 1, plus)
  BY <1>2, <1>3, <1>5
<1>7. /\ w[m].kept \in {w[m - 1].kept, w[m - 1].kept \cup {list[m]}}
      /\ list[m] \notin plus => w[m].kept = w[m - 1].kept \cup {list[m]}
      /\ w[m] \in [kept : SUBSET (w[m - 1].kept \cup {list[m]}), skip : BOOLEAN]
      /\ w[m].skip => list[m] \in plus /\ w[m].kept = w[m - 1].kept
      /\ list[m] \in plus /\ w[m].kept # w[m - 1].kept => w[m - 1].skip
  <2> DEFINE before == w[m - 1]
  <2>1. w[m] = Look(before, list[m], plus)
    BY <1>4, <1>5
  <2>2. before = [kept |-> before.kept, skip |-> before.skip] /\ before.skip \in BOOLEAN
    BY <1>6 DEF KeptAt
  <2> HIDE DEF before
  <2>3. CASE ~before.skip /\ list[m] \in plus
    <3>1. w[m] = [kept |-> before.kept, skip |-> TRUE]
      BY <2>1, <2>2, <2>3 DEF Look
    <3> QED
      BY <2>3, <3>1 DEF before
  <2>4. CASE ~(~before.skip /\ list[m] \in plus)
    <3>1. w[m] = [kept |-> before.kept \cup {list[m]}, skip |-> FALSE]
      BY <2>1, <2>4 DEF Look
    <3> QED
      BY <2>2, <2>4, <3>1 DEF before
  <2> QED
    BY <2>3, <2>4
<1>8. \A j \in 1..m : j \in 1..(m - 1) \/ j = m
  BY <1>3
<1>9. 1..(m - 1) \subseteq 1..m /\ m \in 1..m
  BY <1>3, <1>5
<1>10. list[m] \notin w[m - 1].kept
  <2>1. \A j \in 1..(m - 1) : j \in 1..n /\ j # m
    BY <1>3
  <2>2. m \in 1..n
    BY <1>3, <1>5
  <2> QED
    BY <1>6, <2>1, <2>2 DEF KeptAt
<1>11. ASSUME NEW i \in w[m].kept \cap plus
       PROVE  Spared(list, m, plus, w[m].kept, i)
  <2>1. CASE i \in w[m - 1].kept
    <3>1. PICK x \in 1..(m - 2) : list[x + 1] = i /\ list[x] \in plus \ w[m - 1].kept
      BY <1>6, <1>11, <2>1 DEF KeptAt, Spared
    <3>2. x \in 1..(m - 1) /\ x \in 1..n /\ m \in 1..n /\ x # m
      BY <1>3, <3>1
    <3>3. list[x] # list[m]
      BY <3>2
    <3>4. list[x] \in plus \ w[m].kept
      BY <1>7, <3>1, <3>3
    <3> QED
      BY <3>1, <3>2, <3>4 DEF Spared
  <2>2. CASE i \notin w[m - 1].kept
    <3>1. i = list[m] /\ w[m].kept = w[m - 1].kept \cup {list[m]} /\ w[m - 1].skip
      BY <1>7, <1>11, <2>2
    <3>2. m - 1 # 0 /\ list[m - 1] \in plus \ w[m - 1].kept
      BY <1>6, <3>1 DEF KeptAt
    <3>3. m - 1 \in 1..(m - 1) /\ m - 1 \in 1..n /\ m \in 1..n /\ m - 1 # m /\ (m - 1) + 1 = m
      <4>1. m \in 0..n /\ m # 0 /\ m - 1 # 0
        BY <1>3, <1>5, <3>2
      <4> QED
        BY <4>1
    <3>4. list[m - 1] # list[m]
      BY <3>3
    <3> QED
      BY <3>1, <3>2, <3>3, <3>4 DEF Spared
  <2> QED
    BY <2>1, <2>2
<1>12. w[m].skip => m # 0 /\ list[m] \in plus \ w[m].kept
  BY <1>5, <1>7, <1>10
<1>13. KeptAt(w, list, m, plus)
  BY <1>6, <1>7, <1>8, <1>9, <1>11, <1>12 DEF KeptAt
<1> QED
  BY <1>3, <1>13

\* The templates that are left are some of those in the list, all that are not of a
\* runtime to be removed, and others only right after one that is, in whatever order
\* they are listed.
LEMMA ValidKeeps ==
  ASSUME NEW S, IsFiniteSet(S), NEW list \in B!SetToSeqs(S), NEW plus
  PROVE  /\ B!get_valid(list, plus) \subseteq S /\ S \ plus \subseteq B!get_valid(list, plus)
         /\ \A i \in B!get_valid(list, plus) \cap plus :
              Spared(list, Len(list), plus, B!get_valid(list, plus), i)
<1> DEFINE n == Cardinality(S)
<1>0. B!Cardinality(S) = Cardinality(S)
  BY DEF Cardinality, B!Cardinality
<1>1. n \in Nat /\ list \in [1..n -> S] /\ \A i, j \in 1..n : i # j => list[i] # list[j]
  BY <1>0, FS_CardinalityType DEF B!SetToSeqs, B!IsInjective
<1>2. Len(list) = n
  <2>1. list \in Seq(S)
    BY <1>1, SeqDef
  <2>2. Len(list) \in Nat /\ DOMAIN list = 1..Len(list)
    BY <2>1, LenProperties
  <2> QED
    BY <1>1, <2>2
<1>3. \A i \in S : \E j \in 1..n : list[j] = i
  <2>1. IsFiniteSet(1..n) /\ Cardinality(1..n) = n
    BY <1>1, FS_Interval
  <2>2. list \in Injection(1..n, S)
    BY <1>1 DEF Injection, IsInjective
  <2>3. list \in Surjection(1..n, S)
    BY <2>1, <2>2, FS_Injection
  <2> QED
    BY <2>3 DEF Surjection
<1> DEFINE w == CHOOSE w : IsWalk(w, list, n, plus)
<1>4. IsWalk(w, list, n, plus)
  BY <1>1, WalkExists
<1>5. B!get_valid(list, plus) = w[n].kept
  BY <1>2, ValidIs
<1> HIDE DEF w, n
<1>6. KeptAt(w, list, n, plus)
  BY <1>1, <1>4, WalkKeeps
<1> QED
  BY <1>1, <1>2, <1>3, <1>5, <1>6 DEF KeptAt

TmplWorlds == [legacy : BOOLEAN, tkgPlus : BOOLEAN, item : [B!Items -> B!ItemStates \cup {Absent}],
               ova : BOOLEAN, temp : Ops \cup {Absent, "left behind"}]

\* Where a command of each kind may be; an import of a template that is there builds none.
TmplBuilding == {"build", "clean item", "clean ova", "clean vApp", "ova", "old vApp", "vApp",
                 "customize", "capture", "tag", "end vApp"}
TmplPath(a) ==
  /\ loc[a].cmd = "install" =>
       pc[a] \in {"install", "meta", "done", "failed"} \cup TmplBuilding
  /\ loc[a].cmd = "import" =>
       /\ loc[a].item \in Imports
       /\ pc[a] \in {"import", "upload", "exists", "delete", "ovf", "property", "meta", "done", "failed"}
       /\ pc[a] \in {"import", "upload", "exists", "delete", "ovf", "property"} => ~loc[a].built

\* The item of a command, once it was tagged.
TmplTagged(i) == i \in Imports \/ world.legacy \/ world.item[i].tagged

\* What is known as long as no other command has changed anything.
TmplProgress(a) ==
  /\ pc[a] \in {"end vApp", "meta"} /\ B!Mine(a) # Absent => TmplTagged(loc[a].item)
  /\ loc[a].cmd = "install" /\ loc[a].built /\ ~loc[a].retain /\ pc[a] \in {"meta", "done"} =>
       world.temp = Absent
  /\ pc[a] = "done" /\ (loc[a].cmd = "install" \/ loc[a].built) =>
       B!Mine(a) # Absent /\ B!Mine(a).meta = "stamped" /\ TmplTagged(loc[a].item)

\* An item that carries its metadata was tagged before.
TmplStamped ==
  \A i \in B!Items :
    world.item[i] # Absent /\ world.item[i].meta = "stamped" => TmplTagged(i) \/ B!Disputed(i)

TmplInv ==
  /\ B!TypeOK /\ world \in TmplWorlds
  /\ \A a \in Ops : TmplPath(a) /\ (~loc[a].crossed => TmplProgress(a))
  /\ TmplStamped

\* A step of a leaves what the others keep, but for their being crossed.
TmplFrame(a) ==
  \A b \in Ops :
    /\ b # a => pc'[b] = pc[b] /\ loc'[b].built = loc[b].built
                /\ (loc'[b].crossed \/ world' = world)
    /\ loc'[b].cmd = loc[b].cmd /\ loc'[b].item = loc[b].item
    /\ loc'[b].retain = loc[b].retain /\ (loc[b].crossed => loc'[b].crossed)

\* What a step of a must show to keep the invariant.
LEMMA TmplKept ==
  ASSUME TmplInv, NEW a \in Ops, TmplFrame(a),
         world' \in TmplWorlds, world'.legacy = world.legacy, loc' \in [Ops -> B!Locals],
         DOMAIN pc' = Ops, faults' \in 0..MaxFaults,
         TmplPath(a)', ~loc'[a].crossed => TmplProgress(a)',
         \A i \in B!Items :
           \/ world'.item[i] = world.item[i]
           \/ /\ i = loc[a].item
              /\ world'.item[i] # Absent /\ world'.item[i].meta = "stamped" =>
                   TmplTagged(i)' \/ loc'[a].crossed
  PROVE  TmplInv'
<1>1. B!TypeOK'
  BY DEF TmplInv, B!TypeOK, TmplWorlds
<1>2. ASSUME NEW b \in Ops, b # a
      PROVE  TmplPath(b)'
  BY <1>2 DEF TmplInv, TmplFrame, TmplPath
<1>3. ASSUME NEW b \in Ops, b # a, ~loc'[b].crossed
      PROVE  TmplProgress(b)'
  <2>1. world' = world /\ pc'[b] = pc[b] /\ ~loc[b].crossed
    BY <1>3 DEF TmplFrame
  <2>2. TmplProgress(b)
    BY <2>1 DEF TmplInv
  <2> QED
    BY <1>3, <2>1, <2>2 DEF TmplFrame, TmplProgress, TmplTagged, B!Mine
<1>4. TmplStamped'
  <2> SUFFICES ASSUME NEW i \in B!Items, world'.item[i] # Absent,
                      world'.item[i].meta = "stamped"
               PROVE  TmplTagged(i)' \/ B!Disputed(i)'
    BY DEF TmplStamped
  <2>1. CASE world'.item[i] = world.item[i]
    <3>1. TmplTagged(i) \/ B!Disputed(i)
      BY <2>1 DEF TmplInv, TmplStamped
    <3>2. TmplTagged(i) => TmplTagged(i)'
      BY <2>1 DEF TmplTagged
    <3>3. B!Disputed(i) => B!Disputed(i)'
      BY DEF B!Disputed, TmplFrame
    <3> QED
      BY <3>1, <3>2, <3>3
  <2>2. CASE i = loc[a].item /\ (TmplTagged(i)' \/ loc'[a].crossed)
    BY <2>2 DEF B!Disputed, TmplFrame
  <2> QED
    BY <2>1, <2>2
<1> QED
  BY <1>1, <1>2, <1>3, <1>4 DEF TmplInv

\* Calls that change nothing.
LEMMA TmplQuiet ==
  ASSUME TmplInv, NEW a \in Ops, NEW l \in B!Locals, loc' = [loc EXCEPT ![a] = l],
         l.cmd = loc[a].cmd, l.item = loc[a].item, l.retain = loc[a].retain,
         l.crossed = loc[a].crossed,
         world' = world, pc' = [pc EXCEPT ![a] = pc'[a]], faults' \in 0..MaxFaults,
         TmplPath(a)', ~loc[a].crossed => TmplProgress(a)'
  PROVE  TmplInv'
<1>1. /\ loc'[a] = l /\ loc' \in [Ops -> B!Locals] /\ \A b \in Ops \ {a} : loc'[b] = loc[b]
      /\ DOMAIN pc' = Ops /\ \A b \in Ops \ {a} : pc'[b] = pc[b]
  BY DEF TmplInv, B!TypeOK
<1>2. TmplFrame(a)
  BY <1>1 DEF TmplFrame
<1>3. world' \in TmplWorlds /\ world'.legacy = world.legacy
  BY DEF TmplInv
<1> QED
  BY <1>1, <1>2, <1>3, TmplKept

\* A change is made, or fails, and may be carried out even so.
TmplChanged(a, w, next) ==
  /\ DOMAIN pc' = Ops /\ pc'[a] \in {next, "failed"} /\ faults' \in 0..MaxFaults
  /\ world' \in {world, w} /\ world' \in TmplWorlds
  /\ pc'[a] # "failed" => world' = w
  /\ loc' \in [Ops -> B!Locals] /\ loc'[a] = loc[a] /\ TmplFrame(a)

LEMMA TmplChange ==
  ASSUME TmplInv, NEW a \in Ops, NEW w \in TmplWorlds, NEW next, B!Change(a, w, next)
  PROVE  TmplChanged(a, w, next)
<1>1. /\ DOMAIN pc' = Ops /\ pc'[a] \in {next, "failed"} /\ faults' \in 0..MaxFaults
      /\ world' \in {world, w} /\ world' \in TmplWorlds
      /\ pc'[a] # "failed" => world' = w
      /\ \A b \in Ops \ {a} : pc'[b] = pc[b]
  <2>1. B!Call(a, w, next, "failed") /\ DOMAIN pc = Ops /\ faults \in 0..MaxFaults
    BY DEF TmplInv, B!TypeOK, B!Change
  <2>2. world \in TmplWorlds
    BY DEF TmplInv
  <2> QED
    BY <2>1, <2>2, ThreadsAssumption DEF B!Call, B!Goto, B!Fault
<1>2. loc \in [Ops -> B!Locals]
  BY DEF TmplInv, B!TypeOK
<1>3. ASSUME NEW b \in Ops
      PROVE  /\ loc'[b] \in B!Locals /\ loc'[b].built = loc[b].built
             /\ loc'[b].cmd = loc[b].cmd /\ loc'[b].item = loc[b].item
             /\ loc'[b].retain = loc[b].retain /\ (loc[b].crossed => loc'[b].crossed)
             /\ b # a => loc'[b].crossed \/ world' = world
             /\ b = a => loc'[b] = loc[b]
  <2> DEFINE c == loc[b].crossed \/ (b # a /\ world' # world)
             m == [loc[b] EXCEPT !.crossed = c]
  <2>1. loc[b] \in B!Locals /\ c \in BOOLEAN
    BY <1>2 DEF B!Locals
  <2>2. loc'[b] = m
    BY DEF B!Change
  <2>3. /\ m \in B!Locals /\ m.built = loc[b].built /\ m.cmd = loc[b].cmd /\ m.item = loc[b].item
        /\ m.retain = loc[b].retain /\ m.crossed = c
        /\ c = loc[b].crossed => m = loc[b]
    <3> HIDE DEF c
    <3> QED
      BY <2>1 DEF B!Locals
  <2>4. /\ b = a => c = loc[b].crossed
        /\ loc[b].crossed => c
        /\ b # a => c \/ world' = world
    <3>1. loc[b].crossed \in BOOLEAN
      BY <2>1 DEF B!Locals
    <3>2. CASE b = a
      BY <3>1, <3>2
    <3>3. CASE b # a
      BY <3>1, <3>3
    <3> QED
      BY <3>2, <3>3
  <2> HIDE DEF m, c
  <2> QED
    BY <2>2, <2>3, <2>4
<1>4. loc' \in [Ops -> B!Locals]
  <2>1. loc' = [b \in Ops |-> loc'[b]]
    BY DEF B!Change
  <2> QED
    BY <1>3, <2>1
<1>5. TmplFrame(a)
  BY <1>1, <1>3 DEF TmplFrame
<1> QED
  BY <1>1, <1>3, <1>4, <1>5 DEF TmplChanged

\* A change that leaves the items alone.
LEMMA TmplNoItem ==
  ASSUME TmplInv, NEW a \in Ops, NEW w \in TmplWorlds, NEW next, TmplChanged(a, w, next),
         w.legacy = world.legacy, w.item = world.item,
         TmplPath(a)', ~loc[a].crossed => TmplProgress(a)'
  PROVE  TmplInv'
<1>1. world'.legacy = world.legacy /\ world'.item = world.item
  BY DEF TmplChanged
<1> QED
  BY <1>1, TmplKept DEF TmplChanged

\* The parts of the world that a change is of.
LEMMA TmplWorldParts ==
  ASSUME TmplInv
  PROVE  /\ \A t \in Ops \cup {Absent} :
              /\ B!SetTemp(t) \in TmplWorlds /\ B!SetTemp(t).legacy = world.legacy
              /\ B!SetTemp(t).item = world.item /\ B!SetTemp(t).temp = t
         /\ \A o \in BOOLEAN :
              LET w == [world EXCEPT !.ova = o]
              IN  w \in TmplWorlds /\ w.legacy = world.legacy /\ w.item = world.item
                  /\ w.temp = world.temp
         /\ \A a \in Ops, s \in B!ItemStates \cup {Absent} :
              LET w == B!SetItem(a, s)
              IN  /\ w \in TmplWorlds /\ w.legacy = world.legacy /\ w.temp = world.temp
                  /\ w.item[loc[a].item] = s
                  /\ \A i \in B!Items \ {loc[a].item} : w.item[i] = world.item[i]
<1>1. world \in TmplWorlds
  BY DEF TmplInv
<1>2. \A t \in Ops \cup {Absent} :
        /\ B!SetTemp(t) \in TmplWorlds /\ B!SetTemp(t).legacy = world.legacy
        /\ B!SetTemp(t).item = world.item /\ B!SetTemp(t).temp = t
  BY <1>1 DEF TmplWorlds, B!SetTemp
<1>3. \A o \in BOOLEAN :
        LET w == [world EXCEPT !.ova = o]
        IN  w \in TmplWorlds /\ w.legacy = world.legacy /\ w.item = world.item
            /\ w.temp = world.temp
  BY <1>1 DEF TmplWorlds
<1>4. ASSUME NEW a \in Ops, NEW s \in B!ItemStates \cup {Absent}
      PROVE  LET w == B!SetItem(a, s)
             IN  /\ w \in TmplWorlds /\ w.legacy = world.legacy /\ w.temp = world.temp
                 /\ w.item[loc[a].item] = s
                 /\ \A i \in B!Items \ {loc[a].item} : w.item[i] = world.item[i]
  <2> DEFINE items == [world.item EXCEPT ![loc[a].item] = s]
  <2>1. loc[a].item \in B!Items /\ world.item \in [B!Items -> B!ItemStates \cup {Absent}]
    BY <1>1 DEF TmplInv, B!TypeOK, B!Locals, TmplWorlds
  <2>2. /\ items \in [B!Items -> B!ItemStates \cup {Absent}] /\ items[loc[a].item] = s
        /\ \A i \in B!Items \ {loc[a].item} : items[i] = world.item[i]
    BY <2>1
  <2>3. B!SetItem(a, s) = [world EXCEPT !.item = items]
    BY DEF B!SetItem
  <2> HIDE DEF items
  <2> QED
    BY <1>1, <2>2, <2>3 DEF TmplWorlds
<1> QED
  BY <1>2, <1>3, <1>4

\* The look-ups, and the refusals.
LEMMA TmplQuery ==
  ASSUME TmplInv, NEW a \in Ops, NEW next, NEW raised,
         B!Query(a, next, raised) \/ (raised = next /\ B!Step(a, next))
  PROVE  /\ world' = world /\ faults' \in 0..MaxFaults
         /\ pc' = [pc EXCEPT ![a] = pc'[a]] /\ pc'[a] \in {next, raised}
<1>1. DOMAIN pc = Ops /\ faults \in 0..MaxFaults
  BY DEF TmplInv, B!TypeOK
<1>2. CASE B!Query(a, next, raised)
  BY <1>1, <1>2, ThreadsAssumption DEF B!Query, B!Goto, B!Fault
<1>3. CASE B!Step(a, next)
  BY <1>1, <1>3 DEF B!Step, B!Goto
<1> QED
  BY <1>2, <1>3

LEMMA TmplFails ==
  ASSUME TmplInv, NEW a \in Ops, B!Step(a, "failed"), UNCHANGED loc
  PROVE  TmplInv'
<1>1. /\ world' = world /\ faults' \in 0..MaxFaults
      /\ pc' = [pc EXCEPT ![a] = pc'[a]] /\ pc'[a] = "failed"
  BY TmplQuery
<1>2. loc[a] \in B!Locals /\ loc' = [loc EXCEPT ![a] = loc[a]]
  BY DEF TmplInv, B!TypeOK
<1>3. TmplPath(a)' /\ TmplProgress(a)'
  BY <1>1 DEF TmplInv, TmplPath, TmplProgress
<1> QED
  BY <1>1, <1>2, <1>3, TmplQuiet

\* The calls of an install that only look, of an import, and the command run again.
LEMMA TmplLooks ==
  ASSUME TmplInv, NEW a \in Ops,
         \/ B!Install(a) \/ B!Customize(a) \/ B!Import(a) \/ B!Upload(a) \/ B!Exists(a)
  PROVE  TmplInv'
<1>1. loc[a] \in B!Locals /\ loc' = loc /\ loc' = [loc EXCEPT ![a] = loc[a]] /\ TmplPath(a)
  BY DEF TmplInv, B!TypeOK, B!Install, B!Customize, B!Import, B!Upload, B!Exists
<1>2. /\ world' = world /\ faults' \in 0..MaxFaults /\ pc' = [pc EXCEPT ![a] = pc'[a]]
      /\ \/ pc[a] = "install" /\ pc'[a] \in {"build", "failed"}
         \/ pc[a] = "customize" /\ pc'[a] \in {"capture", "failed"}
         \/ pc[a] = "import" /\ pc'[a] \in {"upload", "done", "failed"}
         \/ pc[a] = "upload" /\ pc'[a] \in {"ovf", "delete", "exists", "failed"}
         \/ pc[a] = "exists" /\ pc'[a] = "done"
  <2>1. CASE B!Install(a)
    BY <2>1, TmplQuery DEF B!Install
  <2>2. CASE B!Customize(a)
    BY <2>2, TmplQuery DEF B!Customize
  <2>3. CASE B!Import(a)
    BY <2>3, TmplQuery DEF B!Import
  <2>4. CASE B!Upload(a)
    BY <2>4, TmplQuery DEF B!Upload
  <2>5. CASE B!Exists(a)
    BY <2>5, TmplQuery DEF B!Exists
  <2> QED
    BY <2>1, <2>2, <2>3, <2>4, <2>5
<1>3. TmplPath(a)' /\ TmplProgress(a)'
  BY <1>1, <1>2 DEF TmplPath, TmplProgress, TmplBuilding, B!Locals
<1> QED
  BY <1>1, <1>2, <1>3, TmplQuiet

LEMMA TmplDecides ==
  ASSUME TmplInv, NEW a \in Ops, B!Build(a) \/ B!GetProperty(a) \/ B!Again(a)
  PROVE  TmplInv'
<1>1. loc[a] \in B!Locals /\ TmplPath(a)
  BY DEF TmplInv, B!TypeOK
<1>2. PICK l \in B!Locals :
        /\ loc' = [loc EXCEPT ![a] = l]
        /\ l.cmd = loc[a].cmd /\ l.item = loc[a].item /\ l.retain = loc[a].retain
        /\ l.crossed = loc[a].crossed /\ (B!Again(a) => ~l.built)
  <2>1. CASE B!Build(a)
    <3> DEFINE found == ~loc[a].force /\ B!Mine(a) # Absent
               l == [loc[a] EXCEPT !.built = ~found]
    <3>1. loc' = [loc EXCEPT ![a] = l]
      BY <2>1 DEF B!Build, B!Set
    <3>2. /\ l \in B!Locals /\ l.cmd = loc[a].cmd /\ l.item = loc[a].item
          /\ l.retain = loc[a].retain /\ l.crossed = loc[a].crossed
      BY <1>1 DEF B!Locals
    <3>3. ~B!Again(a)
      BY <2>1 DEF B!Build, B!Again
    <3> QED
      BY <3>1, <3>2, <3>3
  <2>2. CASE B!GetProperty(a)
    <3> DEFINE l == [loc[a] EXCEPT !.built = TRUE]
    <3>1. loc' = [loc EXCEPT ![a] = l]
      BY <2>2 DEF B!GetProperty, B!Set
    <3>2. /\ l \in B!Locals /\ l.cmd = loc[a].cmd /\ l.item = loc[a].item
          /\ l.retain = loc[a].retain /\ l.crossed = loc[a].crossed
      BY <1>1 DEF B!Locals
    <3>3. ~B!Again(a)
      BY <2>2 DEF B!GetProperty, B!Again
    <3> QED
      BY <3>1, <3>2, <3>3
  <2>3. CASE B!Again(a)
    <3>1. PICK force \in BOOLEAN : B!Set(a, [loc[a] EXCEPT !.force = force, !.built = FALSE])
      BY <2>3 DEF B!Again
    <3> DEFINE l == [loc[a] EXCEPT !.force = force, !.built = FALSE]
    <3>2. loc' = [loc EXCEPT ![a] = l]
      BY <3>1 DEF B!Set
    <3>3. /\ l \in B!Locals /\ l.cmd = loc[a].cmd /\ l.item = loc[a].item
          /\ l.retain = loc[a].retain /\ l.crossed = loc[a].crossed /\ ~l.built
      BY <1>1 DEF B!Locals
    <3> QED
      BY <3>2, <3>3
  <2> QED
    BY <2>1, <2>2, <2>3
<1>3. /\ world' = world /\ faults' \in 0..MaxFaults /\ pc' = [pc EXCEPT ![a] = pc'[a]]
      /\ \/ pc[a] = "build" /\ pc'[a] \in {"tag", "clean item", "ova", "failed"}
         \/ pc[a] = "property" /\ pc'[a] \in {"meta", "failed"}
         \/ pc'[a] = loc[a].cmd /\ B!Again(a)
  <2>1. CASE B!Build(a)
    <3>1. PICK next \in {"tag", "clean item", "ova"} : B!Query(a, next, "failed")
      BY <2>1 DEF B!Build
    <3> QED
      BY <2>1, <3>1, TmplQuery DEF B!Build
  <2>2. CASE B!GetProperty(a)
    <3>1. PICK next \in {"meta", "failed"} : B!Query(a, next, "failed")
      BY <2>2 DEF B!GetProperty
    <3> QED
      BY <2>2, <3>1, TmplQuery DEF B!GetProperty
  <2>3. CASE B!Again(a)
    BY <2>3, TmplQuery DEF B!Again
  <2> QED
    BY <2>1, <2>2, <2>3
<1>4. loc'[a] = l
  BY <1>2 DEF TmplInv, B!TypeOK
<1>5. TmplPath(a)' /\ TmplProgress(a)'
  BY <1>1, <1>2, <1>3, <1>4 DEF TmplPath, TmplProgress, TmplBuilding, TmplTagged, B!Locals
<1> QED
  BY <1>2, <1>3, <1>5, TmplQuiet

\* The work on the vApp and its source, from which the items are not made yet.
LEMMA TmplVappStep ==
  ASSUME TmplInv, NEW a \in Ops,
         B!CleanOva(a) \/ B!CleanVapp(a) \/ B!UploadOva(a) \/ B!OldVapp(a) \/ B!CreateVapp(a) \/ B!EndVapp(a)
  PROVE  TmplInv'
<1>1. CASE B!Step(a, "failed") /\ UNCHANGED loc
  BY <1>1, TmplFails
<1>2. ASSUME NEW w \in TmplWorlds, NEW next, B!Change(a, w, next),
             w.legacy = world.legacy, w.item = world.item,
             \/ /\ pc[a] \in {"clean ova", "clean vApp", "ova", "old vApp", "vApp"}
                /\ next \in {"clean vApp", "ova", "old vApp", "vApp", "customize"}
             \/ pc[a] = "end vApp" /\ next = "meta" /\ w.temp = Absent
      PROVE  TmplInv'
  <2>1. TmplChanged(a, w, next)
    BY <1>2, TmplChange
  <2>2. TmplPath(a) /\ loc'[a] = loc[a] /\ loc[a] \in B!Locals
    BY <2>1 DEF TmplInv, TmplChanged, B!TypeOK
  <2>3. TmplPath(a)'
    BY <1>2, <2>1, <2>2 DEF TmplPath, TmplBuilding, TmplChanged, B!Locals
  <2>4. ASSUME ~loc[a].crossed
        PROVE  TmplProgress(a)'
    <3>1. TmplProgress(a)
      BY <2>4 DEF TmplInv
    <3>2. pc'[a] # "failed" => world' = w /\ pc'[a] = next
      BY <2>1 DEF TmplChanged
    <3>3. world'.item = world.item /\ world'.legacy = world.legacy
      BY <1>2, <2>1 DEF TmplChanged
    <3> QED
      BY <1>2, <2>1, <2>2, <3>1, <3>2, <3>3 DEF TmplProgress, TmplTagged, TmplChanged, B!Mine
  <2> QED
    BY <1>2, <2>1, <2>3, <2>4, TmplNoItem
<1> QED
  BY <1>1, <1>2, TmplWorldParts DEF B!CleanOva, B!CleanVapp, B!UploadOva, B!OldVapp, B!CreateVapp, B!EndVapp

\* The calls that change the item of the command.
LEMMA TmplItem ==
  ASSUME TmplInv, NEW a \in Ops, NEW w \in TmplWorlds, NEW next, B!Change(a, w, next),
         w.legacy = world.legacy,
         \A i \in B!Items \ {loc[a].item} : w.item[i] = world.item[i],
         LET i == loc[a].item
         IN  w.item[i] # Absent /\ w.item[i].meta = "stamped" =>
               i \in Imports \/ w.legacy \/ w.item[i].tagged \/ loc[a].crossed
                 \/ w.item[i] = world.item[i],
         pc'[a] \in {next, "failed"} => TmplPath(a)',
         TmplChanged(a, w, next) /\ ~loc[a].crossed => TmplProgress(a)'
  PROVE  TmplInv'
<1>1. TmplChanged(a, w, next)
  BY TmplChange
<1>2. /\ world' \in TmplWorlds /\ world'.legacy = world.legacy /\ loc' \in [Ops -> B!Locals]
      /\ DOMAIN pc' = Ops /\ faults' \in 0..MaxFaults /\ TmplFrame(a)
      /\ loc'[a] = loc[a] /\ world' \in {world, w} /\ pc'[a] \in {next, "failed"}
  BY <1>1 DEF TmplChanged
<1>3. TmplPath(a)' /\ (~loc'[a].crossed => TmplProgress(a)')
  BY <1>1, <1>2
<1>4. ASSUME NEW i \in B!Items
      PROVE  \/ world'.item[i] = world.item[i]
             \/ /\ i = loc[a].item
                /\ world'.item[i] # Absent /\ world'.item[i].meta = "stamped" =>
                     TmplTagged(i)' \/ loc'[a].crossed
  <2>1. CASE world' = world
    BY <2>1
  <2>2. CASE world' = w
    BY <1>2, <2>2 DEF TmplTagged
  <2> QED
    BY <1>2, <2>1, <2>2
<1> QED
  BY <1>2, <1>3, <1>4, TmplKept

LEMMA TmplDeletes ==
  ASSUME TmplInv, NEW a \in Ops, B!CleanItem(a) \/ B!DeleteImport(a)
  PROVE  TmplInv'
<1> DEFINE w == B!SetItem(a, Absent)
           next == IF pc[a] = "delete" THEN "ovf" ELSE "clean ova"
<1>1. B!Change(a, w, next) /\ pc[a] \in {"delete", "clean item"}
  BY DEF B!CleanItem, B!DeleteImport
<1>2. /\ w \in TmplWorlds /\ w.legacy = world.legacy /\ w.item[loc[a].item] = Absent
      /\ \A i \in B!Items \ {loc[a].item} : w.item[i] = world.item[i]
  BY TmplWorldParts
<1>3. TmplChanged(a, w, next)
  <2> HIDE DEF w, next
  <2> QED
    BY <1>1, <1>2, TmplChange
<1>4. TmplPath(a) /\ loc[a] \in B!Locals /\ loc'[a] = loc[a]
  BY <1>3 DEF TmplInv, TmplChanged, B!TypeOK
<1>5. pc'[a] \in {next, "failed"} => TmplPath(a)' /\ TmplProgress(a)'
  BY <1>1, <1>4 DEF TmplPath, TmplProgress, TmplBuilding, B!Locals
<1> HIDE DEF w, next
<1>6. pc'[a] \in {next, "failed"}
  BY <1>3 DEF TmplChanged
<1> QED
  BY <1>1, <1>2, <1>5, <1>6, TmplItem

LEMMA TmplMakes ==
  ASSUME TmplInv, NEW a \in Ops, B!Capture(a) \/ B!UploadOvf(a)
  PROVE  TmplInv'
<1> DEFINE w == IF pc[a] = "capture" \/ B!Mine(a) = Absent THEN B!SetItem(a, B!Captured) ELSE world
           next == IF pc[a] = "capture" THEN "tag" ELSE "property"
<1>1. CASE B!Step(a, "failed") /\ UNCHANGED loc
  BY <1>1, TmplFails
<1>2. CASE B!Change(a, w, next) /\ pc[a] \in {"capture", "ovf"}
  <2>1. /\ w \in TmplWorlds /\ w.legacy = world.legacy
        /\ \A i \in B!Items \ {loc[a].item} : w.item[i] = world.item[i]
        /\ w.item[loc[a].item].meta = "none" \/ w = world
    <3>1. B!Captured \in B!ItemStates \cup {Absent} /\ B!Captured.meta = "none"
      BY DEF B!Captured, B!ItemStates
    <3>2. /\ B!SetItem(a, B!Captured) \in TmplWorlds /\ B!SetItem(a, B!Captured).legacy = world.legacy
          /\ B!SetItem(a, B!Captured).item[loc[a].item] = B!Captured
          /\ \A i \in B!Items \ {loc[a].item} : B!SetItem(a, B!Captured).item[i] = world.item[i]
      BY <3>1, TmplWorldParts
    <3>3. world \in TmplWorlds
      BY DEF TmplInv
    <3> QED
      BY <3>1, <3>2, <3>3
  <2>2. TmplChanged(a, w, next)
    <3> HIDE DEF w, next
    <3> QED
      BY <1>2, <2>1, TmplChange
  <2>3. TmplPath(a) /\ loc[a] \in B!Locals /\ loc'[a] = loc[a]
    BY <2>2 DEF TmplInv, TmplChanged, B!TypeOK
  <2>4. pc'[a] \in {next, "failed"} => TmplPath(a)' /\ TmplProgress(a)'
    BY <1>2, <2>3 DEF TmplPath, TmplProgress, TmplBuilding, B!Locals
  <2> HIDE DEF w, next
  <2>5. pc'[a] \in {next, "failed"}
    BY <2>2 DEF TmplChanged
  <2> QED
    BY <1>2, <2>1, <2>4, <2>5, TmplItem
<1> QED
  BY <1>1, <1>2 DEF B!Capture, B!UploadOvf

LEMMA TmplTags ==
  ASSUME TmplInv, NEW a \in Ops, B!Tag(a)
  PROVE  TmplInv'
<1> DEFINE i == loc[a].item
           s == [B!Mine(a) EXCEPT !.tagged = TRUE]
           w == IF world.legacy THEN world ELSE B!SetItem(a, s)
<1>1. CASE B!Step(a, "failed") /\ UNCHANGED loc
  BY <1>1, TmplFails
<1>2. CASE /\ B!Change(a, w, B!AfterTag(a)) /\ pc[a] = "tag"
           /\ B!Mine(a) = Absent => world.legacy
  <2>1. world \in TmplWorlds /\ i \in B!Items
    BY DEF TmplInv, B!TypeOK, B!Locals
  <2>2. /\ w \in TmplWorlds /\ w.legacy = world.legacy
        /\ \A j \in B!Items \ {i} : w.item[j] = world.item[j]
        /\ w.legacy \/ w.item[i].tagged
    <3>1. CASE world.legacy
      BY <2>1, <3>1
    <3>2. CASE ~world.legacy
      <4>1. B!Mine(a) \in B!ItemStates
        BY <1>2, <2>1, <3>2 DEF B!Mine, TmplWorlds
      <4>2. s \in B!ItemStates \cup {Absent} /\ s.tagged
        BY <4>1 DEF B!ItemStates
      <4> HIDE DEF s
      <4> QED
        BY <3>2, <4>2, TmplWorldParts
    <3> QED
      BY <3>1, <3>2
  <2>3. TmplChanged(a, w, B!AfterTag(a))
    <3> HIDE DEF w
    <3> QED
      BY <1>2, <2>2, TmplChange
  <2> HIDE DEF w
  <2>4. /\ TmplPath(a) /\ loc[a] \in B!Locals /\ loc'[a] = loc[a]
        /\ pc'[a] \in {B!AfterTag(a), "failed"} /\ (pc'[a] # "failed" => world' = w)
    BY <2>3 DEF TmplInv, TmplChanged, B!TypeOK
  <2>5. TmplPath(a)'
    BY <1>2, <2>4 DEF TmplPath, TmplBuilding, B!AfterTag, B!Locals
  <2>6. TmplProgress(a)'
    <3>1. pc'[a] # "failed" => TmplTagged(i)'
      BY <2>2, <2>4 DEF TmplTagged
    <3>2. loc[a].cmd = "install" /\ loc[a].built /\ ~loc[a].retain => pc'[a] \in {"end vApp", "failed"}
      BY <2>4 DEF B!AfterTag
    <3>3. pc'[a] \in {"end vApp", "meta", "failed"}
      BY <2>4 DEF B!AfterTag
    <3> QED
      BY <2>4, <3>1, <3>2, <3>3 DEF TmplProgress
  <2>7. w.item[i] # Absent /\ w.item[i].meta = "stamped" =>
          i \in Imports \/ w.legacy \/ w.item[i].tagged \/ loc[a].crossed
            \/ w.item[i] = world.item[i]
    BY <2>2
  <2> QED
    BY <1>2, <2>2, <2>5, <2>6, <2>7, TmplItem
<1> QED
  BY <1>1, <1>2 DEF B!Tag

LEMMA TmplSaves ==
  ASSUME TmplInv, NEW a \in Ops, B!SaveMetadata(a)
  PROVE  TmplInv'
<1> DEFINE i == loc[a].item
           s == [B!Mine(a) EXCEPT !.meta = "stamped"]
           w == B!SetItem(a, s)
<1>1. CASE B!Step(a, "failed") /\ UNCHANGED loc
  BY <1>1, TmplFails
<1>2. CASE B!Change(a, w, "done") /\ pc[a] = "meta" /\ B!Mine(a) # Absent
  <2>1. world \in TmplWorlds /\ i \in B!Items
    BY DEF TmplInv, B!TypeOK, B!Locals
  <2>2. B!Mine(a) \in B!ItemStates
    BY <1>2, <2>1 DEF B!Mine, TmplWorlds
  <2>3. s \in B!ItemStates /\ s.meta = "stamped" /\ s.tagged = B!Mine(a).tagged
    BY <2>2 DEF B!ItemStates
  <2>4. /\ w \in TmplWorlds /\ w.legacy = world.legacy /\ w.temp = world.temp
        /\ \A j \in B!Items \ {i} : w.item[j] = world.item[j]
        /\ w.item[i] = s
    <3> HIDE DEF s
    <3> QED
      BY <2>3, TmplWorldParts
  <2>5. TmplChanged(a, w, "done")
    <3> HIDE DEF w
    <3> QED
      BY <1>2, <2>4, TmplChange
  <2> HIDE DEF w
  <2>6. /\ TmplPath(a) /\ loc[a] \in B!Locals /\ loc'[a] = loc[a]
        /\ pc'[a] \in {"done", "failed"} /\ (pc'[a] # "failed" => world' = w)
    BY <2>5 DEF TmplInv, TmplChanged, B!TypeOK
  <2>7. TmplPath(a)'
    BY <1>2, <2>6 DEF TmplPath, TmplBuilding, B!Locals
  <2>8. ~loc[a].crossed =>
          /\ i \in Imports \/ w.legacy \/ w.item[i].tagged
          /\ loc[a].cmd = "install" /\ loc[a].built /\ ~loc[a].retain => w.temp = Absent
    <3> SUFFICES ASSUME ~loc[a].crossed
                 PROVE  /\ i \in Imports \/ w.legacy \/ w.item[i].tagged
                        /\ loc[a].cmd = "install" /\ loc[a].built /\ ~loc[a].retain => w.temp = Absent
      OBVIOUS
    <3>1. TmplProgress(a)
      BY DEF TmplInv
    <3>2. TmplTagged(i)
      BY <1>2, <3>1 DEF TmplProgress
    <3> QED
      BY <1>2, <2>3, <2>4, <3>1, <3>2 DEF TmplProgress, TmplTagged, B!Mine
  <2>9. ~loc[a].crossed => TmplProgress(a)'
    <3>1. s # Absent
      BY <2>3, ResourcesAssumption
    <3> QED
      BY <2>3, <2>4, <2>6, <2>8, <3>1 DEF TmplProgress, TmplTagged, B!Mine
  <2>10. w.item[i] # Absent /\ w.item[i].meta = "stamped" =>
          i \in Imports \/ w.legacy \/ w.item[i].tagged \/ loc[a].crossed
            \/ w.item[i] = world.item[i]
    BY <2>8
  <2> HIDE DEF s
  <2> QED
    BY <1>2, <2>4, <2>7, <2>9, <2>10, TmplItem
<1> QED
  BY <1>1, <1>2 DEF B!SaveMetadata

LEMMA TmplNextInv ==
  ASSUME TmplInv, [B!Next]_(B!procedureVars)
  PROVE  TmplInv'
<1>1. CASE UNCHANGED B!procedureVars
  BY <1>1 DEF B!procedureVars, TmplInv, B!TypeOK, TmplPath, TmplProgress, TmplTagged, TmplStamped,
              B!Disputed, B!Mine
<1>2. CASE B!Next
  <2>1. PICK a \in Ops :
          \/ B!Install(a) \/ B!Build(a) \/ B!CleanItem(a) \/ B!CleanOva(a) \/ B!CleanVapp(a)
          \/ B!UploadOva(a) \/ B!OldVapp(a) \/ B!CreateVapp(a) \/ B!Customize(a) \/ B!Capture(a)
          \/ B!Tag(a) \/ B!EndVapp(a) \/ B!SaveMetadata(a)
          \/ B!Import(a) \/ B!Upload(a) \/ B!Exists(a) \/ B!DeleteImport(a) \/ B!UploadOvf(a)
          \/ B!GetProperty(a) \/ B!Again(a)
    BY <1>2 DEF B!Next
  <2> QED
    BY <2>1, TmplLooks, TmplDecides, TmplVappStep, TmplDeletes, TmplMakes, TmplTags, TmplSaves
<1> QED
  BY <1>1, <1>2

LEMMA TmplInitInv == B!Init => TmplInv
<1> SUFFICES ASSUME B!Init PROVE TmplInv
  OBVIOUS
<1>1. /\ world \in TmplWorlds /\ DOMAIN world = {"legacy", "tkgPlus", "item", "ova", "temp"}
      /\ \A i \in B!Items : world.item[i] # Absent /\ world.item[i].meta = "stamped" => TmplTagged(i)
  <2>1. PICK legacy \in BOOLEAN, tkgPlus \in BOOLEAN, temp \in {Absent, "left behind"},
             former \in SUBSET Revisions, made \in SUBSET Revisions :
          /\ ~(legacy /\ tkgPlus) /\ (former = {} \/ made = {})
          /\ world = [legacy |-> legacy, tkgPlus |-> tkgPlus, ova |-> temp # Absent, temp |-> temp,
                      item |-> [i \in B!Items |-> IF i \in former THEN [tagged |-> FALSE, meta |-> "old"]
                                                ELSE IF i \in made
                                                THEN [tagged |-> ~legacy, meta |-> "stamped"]
                                                ELSE Absent]]
    BY Zenon DEF B!Init
  <2>2. /\ world.legacy = legacy /\ world.tkgPlus = tkgPlus /\ world.ova = (temp # Absent)
        /\ world.temp = temp
    BY <2>1
  <2>3. /\ world.item = [i \in B!Items |-> IF i \in former THEN [tagged |-> FALSE, meta |-> "old"]
                                           ELSE IF i \in made THEN [tagged |-> ~legacy, meta |-> "stamped"]
                                           ELSE Absent]
        /\ [tagged |-> FALSE, meta |-> "old"] \in B!ItemStates
        /\ [tagged |-> ~legacy, meta |-> "stamped"] \in B!ItemStates
    BY <2>1 DEF B!ItemStates
  <2>4. world.item \in [B!Items -> B!ItemStates \cup {Absent}]
    BY <2>3
  <2>5. world \in TmplWorlds
    BY <2>1, <2>2, <2>4 DEF TmplWorlds
  <2>6. ASSUME NEW i \in B!Items, world.item[i] # Absent, world.item[i].meta = "stamped"
        PROVE  TmplTagged(i)
    <3> DEFINE st == world.item[i]
    <3>1. st = IF i \in former THEN [tagged |-> FALSE, meta |-> "old"]
               ELSE IF i \in made THEN [tagged |-> ~legacy, meta |-> "stamped"]
               ELSE Absent
      BY <2>3, <2>6
    <3>2. st # Absent /\ st.meta = "stamped" /\ (TmplTagged(i) <=> i \in Imports \/ legacy \/ st.tagged)
      BY <2>2, <2>6 DEF TmplTagged
    <3> HIDE DEF st
    <3>3. i \notin former
      BY <3>1, <3>2
    <3>4. st = [tagged |-> ~legacy, meta |-> "stamped"]
      BY <3>1, <3>2, <3>3
    <3>5. st.tagged <=> ~legacy
      BY <3>4
    <3> QED
      BY <3>2, <3>5
  <2> QED
    BY <2>1, <2>5, <2>6
<1>2. /\ loc \in [Ops -> B!Locals] /\ DOMAIN pc = Ops
      /\ \A a \in Ops :
            /\ pc[a] = loc[a].cmd /\ ~loc[a].built
            /\ loc[a].cmd = "import" => loc[a].item \in Imports
  <2>1. PICK cmd \in {"install", "import"}, item \in [Ops -> B!Items],
             force \in [Ops -> BOOLEAN], retain \in BOOLEAN :
          /\ \A a \in Ops : item[a] \in (IF cmd = "import" THEN Imports ELSE Revisions)
          /\ loc = [a \in Ops |->
                      [cmd |-> cmd, item |-> item[a], force |-> force[a], retain |-> retain,
                       built |-> FALSE, crossed |-> FALSE]]
          /\ pc = [a \in Ops |-> cmd]
    BY DEF B!Init
  <2> QED
    BY <2>1 DEF B!Locals
<1>3. faults \in 0..MaxFaults
  <2>1. faults = 0
    BY Zenon DEF B!Init
  <2> QED
    BY <2>1, ThreadsAssumption
<1>4. B!TypeOK
  BY <1>1, <1>2, <1>3 DEF B!TypeOK, TmplWorlds
<1>5. ASSUME NEW a \in Ops PROVE TmplPath(a) /\ TmplProgress(a)
  <2>1. /\ loc[a] \in B!Locals /\ pc[a] = loc[a].cmd /\ ~loc[a].built
        /\ loc[a].cmd = "import" => loc[a].item \in Imports
    BY <1>2
  <2>2. loc[a].cmd \in {"install", "import"}
    BY <2>1 DEF B!Locals
  <2>3. CASE loc[a].cmd = "install"
    BY <2>1, <2>3 DEF TmplPath, TmplProgress
  <2>4. CASE loc[a].cmd = "import"
    BY <2>1, <2>4 DEF TmplPath, TmplProgress
  <2> QED
    BY <2>2, <2>3, <2>4
<1>6. TmplStamped
  BY <1>1 DEF TmplStamped
<1> QED
  BY <1>1, <1>4, <1>5, <1>6 DEF TmplInv

\* What the invariant says of the templates that are offered and those that were built.
LEMMA TmplAsked ==
  ASSUME TmplInv
  PROVE  B!OfferedAreComplete /\ B!BuiltIsComplete
<1>1. B!OfferedAreComplete
  <2>1. IsFiniteSet(B!Stamped)
    BY ResourcesAssumption, FS_Subset DEF B!Stamped
  <2>2. \A i \in B!Stamped : B!Complete(i) \/ B!Disputed(i)
    <3> SUFFICES ASSUME NEW i \in B!Stamped PROVE B!Complete(i) \/ B!Disputed(i)
      OBVIOUS
    <3>1. i \in B!Items /\ B!HasMetadata(i)
      BY DEF B!Items, B!Stamped
    <3> QED
      BY <3>1 DEF TmplInv, TmplStamped, TmplTagged, B!HasMetadata, B!Complete
  <2>3. ASSUME NEW list \in B!SetToSeqs(B!Stamped)
        PROVE  LET offered == B!get_valid(list, B!Disabled)
               IN  /\ \A i \in offered : B!Complete(i) \/ B!Disputed(i)
                   /\ B!Stamped \ B!Disabled \subseteq offered
                   /\ \A i \in offered \cap B!Disabled :
                        \E n \in 1..(Len(list) - 1) :
                          list[n + 1] = i /\ list[n] \in B!Disabled \ offered
    BY <2>1, <2>2, ValidKeeps DEF Spared
  <2> QED
    BY <2>3 DEF B!OfferedAreComplete
<1>2. B!BuiltIsComplete
  <2> SUFFICES ASSUME NEW a \in Ops, pc[a] = "done", ~loc[a].crossed
               PROVE  /\ loc[a].cmd = "install" \/ loc[a].built =>
                           B!Complete(loc[a].item) /\ world.item[loc[a].item].meta = "stamped"
                      /\ loc[a].cmd = "install" /\ loc[a].built /\ ~loc[a].retain => world.temp = Absent
    BY DEF B!BuiltIsComplete
  <2>1. TmplProgress(a)
    BY DEF TmplInv
  <2> QED
    BY <2>1 DEF TmplProgress, TmplTagged, B!Complete, B!Mine
<1> QED
  BY <1>1, <1>2

-----------------------------------------------------------------------------
(***************************************************************************)
(* PksClusters, for any users: the clusters of Enterprise PKS and their    *)
(* isolation.                                                              *)
(***************************************************************************)
PksWorlds == [clusters : SUBSET P!Clusters, groups : SUBSET P!Groups, sections : SUBSET P!Sections,
              base : 0..Len(P!Base), provider : {"NONE", "PKS"}, keys : SUBSET P!Keys, profile : BOOLEAN,
              stale : SUBSET P!Qualified, raced : SUBSET P!Qualified, blind : SUBSET PksNames,
              used : 0..MaxIds, requests : 0..MaxRequests]

\* Where a request is that makes, or removes, the isolation of a cluster.
PksMakes   == {"groups", "section", "new section", "rule 2", "rule 3"}
PksRemoves == {"remove section", "remove groups"}

\* The request that made a cluster, until it ends and after it succeeded.
PksMaking(a) == loc[a].op = "create" /\ pc[a] \in PksMakes \cup {"done"}

PksPath(a) ==
  /\ pc[a] \in {"create", "add"} \cup PksMakes => loc[a].op = "create"
  /\ loc[a].op = "create" => pc[a] \in {"create", "add", "done", "failed"} \cup PksMakes
  /\ pc[a] \in {"create", "add"} => loc[a].q = [name |-> loc[a].name, user |-> loc[a].user]
  /\ pc[a] = "metadata" => world.profile
  /\ pc[a] \in {"groups"} \cup PksRemoves => loc[a].left \subseteq P!Kinds
  /\ PksMaking(a) => loc[a].id \in 1..world.used

\* No cluster has the name since the search, unless it could not be known.
PksSearched(a) ==
  pc[a] = "add" /\ ~loc[a].crossed => loc[a].name \in world.blind \/ P!Named(loc[a].name) = {}

\* Ids are given once.
PksIds ==
  /\ \A c \in world.clusters : c.id <= world.used
  /\ \A s \in world.sections : s.id <= world.used
  /\ \A c, d \in world.clusters : c.id = d.id => c = d
  /\ \A a, b \in Ops : PksMaking(a) /\ PksMaking(b) /\ loc[a].id = loc[b].id => a = b
  /\ \A a \in Ops, c \in world.clusters : PksMaking(a) /\ loc[a].id = c.id => loc[a].q = c.q

PksGrouped(groups, c, kinds) ==
  \A kind \in kinds : \E g \in groups : g.q = c.q /\ g.id = c.id /\ g.kind = kind
PksSections(c) == {s \in world.sections : s.q = c.q /\ s.id = c.id}

\* How far the request has come that made a cluster.
PksMade(a, c) ==
  /\ pc[a] = "groups" => PksGrouped(world.groups, c, P!Kinds \ loc[a].left)
  /\ pc[a] \in {"section", "new section"} => PksGrouped(world.groups, c, P!Kinds)
  /\ pc[a] \in {"groups", "section", "new section"} => PksSections(c) = {}
  /\ pc[a] = "rule 3" => \E s \in PksSections(c) : "RULE2_NAME" \in s.rules
  /\ pc[a] = "done" => \E s \in PksSections(c) : s.rules = P!Rules

\* The isolation of a cluster is made by the request that made it, and no other works
\* on one of that name.
PksCluster(c) ==
  /\ \A a \in Ops : loc[a].q = c.q /\ pc[a] \in PksMakes \cup PksRemoves =>
       PksMaking(a) /\ loc[a].id = c.id
  /\ c.q \in world.stale \/ \A s \in world.sections : s.q = c.q => s.id = c.id
  /\ PksSections(c) # {} => PksGrouped(world.groups, c, P!Kinds) /\ world.base = Len(P!Base)
  /\ \A a \in Ops : PksMaking(a) /\ loc[a].id = c.id => PksMade(a, c)

PksInv ==
  /\ P!TypeOK /\ world \in PksWorlds
  /\ \A a \in Ops : PksPath(a) /\ PksSearched(a)
  /\ PksIds /\ P!NamesDiffer
  /\ \A c \in world.clusters : ~c.doomed /\ c.q \notin world.raced => PksCluster(c)

\* A step of a, which leaves the requests of others as they are.
PksMoves(a) ==
  /\ DOMAIN pc' = Ops /\ faults' \in 0..MaxFaults /\ loc' \in [Ops -> P!Locals]
  /\ \A b \in Ops \ {a} : pc'[b] = pc[b] /\ loc'[b] = loc[b]

\* A call that changes the world to w and leads to next, or fails.
PksCalled(a, w, next, raised) ==
  /\ DOMAIN pc' = Ops /\ faults' \in 0..MaxFaults
  /\ \A b \in Ops \ {a} : pc'[b] = pc[b]
  /\ pc'[a] \in {next, raised} /\ world' \in {world, w} /\ (pc'[a] # raised => world' = w)

LEMMA PksCalls ==
  ASSUME PksInv, NEW a \in Ops, NEW w, NEW next, NEW raised,
         \/ P!Call(a, w, next, raised)
         \/ w = world /\ P!Query(a, next, raised)
         \/ w = world /\ P!Step(a, next)
  PROVE  PksCalled(a, w, next, raised)
<1>1. DOMAIN pc = Ops /\ faults \in 0..MaxFaults
  BY DEF PksInv, P!TypeOK
<1>2. CASE P!Call(a, w, next, raised)
  BY <1>1, <1>2, ThreadsAssumption DEF P!Call, P!Goto, P!Fault, PksCalled
<1>3. CASE w = world /\ P!Query(a, next, raised)
  BY <1>1, <1>3, ThreadsAssumption DEF P!Query, P!Goto, P!Fault, PksCalled
<1>4. CASE w = world /\ P!Step(a, next)
  BY <1>1, <1>4 DEF P!Step, P!Goto, PksCalled
<1> QED
  BY <1>2, <1>3, <1>4

LEMMA PksSets ==
  ASSUME PksInv, NEW a \in Ops, NEW l \in P!Locals, P!Set(a, l) \/ (UNCHANGED loc /\ l = loc[a])
  PROVE  /\ loc' \in [Ops -> P!Locals] /\ loc'[a] = l
         /\ \A b \in Ops \ {a} : loc'[b] = loc[b]
<1>1. loc \in [Ops -> P!Locals]
  BY DEF PksInv, P!TypeOK
<1> QED
  BY <1>1 DEF P!Set

\* What a step of a must show that does not work on an isolation afterwards.
LEMMA PksRest ==
  ASSUME PksInv, NEW a \in Ops, PksMoves(a), world' \in PksWorlds,
         world'.clusters = world.clusters, world'.groups = world.groups,
         world'.sections = world.sections, world'.used = world.used,
         world'.stale = world.stale, world'.raced = world.raced,
         world.blind \subseteq world'.blind,
         world'.base = world.base \/ world.base # Len(P!Base),
         world.profile => world'.profile, P!Usable' => world'.profile,
         PksPath(a)', PksSearched(a)', pc'[a] \notin PksMakes \cup PksRemoves, ~PksMaking(a)'
  PROVE  PksInv'
<1>1. P!TypeOK'
  BY DEF P!TypeOK, PksWorlds, PksMoves
<1>2. ASSUME NEW b \in Ops \ {a}
      PROVE  /\ pc'[b] = pc[b] /\ loc'[b] = loc[b] /\ (PksMaking(b)' <=> PksMaking(b))
             /\ PksPath(b)' /\ PksSearched(b)'
  <2>1. pc'[b] = pc[b] /\ loc'[b] = loc[b]
    BY DEF PksMoves
  <2>2. PksPath(b) /\ PksSearched(b)
    BY DEF PksInv
  <2>3. PksMaking(b)' <=> PksMaking(b)
    BY <2>1 DEF PksMaking
  <2>4. PksPath(b)'
    BY <2>1, <2>2, <2>3 DEF PksPath
  <2>5. PksSearched(b)'
    BY <2>1, <2>2 DEF PksSearched, P!Named
  <2> QED
    BY <2>1, <2>3, <2>4, <2>5
<1>3. PksIds'
  BY <1>2 DEF PksInv, PksIds
<1>4. P!NamesDiffer'
  BY DEF PksInv, P!NamesDiffer
<1>5. ASSUME NEW c \in world'.clusters, ~c.doomed, c.q \notin world'.raced
      PROVE  PksCluster(c)'
  <2>1. PksCluster(c)
    BY <1>5 DEF PksInv
  <2>2. PksSections(c)' = PksSections(c) /\ \A kinds : PksGrouped(world'.groups, c, kinds) <=> PksGrouped(world.groups, c, kinds)
    BY DEF PksSections, PksGrouped
  <2>3. ASSUME NEW b \in Ops, PksMaking(b)', loc'[b].id = c.id
        PROVE  PksMade(b, c)'
    <3>1. b # a /\ pc'[b] = pc[b] /\ loc'[b] = loc[b] /\ PksMaking(b)
      BY <1>2, <2>3
    <3>2. PksMade(b, c)
      BY <2>1, <2>3, <3>1 DEF PksCluster
    <3> QED
      BY <2>2, <3>1, <3>2 DEF PksMade
  <2>4. ASSUME NEW b \in Ops, loc'[b].q = c.q, pc'[b] \in PksMakes \cup PksRemoves
        PROVE  PksMaking(b)' /\ loc'[b].id = c.id
    <3>1. b # a
      BY <2>4
    <3> QED
      BY <1>2, <2>1, <2>4, <3>1 DEF PksCluster
  <2>5. /\ c.q \in world'.stale \/ \A s \in world'.sections : s.q = c.q => s.id = c.id
        /\ PksSections(c)' # {} => PksGrouped(world'.groups, c, P!Kinds) /\ world'.base = Len(P!Base)
    BY <2>1, <2>2 DEF PksCluster
  <2> QED
    BY <2>3, <2>4, <2>5 DEF PksCluster
<1> QED
  BY <1>1, <1>2, <1>3, <1>4, <1>5 DEF PksInv

\* What its own request must know of a cluster.
PksOwn(a, c) ==
  /\ c.q \in world.stale \/ \A s \in world.sections : s.q = c.q => s.id = c.id
  /\ PksSections(c) # {} => PksGrouped(world.groups, c, P!Kinds) /\ world.base = Len(P!Base)
  /\ PksMade(a, c)

\* What a step of a must show that works on the isolation of the clusters of one name.
LEMMA PksWorks ==
  ASSUME PksInv, NEW a \in Ops, PksMoves(a), world' \in PksWorlds,
         pc[a] \in PksMakes \cup PksRemoves,
         pc'[a] \in PksMakes \cup PksRemoves \cup {"done", "failed"},
         world'.clusters = world.clusters, world'.used = world.used,
         world'.raced = world.raced, world'.blind = world.blind, world'.base = world.base,
         world'.profile = world.profile, P!Usable' = P!Usable,
         \A s \in P!Sections : s.q # loc[a].q => (s \in world'.sections <=> s \in world.sections),
         \A g \in P!Groups : g.q # loc[a].q => (g \in world'.groups <=> g \in world.groups),
         \A q \in P!Qualified : q # loc[a].q => (q \in world'.stale <=> q \in world.stale),
         \A s \in world'.sections : s.id <= world.used,
         loc'[a].op = loc[a].op, loc'[a].q = loc[a].q, loc'[a].id = loc[a].id,
         PksPath(a)', PksMaking(a)' => PksMaking(a),
         \A c \in world.clusters :
           c.q = loc[a].q /\ PksMaking(a) /\ loc[a].id = c.id /\ PksOwn(a, c) => PksOwn(a, c)'
  PROVE  PksInv'
<1>1. P!TypeOK'
  BY DEF P!TypeOK, PksWorlds, PksMoves
<1>2. ASSUME NEW b \in Ops \ {a}
      PROVE  /\ pc'[b] = pc[b] /\ loc'[b] = loc[b] /\ (PksMaking(b)' <=> PksMaking(b))
             /\ PksPath(b)' /\ PksSearched(b)'
  <2>1. pc'[b] = pc[b] /\ loc'[b] = loc[b]
    BY DEF PksMoves
  <2>2. PksPath(b) /\ PksSearched(b)
    BY DEF PksInv
  <2>3. PksMaking(b)' <=> PksMaking(b)
    BY <2>1 DEF PksMaking
  <2>4. PksPath(b)'
    BY <2>1, <2>2, <2>3 DEF PksPath
  <2>5. PksSearched(b)'
    BY <2>1, <2>2 DEF PksSearched, P!Named
  <2> QED
    BY <2>1, <2>3, <2>4, <2>5
<1>3. PksSearched(a)'
  BY DEF PksSearched, PksMakes, PksRemoves
<1>4. PksIds'
  <2>1. \A b \in Ops : PksMaking(b)' => PksMaking(b) /\ loc'[b].id = loc[b].id /\ loc'[b].q = loc[b].q
    BY <1>2
  <2> QED
    BY <2>1 DEF PksInv, PksIds
<1>5. P!NamesDiffer'
  BY DEF PksInv, P!NamesDiffer
<1>6. ASSUME NEW c \in world.clusters, ~c.doomed, c.q \notin world.raced
      PROVE  PksCluster(c)'
  <2>1. PksCluster(c) /\ c \in P!Clusters /\ c.q \in P!Qualified
    BY <1>6 DEF PksInv, P!TypeOK, P!Clusters
  <2>2. CASE c.q # loc[a].q
    <3>1. /\ world.sections \subseteq P!Sections /\ world'.sections \subseteq P!Sections
          /\ world.groups \subseteq P!Groups /\ world'.groups \subseteq P!Groups
      BY <1>1 DEF PksInv, P!TypeOK
    <3>2. PksSections(c)' = PksSections(c)
      BY <2>2, <3>1 DEF PksSections
    <3>3. \A kinds : PksGrouped(world'.groups, c, kinds) <=> PksGrouped(world.groups, c, kinds)
      BY <2>2, <3>1 DEF PksGrouped
    <3>4. c.q \in world'.stale \/ \A s \in world'.sections : s.q = c.q => s.id = c.id
      BY <2>1, <2>2, <3>1 DEF PksCluster
    <3>5. PksSections(c)' # {} => PksGrouped(world'.groups, c, P!Kinds) /\ world'.base = Len(P!Base)
      BY <2>1, <3>2, <3>3 DEF PksCluster
    <3>6. ASSUME NEW b \in Ops, PksMaking(b)', loc'[b].id = c.id
          PROVE  PksMade(b, c)'
      <4>1. PksMaking(b) /\ loc[b].id = c.id
        BY <1>2, <3>6
      <4>2. loc[b].q = c.q
        BY <4>1 DEF PksInv, PksIds
      <4>3. pc'[b] = pc[b] /\ loc'[b] = loc[b]
        BY <1>2, <2>2, <4>2
      <4>4. PksMade(b, c)
        BY <2>1, <4>1 DEF PksCluster
      <4> QED
        BY <3>2, <3>3, <4>3, <4>4 DEF PksMade
    <3>7. ASSUME NEW b \in Ops, loc'[b].q = c.q, pc'[b] \in PksMakes \cup PksRemoves
          PROVE  PksMaking(b)' /\ loc'[b].id = c.id
      <4>1. b # a
        BY <2>2, <3>7
      <4> QED
        BY <1>2, <2>1, <3>7, <4>1 DEF PksCluster
    <3> QED
      BY <3>4, <3>5, <3>6, <3>7 DEF PksCluster
  <2>3. CASE c.q = loc[a].q
    <3>1. PksMaking(a) /\ loc[a].id = c.id
      BY <2>1, <2>3 DEF PksCluster
    <3>2. PksOwn(a, c)
      BY <2>1, <3>1 DEF PksOwn, PksCluster
    <3>3. PksOwn(a, c)'
      BY <2>3, <3>1, <3>2
    <3>4. ASSUME NEW b \in Ops, PksMaking(b)', loc'[b].id = c.id
          PROVE  PksMade(b, c)'
      <4>1. PksMaking(b) /\ loc[b].id = c.id
        BY <1>2, <3>4
      <4>2. b = a
        BY <3>1, <4>1 DEF PksInv, PksIds
      <4> QED
        BY <3>3, <4>2 DEF PksOwn
    <3>5. ASSUME NEW b \in Ops, loc'[b].q = c.q, pc'[b] \in PksMakes \cup PksRemoves
          PROVE  PksMaking(b)' /\ loc'[b].id = c.id
      <4>1. CASE b # a
        BY <1>2, <2>1, <3>5, <4>1 DEF PksCluster
      <4>2. CASE b = a
        <5>1. loc'[a].op = "create"
          BY <3>1 DEF PksMaking
        <5>2. pc'[a] \in PksMakes
          BY <3>5, <4>2, <5>1 DEF PksPath, PksMakes, PksRemoves
        <5> QED
          BY <3>1, <4>2, <5>1, <5>2 DEF PksMaking
      <4> QED
        BY <4>1, <4>2
    <3> QED
      BY <3>3, <3>4, <3>5 DEF PksCluster, PksOwn
  <2> QED
    BY <2>2, <2>3
<1> QED
  BY <1>1, <1>2, <1>3, <1>4, <1>5, <1>6 DEF PksInv

\* Requests that work on no isolation.
LEMMA PksRefused ==
  ASSUME PksInv, NEW a \in Ops, P!Step(a, "failed"), UNCHANGED loc
  PROVE  PksInv'
<1>1. PksCalled(a, world, "failed", "failed") /\ loc[a] \in P!Locals
  BY PksCalls DEF PksInv, P!TypeOK
<1>2. PksMoves(a) /\ world' = world /\ pc'[a] = "failed"
  BY <1>1 DEF PksMoves, PksCalled, PksInv, P!TypeOK
<1>3. /\ world' \in PksWorlds /\ PksPath(a)' /\ PksSearched(a)' /\ ~PksMaking(a)'
      /\ pc'[a] \notin PksMakes \cup PksRemoves
  BY <1>2 DEF PksInv, PksPath, PksSearched, PksMaking, PksMakes, PksRemoves
<1>4. P!Usable' => world'.profile
  BY <1>2 DEF PksInv, P!NamesDiffer, P!Usable
<1> QED
  BY <1>2, <1>3, <1>4, PksRest

LEMMA PksSearch ==
  ASSUME PksInv, NEW a \in Ops, P!SearchFree(a)
  PROVE  PksInv'
<1>1. CASE P!Step(a, "failed")
  BY <1>1, PksRefused DEF P!SearchFree
<1>2. CASE ~P!Step(a, "failed")
  <2>1. /\ pc[a] = "create" /\ loc' = loc
        /\ \/ P!Named(loc[a].name) = {} /\ P!Step(a, "add")
           \/ /\ P!Fault /\ P!Goto(a, "add")
              /\ world' = [world EXCEPT !.blind = @ \cup {loc[a].name}]
    BY <1>2 DEF P!SearchFree
  <2>2. /\ loc \in [Ops -> P!Locals] /\ loc[a] \in P!Locals /\ DOMAIN pc = Ops
        /\ faults \in 0..MaxFaults /\ world \in PksWorlds /\ PksPath(a)
    BY DEF PksInv, P!TypeOK
  <2>3. PksMoves(a) /\ pc'[a] = "add"
    BY <2>1, <2>2, ThreadsAssumption DEF PksMoves, P!Step, P!Goto, P!Fault
  <2>4. loc[a].name \in PksNames
    BY <2>2 DEF P!Locals
  <2>5. /\ world' \in PksWorlds /\ world'.clusters = world.clusters
        /\ world'.groups = world.groups /\ world'.sections = world.sections
        /\ world'.used = world.used /\ world'.stale = world.stale /\ world'.raced = world.raced
        /\ world.blind \subseteq world'.blind /\ world'.base = world.base
        /\ world'.profile = world.profile /\ P!Usable' = P!Usable
        /\ loc[a].name \in world'.blind \/ P!Named(loc[a].name) = {}
    <3>1. CASE P!Step(a, "add") /\ P!Named(loc[a].name) = {}
      BY <2>2, <3>1 DEF P!Step, P!Usable
    <3>2. CASE world' = [world EXCEPT !.blind = @ \cup {loc[a].name}]
      BY <2>2, <2>4, <3>2 DEF PksWorlds, P!Usable
    <3> QED
      BY <2>1, <3>1, <3>2
  <2>6. PksPath(a)' /\ PksSearched(a)' /\ ~PksMaking(a)' /\ pc'[a] \notin PksMakes \cup PksRemoves
    BY <2>1, <2>2, <2>3, <2>5
    DEF PksPath, PksSearched, PksMaking, PksMakes, PksRemoves, P!Named
  <2>7. P!Usable' => world'.profile
    BY <2>5 DEF PksInv, P!NamesDiffer
  <2> QED
    BY <2>3, <2>5, <2>6, <2>7, PksRest
<1> QED
  BY <1>1, <1>2

\* Requests that create no cluster, but for the removal of an isolation.
LEMMA PksPlain ==
  ASSUME PksInv, NEW a \in Ops, NEW w \in PksWorlds, NEW next, NEW l \in P!Locals,
         \/ P!Call(a, w, next, "failed")
         \/ w = world /\ P!Query(a, next, "failed")
         \/ w = world /\ P!Step(a, next),
         P!Set(a, l) \/ (UNCHANGED loc /\ l = loc[a]),
         loc[a].op # "create", l.op # "create",
         next \notin PksMakes \cup PksRemoves \cup {"create", "add"},
         next = "metadata" => w.profile,
         w.clusters = world.clusters, w.groups = world.groups, w.sections = world.sections,
         w.used = world.used, w.stale = world.stale, w.raced = world.raced,
         w.blind = world.blind, w.base = world.base \/ world.base # Len(P!Base),
         world.profile => w.profile, w.provider = "PKS" /\ w.keys = P!Keys => w.profile
  PROVE  PksInv'
<1>1. PksCalled(a, w, next, "failed")
  BY PksCalls
<1>2. /\ loc' \in [Ops -> P!Locals] /\ loc'[a] = l
      /\ \A b \in Ops \ {a} : loc'[b] = loc[b]
  BY PksSets
<1>3. PksMoves(a) /\ world' \in {world, w} /\ pc'[a] \in {next, "failed"}
      /\ (pc'[a] # "failed" => world' = w)
  BY <1>1, <1>2 DEF PksMoves, PksCalled
<1>4. world \in PksWorlds /\ (P!Usable => world.profile)
  BY DEF PksInv, P!NamesDiffer
<1>5. P!Usable' => world'.profile
  BY <1>3, <1>4 DEF P!Usable
<1>6. PksPath(a)' /\ PksSearched(a)' /\ ~PksMaking(a)' /\ pc'[a] \notin PksMakes \cup PksRemoves
  BY <1>2, <1>3 DEF PksPath, PksSearched, PksMaking, PksMakes, PksRemoves
<1> QED
  BY <1>3, <1>4, <1>5, <1>6, PksRest

LEMMA PksFinds ==
  ASSUME PksInv, NEW a \in Ops, P!FindToUse(a) \/ P!FindToDelete(a)
  PROVE  PksInv'
<1> DEFINE next == IF pc[a] = "resize" THEN "check" ELSE "ask"
<1>1. pc[a] \in {"resize", "delete"} /\ P!Find(a, next)
  BY DEF P!FindToUse, P!FindToDelete
<1>2. CASE P!Refused(a)
  BY <1>2, PksRefused DEF P!Refused
<1>3. CASE ~P!Refused(a)
  <2>1. PICK c \in world.clusters : P!Query(a, next, "failed") /\ P!Set(a, [loc[a] EXCEPT !.q = c.q])
    BY <1>1, <1>3 DEF P!Find, P!Named, P!Cluster
  <2> DEFINE l == [loc[a] EXCEPT !.q = c.q]
  <2>2. loc[a] \in P!Locals /\ world \in PksWorlds /\ PksPath(a) /\ c \in P!Clusters
        /\ (P!Usable => world.profile)
    BY DEF PksInv, P!TypeOK, P!NamesDiffer
  <2>3. loc[a].op # "create"
    BY <1>1, <2>2 DEF PksPath, PksMakes
  <2>4. l \in P!Locals /\ l.op = loc[a].op
    BY <2>2 DEF P!Locals, P!Clusters
  <2>5. next \in {"check", "ask"}
    OBVIOUS
  <2> HIDE DEF next, l
  <2>6. P!Query(a, next, "failed") /\ P!Set(a, l)
    BY <2>1 DEF l
  <2>7. next \notin PksMakes \cup PksRemoves \cup {"create", "add", "metadata"}
    BY <2>5 DEF PksMakes, PksRemoves
  <2> QED
    BY <2>2, <2>3, <2>4, <2>6, <2>7, PksPlain DEF P!Usable
<1> QED
  BY <1>2, <1>3

LEMMA PksVdc ==
  ASSUME PksInv, NEW a \in Ops,
         \/ P!UseCluster(a) \/ P!Enable(a) \/ P!CreateProfile(a) \/ P!SetMetadata(a) \/ P!ClearProvider(a)
         \/ P!Setup(a)
  PROVE  PksInv'
<1>1. /\ loc[a] \in P!Locals /\ world \in PksWorlds /\ PksPath(a) /\ (P!Usable => world.profile)
      /\ loc' = loc /\ pc[a] \in {"check", "enable", "profile", "metadata", "keys", "setup"}
  BY DEF PksInv, P!TypeOK, P!NamesDiffer, P!UseCluster, P!Enable, P!CreateProfile, P!SetMetadata, P!ClearProvider, P!Setup
<1>2. loc[a].op # "create"
  BY <1>1 DEF PksPath, PksMakes
<1>3. ASSUME NEW w \in PksWorlds, NEW next,
             \/ P!Call(a, w, next, "failed")
             \/ w = world /\ P!Query(a, next, "failed")
             \/ w = world /\ P!Step(a, next),
             next \in {"done", "failed", "profile", "metadata", "setup"},
             next = "metadata" => w.profile,
             w.clusters = world.clusters, w.groups = world.groups, w.sections = world.sections,
             w.used = world.used, w.stale = world.stale, w.raced = world.raced,
             w.blind = world.blind, w.base = world.base \/ world.base # Len(P!Base),
             world.profile => w.profile, w.provider = "PKS" /\ w.keys = P!Keys => w.profile
      PROVE  PksInv'
  <2>1. next \notin PksMakes \cup PksRemoves \cup {"create", "add"}
    BY <1>3 DEF PksMakes, PksRemoves
  <2> QED
    BY <1>1, <1>2, <1>3, <2>1, PksPlain
<1>4. CASE P!UseCluster(a)
  <2>1. PICK next \in {"done", "failed"} : P!Query(a, next, "failed")
    BY <1>4 DEF P!UseCluster
  <2> QED
    BY <1>1, <1>3, <2>1 DEF P!Usable
<1>5. CASE P!Enable(a)
  <2>1. PICK next \in {"profile", "failed"} : P!Query(a, next, "failed")
    BY <1>5 DEF P!Enable
  <2> QED
    BY <1>1, <1>3, <2>1 DEF P!Usable
<1>6. CASE P!CreateProfile(a)
  <2> DEFINE w == [world EXCEPT !.profile = TRUE]
  <2>1. /\ w \in PksWorlds /\ w.profile
        /\ w.clusters = world.clusters /\ w.groups = world.groups /\ w.sections = world.sections
        /\ w.used = world.used /\ w.stale = world.stale /\ w.raced = world.raced
        /\ w.blind = world.blind /\ w.base = world.base
    BY <1>1 DEF PksWorlds
  <2>2. P!Call(a, w, "metadata", "failed")
    BY <1>6 DEF P!CreateProfile
  <2> HIDE DEF w
  <2> QED
    BY <1>3, <2>1, <2>2
<1>7. CASE P!SetMetadata(a)
  <2> DEFINE w == [world EXCEPT !.provider = "PKS", !.keys = P!Keys]
  <2>1. /\ w \in PksWorlds /\ w.profile = world.profile
        /\ w.clusters = world.clusters /\ w.groups = world.groups /\ w.sections = world.sections
        /\ w.used = world.used /\ w.stale = world.stale /\ w.raced = world.raced
        /\ w.blind = world.blind /\ w.base = world.base
    BY <1>1 DEF PksWorlds
  <2>2. P!Call(a, w, "done", "failed")
    BY <1>7 DEF P!SetMetadata
  <2>3. world.profile
    BY <1>1, <1>7 DEF P!SetMetadata, PksPath
  <2> HIDE DEF w
  <2> QED
    BY <1>3, <2>1, <2>2, <2>3
<1>8. CASE P!ClearProvider(a)
  <2> DEFINE w == [world EXCEPT !.provider = "NONE"]
  <2>1. /\ w \in PksWorlds /\ w.profile = world.profile /\ w.provider = "NONE"
        /\ w.clusters = world.clusters /\ w.groups = world.groups /\ w.sections = world.sections
        /\ w.used = world.used /\ w.stale = world.stale /\ w.raced = world.raced
        /\ w.blind = world.blind /\ w.base = world.base
    BY <1>1 DEF PksWorlds
  <2>2. P!Call(a, w, "done", "failed")
    BY <1>8 DEF P!ClearProvider
  <2> HIDE DEF w
  <2> QED
    BY <1>3, <2>1, <2>2
<1>9. CASE P!Setup(a)
  <2>1. CASE P!Step(a, "done")
    BY <1>1, <1>3, <2>1 DEF P!Usable
  <2>2. CASE ~P!Step(a, "done")
    <3> DEFINE w == [world EXCEPT !.base = @ + 1]
    <3>1. world.base # Len(P!Base) /\ P!Call(a, w, "setup", "failed")
      BY <1>9, <2>2 DEF P!Setup
    <3>2. Len(P!Base) = 5
      BY DEF P!Base
    <3>3. /\ w \in PksWorlds /\ w.profile = world.profile
          /\ w.provider = world.provider /\ w.keys = world.keys
          /\ w.clusters = world.clusters /\ w.groups = world.groups /\ w.sections = world.sections
          /\ w.used = world.used /\ w.stale = world.stale /\ w.raced = world.raced
          /\ w.blind = world.blind
      <4>1. world.base + 1 \in 0..Len(P!Base)
        BY <1>1, <3>1, <3>2 DEF PksWorlds
      <4> QED
        BY <1>1, <4>1 DEF PksWorlds
    <3> HIDE DEF w
    <3> QED
      BY <1>1, <1>3, <3>1, <3>3 DEF P!Usable
  <2> QED
    BY <2>1, <2>2
<1> QED
  BY <1>4, <1>5, <1>6, <1>7, <1>8, <1>9

LEMMA PksDisables ==
  ASSUME PksInv, NEW a \in Ops, P!Disable(a) \/ P!RemoveKey(a)
  PROVE  PksInv'
<1>1. /\ loc[a] \in P!Locals /\ world \in PksWorlds /\ PksPath(a) /\ (P!Usable => world.profile)
      /\ pc[a] \in {"disable", "keys"}
  BY DEF PksInv, P!TypeOK, P!NamesDiffer, P!Disable, P!RemoveKey
<1>2. loc[a].op # "create"
  BY <1>1 DEF PksPath, PksMakes
<1>3. PICK w \in PksWorlds, next \in {"keys", "failed"}, left \in SUBSET (P!Kinds \cup P!Keys) :
        /\ \/ P!Call(a, w, next, "failed")
           \/ w = world /\ P!Query(a, next, "failed")
           \/ w = world /\ P!Step(a, next)
        /\ P!Set(a, [loc[a] EXCEPT !.left = left])
        /\ w.clusters = world.clusters /\ w.groups = world.groups /\ w.sections = world.sections
        /\ w.used = world.used /\ w.stale = world.stale /\ w.raced = world.raced
        /\ w.blind = world.blind /\ w.base = world.base /\ w.profile = world.profile
        /\ w.provider = world.provider /\ (w = world \/ w.keys # P!Keys)
  <2>1. CASE P!Disable(a)
    BY <1>1, <2>1 DEF P!Disable, PksWorlds
  <2>2. CASE P!RemoveKey(a)
    <3>1. PICK key \in loc[a].left :
            /\ IF key \notin world.keys THEN P!Step(a, "failed")
               ELSE P!Call(a, [world EXCEPT !.keys = @ \ {key}], "keys", "failed")
            /\ P!Set(a, [loc[a] EXCEPT !.left = @ \ {key}])
      BY <2>2 DEF P!RemoveKey
    <3> DEFINE w == [world EXCEPT !.keys = @ \ {key}]
               left == loc[a].left \ {key}
    <3>2. left \in SUBSET (P!Kinds \cup P!Keys) /\ [loc[a] EXCEPT !.left = @ \ {key}] = [loc[a] EXCEPT !.left = left]
      BY <1>1 DEF P!Locals
    <3>3. CASE key \notin world.keys
      BY <1>1, <3>1, <3>2, <3>3
    <3>4. CASE key \in world.keys
      <4>1. /\ w \in PksWorlds /\ w.keys # P!Keys
            /\ w.clusters = world.clusters /\ w.groups = world.groups /\ w.sections = world.sections
            /\ w.used = world.used /\ w.stale = world.stale /\ w.raced = world.raced
            /\ w.blind = world.blind /\ w.base = world.base /\ w.profile = world.profile
            /\ w.provider = world.provider
        BY <1>1, <3>4 DEF PksWorlds
      <4>2. P!Call(a, w, "keys", "failed")
        BY <3>1, <3>4
      <4> HIDE DEF w, left
      <4> QED
        BY <3>1, <3>2, <4>1, <4>2
    <3> QED
      BY <3>3, <3>4
  <2> QED
    BY <2>1, <2>2
<1> DEFINE l == [loc[a] EXCEPT !.left = left]
<1>4. l \in P!Locals /\ l.op = loc[a].op
  BY <1>1 DEF P!Locals
<1>5. next \notin PksMakes \cup PksRemoves \cup {"create", "add", "metadata"}
  BY <1>3 DEF PksMakes, PksRemoves
<1>6. w.provider = "PKS" /\ w.keys = P!Keys => w.profile
  BY <1>1, <1>3 DEF P!Usable
<1>7. P!Set(a, l)
  BY <1>3
<1> HIDE DEF l
<1> QED
  BY <1>2, <1>3, <1>4, <1>5, <1>6, <1>7, PksPlain

\* The next request of a user.
LEMMA PksAgain ==
  ASSUME PksInv, NEW a \in Ops, P!Again(a)
  PROVE  PksInv'
<1>1. PICK op \in {"create", "delete", "resize", "disable"}, user \in PksUsers, name \in PksNames :
        /\ P!Set(a, [op |-> op, user |-> user, name |-> name, q |-> [name |-> name, user |-> user],
                   id |-> 0, left |-> {}, crossed |-> FALSE])
        /\ P!Goto(a, op)
  BY DEF P!Again
<1> DEFINE l == [op |-> op, user |-> user, name |-> name, q |-> [name |-> name, user |-> user],
                 id |-> 0, left |-> {}, crossed |-> FALSE]
<1>2. l \in P!Locals
  BY ResourcesAssumption DEF P!Locals, P!Qualified
<1>3. /\ loc' \in [Ops -> P!Locals] /\ loc'[a] = l
      /\ \A b \in Ops \ {a} : loc'[b] = loc[b]
  <2> HIDE DEF l
  <2>1. P!Set(a, l)
    BY <1>1 DEF l
  <2> QED
    BY <1>2, <2>1, PksSets
<1>4. /\ DOMAIN pc = Ops /\ faults \in 0..MaxFaults /\ world \in PksWorlds
      /\ (P!Usable => world.profile)
  BY DEF PksInv, P!TypeOK, P!NamesDiffer
<1>5. PksMoves(a) /\ pc'[a] = op
  BY <1>1, <1>3, <1>4 DEF PksMoves, P!Goto, P!Again
<1>6. world' = [world EXCEPT !.requests = @ + 1] /\ world.requests < MaxRequests
  BY DEF P!Again
<1>7. world.requests + 1 \in 0..MaxRequests
  BY <1>4, <1>6, ResourcesAssumption DEF PksWorlds
<1>8. /\ world' \in PksWorlds /\ world'.clusters = world.clusters
      /\ world'.groups = world.groups /\ world'.sections = world.sections
      /\ world'.used = world.used /\ world'.stale = world.stale /\ world'.raced = world.raced
      /\ world'.blind = world.blind /\ world'.base = world.base
      /\ world'.profile = world.profile /\ P!Usable' = P!Usable
  BY <1>4, <1>6, <1>7 DEF PksWorlds, P!Usable
<1>9. PksPath(a)' /\ PksSearched(a)' /\ ~PksMaking(a)' /\ pc'[a] \notin PksMakes \cup PksRemoves
  <2>1. /\ l.op = op /\ l.q = [name |-> l.name, user |-> l.user]
        /\ pc'[a] \in {"create", "delete", "resize", "disable"}
    BY <1>1, <1>5
  <2> HIDE DEF l
  <2> QED
    BY <1>3, <1>5, <2>1 DEF PksPath, PksSearched, PksMaking, PksMakes, PksRemoves
<1> QED
  BY <1>4, <1>5, <1>8, <1>9, PksRest

\* The isolation: its groups,
LEMMA PksGroups ==
  ASSUME PksInv, NEW a \in Ops, P!MakeGroup(a)
  PROVE  PksInv'
<1>1. /\ loc[a] \in P!Locals /\ world \in PksWorlds /\ PksPath(a) /\ pc[a] = "groups"
      /\ DOMAIN pc = Ops /\ faults \in 0..MaxFaults
  BY DEF PksInv, P!TypeOK, P!MakeGroup
<1>2. PksMaking(a) /\ loc[a].op = "create" /\ loc[a].id \in 1..world.used
  BY <1>1 DEF PksPath, PksMaking, PksMakes
<1>3. PICK kind \in loc[a].left :
        LET others == {g \in world.groups : g.kind # kind \/ g.q # loc[a].q}
            new    == [kind |-> kind, q |-> loc[a].q, id |-> loc[a].id]
        IN  /\ kind = "nodes_pods" => loc[a].left = {kind}
            /\ kind = "nodes" \/ "nodes" \notin loc[a].left
            /\ \/ P!Call(a, [world EXCEPT !.groups = others \cup {new}],
                       IF loc[a].left = {kind} THEN "section" ELSE "groups", "failed")
               \/ world' = [world EXCEPT !.groups = others] /\ P!Goto(a, "failed") /\ P!Fault
            /\ P!Set(a, [loc[a] EXCEPT !.left = @ \ {kind}])
  BY DEF P!MakeGroup
<1> DEFINE others == {g \in world.groups : g.kind # kind \/ g.q # loc[a].q}
           new    == [kind |-> kind, q |-> loc[a].q, id |-> loc[a].id]
           l      == [loc[a] EXCEPT !.left = @ \ {kind}]
           next   == IF loc[a].left = {kind} THEN "section" ELSE "groups"
<1>4. /\ l \in P!Locals /\ l.op = loc[a].op /\ l.q = loc[a].q /\ l.id = loc[a].id
      /\ l.left = loc[a].left \ {kind}
  BY <1>1 DEF P!Locals
<1>5. P!Set(a, l)
  BY <1>3
<1>6. /\ loc' \in [Ops -> P!Locals] /\ loc'[a] = l
      /\ \A b \in Ops \ {a} : loc'[b] = loc[b]
  <2> HIDE DEF l
  <2> QED
    BY <1>4, <1>5, PksSets
<1> HIDE DEF l
<1>7. others \in SUBSET P!Groups /\ others \cup {new} \in SUBSET P!Groups
  <2>1. new \in P!Groups
    BY <1>1, <1>2, ResourcesAssumption DEF PksPath, P!Locals, P!Groups, PksWorlds
  <2> HIDE DEF new
  <2> QED
    BY <1>1, <2>1 DEF PksWorlds
<1>8. PICK groups \in {world.groups, others, others \cup {new}} :
        /\ world' = [world EXCEPT !.groups = groups]
        /\ DOMAIN pc' = Ops /\ faults' \in 0..MaxFaults
        /\ \A b \in Ops \ {a} : pc'[b] = pc[b]
        /\ pc'[a] \in {next, "failed"} /\ (pc'[a] # "failed" => groups = others \cup {new})
  <2> DEFINE w == [world EXCEPT !.groups = others \cup {new}]
  <2>1. CASE P!Call(a, w, next, "failed")
    <3>1. PksCalled(a, w, next, "failed")
      <4> HIDE DEF w, next
      <4> QED
        BY <2>1, PksCalls
    <3>2. world = [world EXCEPT !.groups = world.groups]
      BY <1>1 DEF PksWorlds
    <3> HIDE DEF next, others, new
    <3> QED
      BY <3>1, <3>2 DEF PksCalled
  <2>2. CASE world' = [world EXCEPT !.groups = others] /\ P!Goto(a, "failed") /\ P!Fault
    <3> HIDE DEF next, others, new
    <3> QED
      BY <1>1, <2>2, ThreadsAssumption DEF P!Goto, P!Fault
  <2> QED
    BY <1>3, <2>1, <2>2
<1>9. groups \in SUBSET P!Groups
  <2> HIDE DEF others, new
  <2> QED
    BY <1>1, <1>7 DEF PksWorlds
<1>10. /\ world' \in PksWorlds /\ world'.groups = groups
       /\ world'.clusters = world.clusters /\ world'.used = world.used
       /\ world'.raced = world.raced /\ world'.blind = world.blind /\ world'.base = world.base
       /\ world'.profile = world.profile /\ P!Usable' = P!Usable /\ world'.sections = world.sections
       /\ world'.stale = world.stale
  <2> HIDE DEF others, new, next
  <2> QED
    BY <1>1, <1>8, <1>9 DEF PksWorlds, P!Usable
<1>11. pc'[a] \in {"groups", "section", "failed"} /\ PksMoves(a)
  <2>1. PksMoves(a)
    <3> HIDE DEF others, new, next
    <3> QED
      BY <1>6, <1>8 DEF PksMoves
  <2> QED
    BY <1>8, <2>1
<1>12. PksPath(a)' /\ PksMaking(a)
  BY <1>1, <1>2, <1>4, <1>6, <1>10, <1>11 DEF PksPath, PksMaking, PksMakes, PksRemoves
<1>13. \A g \in P!Groups : g.q # loc[a].q => (g \in groups <=> g \in world.groups)
  BY <1>8
<1>14. ASSUME NEW c \in world.clusters, c.q = loc[a].q, loc[a].id = c.id, PksOwn(a, c)
       PROVE  PksOwn(a, c)'
  <2>1. PksSections(c) = {} /\ PksGrouped(world.groups, c, P!Kinds \ loc[a].left)
    BY <1>1, <1>14 DEF PksOwn, PksMade
  <2>2. PksSections(c)' = {}
    BY <1>10, <2>1 DEF PksSections
  <2>3. c.q \in world'.stale \/ \A s \in world'.sections : s.q = c.q => s.id = c.id
    BY <1>10, <1>14 DEF PksOwn
  <2>4. pc'[a] # "failed" => PksGrouped(world'.groups, c, (P!Kinds \ loc[a].left) \cup {kind})
    <3> SUFFICES ASSUME pc'[a] # "failed", NEW k \in (P!Kinds \ loc[a].left) \cup {kind}
                 PROVE  \E g \in world'.groups : g.q = c.q /\ g.id = c.id /\ g.kind = k
      BY DEF PksGrouped
    <3>1. world'.groups = others \cup {new}
      BY <1>8, <1>10
    <3>2. CASE k = kind
      <4>1. new.kind = kind /\ new.q = c.q /\ new.id = c.id
        BY <1>14
      <4> HIDE DEF new, others
      <4> QED
        BY <3>1, <3>2, <4>1
    <3>3. CASE k # kind
      <4>1. PICK g \in world.groups : g.q = c.q /\ g.id = c.id /\ g.kind = k
        BY <2>1, <3>3 DEF PksGrouped
      <4> QED
        BY <3>1, <3>3, <4>1
    <3> QED
      BY <3>2, <3>3
  <2>5. CASE pc'[a] = "groups"
    <3>1. PksGrouped(world'.groups, c, P!Kinds \ loc'[a].left)
      BY <1>4, <1>6, <2>4, <2>5 DEF PksGrouped
    <3> QED
      BY <2>2, <2>3, <2>5, <3>1 DEF PksOwn, PksMade
  <2>6. CASE pc'[a] = "section"
    <3>1. loc[a].left = {kind}
      BY <1>8, <2>6
    <3>2. PksGrouped(world'.groups, c, P!Kinds)
      BY <2>4, <2>6, <3>1 DEF PksGrouped
    <3> QED
      BY <2>2, <2>3, <2>6, <3>2 DEF PksOwn, PksMade
  <2>7. CASE pc'[a] = "failed"
    BY <2>2, <2>3, <2>7 DEF PksOwn, PksMade
  <2> QED
    BY <1>11, <2>5, <2>6, <2>7
<1>15. /\ loc'[a].op = loc[a].op /\ loc'[a].q = loc[a].q /\ loc'[a].id = loc[a].id
       /\ pc[a] \in PksMakes \cup PksRemoves
       /\ pc'[a] \in PksMakes \cup PksRemoves \cup {"done", "failed"}
       /\ \A s \in world'.sections : s.id <= world.used
  BY <1>1, <1>4, <1>6, <1>10, <1>11 DEF PksInv, PksIds, PksMakes
<1> HIDE DEF others, new, next
<1> QED
  BY <1>10, <1>11, <1>12, <1>13, <1>14, <1>15, PksWorks

\* its section,
LEMMA PksSection ==
  ASSUME PksInv, NEW a \in Ops, P!DropSection(a) \/ P!NewSection(a) \/ P!RemoveSection(a)
  PROVE  PksInv'
<1>1. CASE P!Step(a, "failed") /\ UNCHANGED loc
  BY <1>1, PksRefused
<1>2. CASE ~(P!Step(a, "failed") /\ UNCHANGED loc)
  <2>1. /\ loc[a] \in P!Locals /\ world \in PksWorlds /\ PksPath(a) /\ UNCHANGED loc
        /\ \A s \in world.sections : s.id <= world.used
    BY DEF PksInv, PksIds, P!TypeOK, P!DropSection, P!NewSection, P!RemoveSection
  <2> DEFINE new == [q |-> loc[a].q, id |-> loc[a].id, rules |-> {}]
             others == {s \in world.sections : s.q # loc[a].q}
  <2>2. PICK sections \in SUBSET P!Sections, stale \in {world.stale, world.stale \ {loc[a].q}},
             next \in {"new section", "rule 2", "remove groups"}, raised \in {"failed", "done"} :
          /\ P!Call(a, [world EXCEPT !.sections = sections, !.stale = stale], next, raised)
          /\ \/ /\ pc[a] = "section" /\ next = "new section" /\ raised = "failed"
                /\ sections = others
             \/ /\ pc[a] = "new section" /\ next = "rule 2" /\ raised = "failed"
                /\ sections = world.sections \cup {new} /\ stale = world.stale
                /\ world.base = Len(P!Base) /\ loc[a].id <= world.used
             \/ /\ pc[a] = "remove section" /\ next = "remove groups" /\ raised = "done"
                /\ sections = others /\ stale = world.stale
    <3>1. others \in SUBSET P!Sections /\ world.sections \in SUBSET P!Sections
      BY <2>1 DEF PksWorlds
    <3>2. CASE P!DropSection(a)
      <4>1. [world EXCEPT !.sections = {s \in @ : s.q # loc[a].q}, !.stale = @ \ {loc[a].q}]
              = [world EXCEPT !.sections = others, !.stale = world.stale \ {loc[a].q}]
        BY <2>1 DEF PksWorlds
      <4> HIDE DEF others, new
      <4> QED
        BY <3>1, <3>2, <4>1 DEF P!DropSection, others
    <3>3. CASE P!NewSection(a)
      <4>1. [world EXCEPT !.sections = @ \cup {new}]
              = [world EXCEPT !.sections = world.sections \cup {new}, !.stale = world.stale]
        BY <2>1 DEF PksWorlds
      <4>2. loc[a].id \in 1..world.used
        BY <2>1, <3>3 DEF PksPath, PksMaking, PksMakes, P!NewSection
      <4>3. new \in P!Sections
        BY <2>1, <4>2, ResourcesAssumption DEF P!Sections, P!Locals, PksWorlds
      <4>4. loc[a].id <= world.used
        BY <2>1, <4>2, ResourcesAssumption DEF PksWorlds
      <4>5. /\ pc[a] = "new section" /\ world.base = Len(P!Base)
            /\ P!Call(a, [world EXCEPT !.sections = @ \cup {new}], "rule 2", "failed")
        BY <1>2, <3>3 DEF P!NewSection
      <4> HIDE DEF others, new
      <4> QED
        BY <3>1, <4>1, <4>3, <4>4, <4>5
    <3>4. CASE P!RemoveSection(a)
      <4>1. [world EXCEPT !.sections = {s \in @ : s.q # loc[a].q}]
              = [world EXCEPT !.sections = others, !.stale = world.stale]
        BY <2>1 DEF PksWorlds
      <4> HIDE DEF others, new
      <4> QED
        BY <3>1, <3>4, <4>1 DEF P!RemoveSection, others
    <3> QED
      BY <3>2, <3>3, <3>4
  <2> DEFINE w == [world EXCEPT !.sections = sections, !.stale = stale]
  <2>3. /\ w \in PksWorlds /\ w.sections = sections /\ w.stale = stale
        /\ w.groups = world.groups /\ w.provider = world.provider /\ w.keys = world.keys
        /\ w.clusters = world.clusters /\ w.used = world.used /\ w.raced = world.raced
        /\ w.blind = world.blind /\ w.base = world.base /\ w.profile = world.profile
    <3> HIDE DEF others, new
    <3>1. stale \in SUBSET P!Qualified
      BY <2>1 DEF PksWorlds
    <3> QED
      BY <2>1, <3>1 DEF PksWorlds
  <2>4. PksCalled(a, w, next, raised)
    <3> HIDE DEF w, others, new
    <3> QED
      BY <2>2, PksCalls DEF w
  <2> HIDE DEF w
  <2>5. PksMoves(a) /\ world' \in {world, w} /\ pc'[a] \in {next, raised}
        /\ (pc'[a] # raised => world' = w)
    BY <2>1, <2>4 DEF PksMoves, PksCalled, PksInv, P!TypeOK
  <2>6. /\ world' \in PksWorlds /\ world'.groups = world.groups
        /\ world'.clusters = world.clusters /\ world'.used = world.used
        /\ world'.raced = world.raced /\ world'.blind = world.blind /\ world'.base = world.base
        /\ world'.profile = world.profile /\ P!Usable' = P!Usable
        /\ world'.sections \in {world.sections, sections} /\ world'.stale \in {world.stale, stale}
        /\ world' = world \/ (world'.sections = sections /\ world'.stale = stale)
    BY <2>1, <2>3, <2>5 DEF P!Usable
  <2>7. /\ pc[a] \in PksMakes \cup PksRemoves
        /\ pc'[a] \in PksMakes \cup PksRemoves \cup {"done", "failed"}
        /\ PksPath(a)' /\ (PksMaking(a)' => PksMaking(a))
    BY <2>1, <2>2, <2>5, <2>6 DEF PksPath, PksMaking, PksMakes, PksRemoves
  <2>8. /\ \A s \in P!Sections : s.q # loc[a].q => (s \in world'.sections <=> s \in world.sections)
        /\ \A q \in P!Qualified : q # loc[a].q => (q \in world'.stale <=> q \in world.stale)
        /\ \A s \in world'.sections : s.id <= world.used
    <3>0. new.q = loc[a].q /\ new.id = loc[a].id
      OBVIOUS
    <3> HIDE DEF new
    <3>1. \A s \in sections : s.q # loc[a].q => s \in world.sections
      BY <2>2, <3>0
    <3>2. \A s \in world.sections : s.q # loc[a].q => s \in sections
      BY <2>2, <3>0
    <3>3. \A s \in sections : s.id <= world.used
      BY <2>1, <2>2, <3>0
    <3> QED
      BY <2>1, <2>2, <2>6, <3>1, <3>2, <3>3
  <2>9. ASSUME NEW c \in world.clusters, c.q = loc[a].q, PksMaking(a), loc[a].id = c.id,
               PksOwn(a, c)
        PROVE  PksOwn(a, c)'
    <3>1. \A kinds : PksGrouped(world'.groups, c, kinds) <=> PksGrouped(world.groups, c, kinds)
      BY <2>6 DEF PksGrouped
    <3>2. CASE pc[a] = "section"
      <4>1. PksSections(c) = {} /\ PksGrouped(world.groups, c, P!Kinds)
        BY <2>9, <3>2 DEF PksOwn, PksMade
      <4>2. sections = others /\ next = "new section" /\ raised = "failed"
        BY <2>2, <3>2
      <4>3. PksSections(c)' = {}
        <5>1. CASE world' = world
          BY <4>1, <5>1 DEF PksSections
        <5>2. CASE world'.sections = sections
          BY <2>9, <4>2, <5>2 DEF PksSections
        <5> QED
          BY <2>6, <5>1, <5>2
      <4>4. c.q \in world'.stale \/ \A s \in world'.sections : s.q = c.q => s.id = c.id
        <5>1. CASE world' = world
          BY <2>9, <5>1 DEF PksOwn
        <5>2. CASE world'.sections = sections
          BY <2>9, <4>2, <5>2
        <5> QED
          BY <2>6, <5>1, <5>2
      <4>5. pc'[a] \in {"new section", "failed"}
        BY <2>5, <4>2
      <4> QED
        BY <3>1, <4>1, <4>3, <4>4, <4>5 DEF PksOwn, PksMade
    <3>3. CASE pc[a] = "new section"
      <4>1. /\ PksSections(c) = {} /\ PksGrouped(world.groups, c, P!Kinds)
            /\ c.q \in world.stale \/ \A s \in world.sections : s.q = c.q => s.id = c.id
        BY <2>9, <3>3 DEF PksOwn, PksMade
      <4>2. /\ sections = world.sections \cup {new} /\ stale = world.stale /\ world.base = Len(P!Base)
            /\ next = "rule 2" /\ raised = "failed"
        BY <2>2, <3>3
      <4>0. new.id = c.id
        BY <2>9
      <4> HIDE DEF new
      <4>3. c.q \in world'.stale \/ \A s \in world'.sections : s.q = c.q => s.id = c.id
        BY <2>6, <2>9, <4>0, <4>1, <4>2
      <4>4. pc'[a] \in {"rule 2", "failed"}
        BY <2>5, <4>2
      <4> QED
        BY <2>6, <3>1, <4>1, <4>2, <4>3, <4>4 DEF PksOwn, PksMade
    <3>4. CASE pc[a] = "remove section"
      BY <2>9, <3>4 DEF PksMaking, PksMakes
    <3> QED
      BY <2>2, <3>2, <3>3, <3>4
  <2> HIDE DEF others, new
  <2> QED
    BY <2>1, <2>5, <2>6, <2>7, <2>8, <2>9, PksWorks
<1> QED
  BY <1>1, <1>2

\* the rules of the section,
LEMMA PksRule ==
  ASSUME PksInv, NEW a \in Ops, P!AllowRule(a) \/ P!BlockRule(a)
  PROVE  PksInv'
<1>1. /\ loc[a] \in P!Locals /\ world \in PksWorlds /\ PksPath(a)
      /\ \A s \in world.sections : s.id <= world.used
  BY DEF PksInv, PksIds, P!TypeOK
<1> DEFINE mine == {s \in world.sections : s.q = loc[a].q /\ s.id = loc[a].id}
<1>2. PICK added \in P!Rules, next \in {"rule 3", "done"} :
        /\ P!AddRule(a, added, next)
        /\ \/ pc[a] = "rule 2" /\ added = "RULE2_NAME" /\ next = "rule 3"
           \/ pc[a] = "rule 3" /\ added = "RULE3_NAME" /\ next = "done"
  BY DEF P!AllowRule, P!BlockRule, P!Rules
<1>3. CASE mine = {}
  BY <1>2, <1>3, PksRefused DEF P!AddRule, P!Refused
<1>4. CASE mine # {}
  <2> DEFINE With(s) == IF s \in mine THEN [s EXCEPT !.rules = @ \cup {added}] ELSE s
             sections == {With(s) : s \in world.sections}
             w == [world EXCEPT !.sections = sections]
  <2>1. ASSUME NEW s \in world.sections
        PROVE  /\ With(s) \in P!Sections /\ With(s).q = s.q /\ With(s).id = s.id
               /\ s.rules \subseteq With(s).rules
               /\ s \in mine => added \in With(s).rules
    <3>1. s \in P!Sections
      BY <1>1 DEF PksWorlds
    <3> HIDE DEF mine
    <3> QED
      BY <3>1 DEF P!Sections
  <2>2. P!Call(a, w, next, "failed") /\ UNCHANGED loc
    BY <1>1, <1>2, <1>4 DEF P!AddRule, PksWorlds
  <2> HIDE DEF With
  <2>3. sections \in SUBSET P!Sections
    BY <2>1
  <2>4. /\ w \in PksWorlds /\ w.sections = sections /\ w.stale = world.stale
        /\ w.groups = world.groups /\ w.provider = world.provider /\ w.keys = world.keys
        /\ w.clusters = world.clusters /\ w.used = world.used /\ w.raced = world.raced
        /\ w.blind = world.blind /\ w.base = world.base /\ w.profile = world.profile
    <3> HIDE DEF sections
    <3> QED
      BY <1>1, <2>3 DEF PksWorlds
  <2> HIDE DEF w
  <2>5. PksCalled(a, w, next, "failed")
    BY <2>2, PksCalls
  <2>6. /\ PksMoves(a) /\ world' \in {world, w} /\ pc'[a] \in {next, "failed"}
        /\ (pc'[a] # "failed" => world' = w)
    BY <2>2, <2>5 DEF PksMoves, PksCalled, PksInv, P!TypeOK
  <2>7. /\ world' \in PksWorlds /\ world'.groups = world.groups
        /\ world'.clusters = world.clusters /\ world'.used = world.used
        /\ world'.raced = world.raced /\ world'.blind = world.blind /\ world'.base = world.base
        /\ world'.profile = world.profile /\ P!Usable' = P!Usable /\ world'.stale = world.stale
        /\ world'.sections \in {world.sections, sections}
        /\ (pc'[a] # "failed" => world'.sections = sections)
    <3> HIDE DEF sections
    <3> QED
      BY <1>1, <2>4, <2>6 DEF P!Usable
  <2>8. /\ pc[a] \in PksMakes \cup PksRemoves
        /\ pc'[a] \in PksMakes \cup PksRemoves \cup {"done", "failed"}
        /\ PksPath(a)' /\ PksMaking(a) /\ UNCHANGED loc
    <3>1. pc[a] \in {"rule 2", "rule 3"} /\ pc'[a] \in {"rule 3", "done", "failed"} /\ UNCHANGED loc
      BY <1>2, <2>2, <2>6
    <3> QED
      BY <1>1, <2>7, <3>1 DEF PksPath, PksMaking, PksMakes, PksRemoves
  <2>9. /\ \A s \in P!Sections : s.q # loc[a].q => (s \in sections <=> s \in world.sections)
        /\ \A s \in sections : s.id <= world.used
    <3>1. \A s \in world.sections : s.q # loc[a].q => With(s) = s
      BY DEF With
    <3> HIDE DEF mine
    <3> QED
      BY <1>1, <2>1, <3>1
  <2>10. ASSUME NEW c \in world.clusters, c.q = loc[a].q, loc[a].id = c.id, PksOwn(a, c)
         PROVE  PksOwn(a, c)'
    <3>1. mine = PksSections(c)
      BY <2>10 DEF PksSections
    <3>0. sections = {With(s) : s \in world.sections}
      OBVIOUS
    <3> HIDE DEF mine, sections
    <3>2. /\ \A kinds : PksGrouped(world'.groups, c, kinds) <=> PksGrouped(world.groups, c, kinds)
          /\ PksGrouped(world.groups, c, P!Kinds) /\ world.base = Len(P!Base)
      BY <1>4, <2>7, <2>10, <3>1 DEF PksGrouped, PksOwn
    <3>3. c.q \in world'.stale \/ \A s \in world'.sections : s.q = c.q => s.id = c.id
      <4>1. c.q \in world.stale \/ \A s \in world.sections : s.q = c.q => s.id = c.id
        BY <2>10 DEF PksOwn
      <4>2. CASE world'.sections = sections
        <5>1. ASSUME NEW t \in sections, t.q = c.q, c.q \notin world.stale
              PROVE  t.id = c.id
          <6>1. PICK s \in world.sections : t = With(s)
            BY <3>0, <5>1
          <6>2. t.q = s.q /\ t.id = s.id
            BY <2>1, <6>1
          <6> QED
            BY <4>1, <5>1, <6>2
        <5> QED
          BY <2>7, <4>2, <5>1
      <4>3. CASE world'.sections = world.sections
        BY <2>7, <4>1, <4>3
      <4> QED
        BY <2>7, <4>2, <4>3
    <3>4. ASSUME pc'[a] = "rule 3"
          PROVE  \E s \in PksSections(c)' : "RULE2_NAME" \in s.rules
      <4>1. PICK s \in PksSections(c) : TRUE
        BY <1>4, <3>1
      <4>2. added = "RULE2_NAME" /\ world'.sections = sections
        BY <1>2, <2>6, <2>7, <3>4
      <4>3. s \in world.sections /\ s.q = c.q /\ s.id = c.id /\ s \in mine
        BY <3>1, <4>1 DEF PksSections
      <4>4. With(s) \in sections /\ With(s).q = c.q /\ With(s).id = c.id /\ "RULE2_NAME" \in With(s).rules
        BY <2>1, <3>0, <4>2, <4>3
      <4>5. With(s) \in PksSections(c)'
        BY <4>2, <4>4 DEF PksSections
      <4> QED
        BY <4>4, <4>5
    <3>5. ASSUME pc'[a] = "done"
          PROVE  \E s \in PksSections(c)' : s.rules = P!Rules
      <4>1. pc[a] = "rule 3" /\ added = "RULE3_NAME" /\ world'.sections = sections
        BY <1>2, <2>6, <2>7, <3>5
      <4>2. PICK s \in PksSections(c) : "RULE2_NAME" \in s.rules
        BY <2>10, <4>1 DEF PksOwn, PksMade
      <4>3. s \in world.sections /\ s.q = c.q /\ s.id = c.id /\ s \in mine
        BY <3>1, <4>2 DEF PksSections
      <4>4. With(s).rules = P!Rules
        <5>1. With(s) \in P!Sections /\ "RULE2_NAME" \in With(s).rules /\ "RULE3_NAME" \in With(s).rules
          BY <2>1, <4>1, <4>2, <4>3
        <5>2. With(s).rules \in SUBSET {"RULE2_NAME", "RULE3_NAME"}
          BY <5>1 DEF P!Sections, P!Rules
        <5> QED
          BY <5>1, <5>2 DEF P!Rules
      <4>5. With(s) \in sections /\ With(s).q = c.q /\ With(s).id = c.id
        BY <2>1, <3>0, <4>3
      <4>6. With(s) \in PksSections(c)'
        BY <4>1, <4>5 DEF PksSections
      <4> QED
        BY <4>4, <4>6
    <3>6. pc'[a] \in {"rule 3", "done", "failed"}
      BY <2>6
    <3> QED
      BY <3>2, <3>3, <3>4, <3>5, <3>6, <2>7 DEF PksOwn, PksMade
  <2>11. /\ \A s \in P!Sections : s.q # loc[a].q => (s \in world'.sections <=> s \in world.sections)
         /\ \A s \in world'.sections : s.id <= world.used
    <3> HIDE DEF sections
    <3> QED
      BY <1>1, <2>7, <2>9
  <2> HIDE DEF mine, sections
  <2> QED
    BY <2>6, <2>7, <2>8, <2>10, <2>11, PksWorks
<1> QED
  BY <1>3, <1>4

\* and the groups again, which a deletion removes.
LEMMA PksUngroups ==
  ASSUME PksInv, NEW a \in Ops, P!RemoveGroup(a)
  PROVE  PksInv'
<1>1. /\ loc[a] \in P!Locals /\ world \in PksWorlds /\ PksPath(a) /\ pc[a] = "remove groups"
      /\ \A s \in world.sections : s.id <= world.used
  BY DEF PksInv, PksIds, P!TypeOK, P!RemoveGroup
<1>2. PICK kind \in loc[a].left, next \in {"done", "remove groups"} :
        /\ P!Call(a, [world EXCEPT !.groups = {g \in @ : g.kind # kind \/ g.q # loc[a].q}], next, "done")
        /\ P!Set(a, [loc[a] EXCEPT !.left = @ \ {kind}])
  BY DEF P!RemoveGroup
<1> DEFINE groups == {g \in world.groups : g.kind # kind \/ g.q # loc[a].q}
           w == [world EXCEPT !.groups = groups]
           l == [loc[a] EXCEPT !.left = @ \ {kind}]
<1>3. P!Call(a, w, next, "done")
  BY <1>1, <1>2 DEF PksWorlds
<1>4. /\ l \in P!Locals /\ l.op = loc[a].op /\ l.q = loc[a].q /\ l.id = loc[a].id
      /\ l.left \subseteq loc[a].left
  BY <1>1 DEF P!Locals
<1>5. /\ groups \in SUBSET P!Groups
      /\ \A g \in P!Groups : g.q # loc[a].q => (g \in groups <=> g \in world.groups)
  BY <1>1 DEF PksWorlds
<1> HIDE DEF groups
<1>6. /\ w \in PksWorlds /\ w.sections = world.sections /\ w.stale = world.stale
      /\ w.groups = groups /\ w.provider = world.provider /\ w.keys = world.keys
      /\ w.clusters = world.clusters /\ w.used = world.used /\ w.raced = world.raced
      /\ w.blind = world.blind /\ w.base = world.base /\ w.profile = world.profile
  BY <1>1, <1>5 DEF PksWorlds
<1> HIDE DEF w
<1>7. P!Set(a, l)
  BY <1>2
<1> HIDE DEF l
<1>8. /\ loc' \in [Ops -> P!Locals] /\ loc'[a] = l
      /\ \A b \in Ops \ {a} : loc'[b] = loc[b]
  BY <1>4, <1>7, PksSets
<1>9. PksCalled(a, w, next, "done")
  BY <1>3, PksCalls
<1>10. PksMoves(a) /\ world' \in {world, w} /\ pc'[a] \in {"done", "remove groups"}
  BY <1>8, <1>9 DEF PksMoves, PksCalled
<1>11. /\ world' \in PksWorlds /\ world'.sections = world.sections
       /\ world'.clusters = world.clusters /\ world'.used = world.used
       /\ world'.raced = world.raced /\ world'.blind = world.blind /\ world'.base = world.base
       /\ world'.profile = world.profile /\ P!Usable' = P!Usable /\ world'.stale = world.stale
       /\ \A g \in P!Groups : g.q # loc[a].q => (g \in world'.groups <=> g \in world.groups)
  BY <1>1, <1>5, <1>6, <1>10 DEF P!Usable
<1>12. /\ pc[a] \in PksMakes \cup PksRemoves
       /\ pc'[a] \in PksMakes \cup PksRemoves \cup {"done", "failed"}
       /\ PksPath(a)' /\ ~PksMaking(a) /\ ~PksMaking(a)'
  BY <1>1, <1>4, <1>8, <1>10 DEF PksPath, PksMaking, PksMakes, PksRemoves
<1> QED
  BY <1>1, <1>4, <1>8, <1>10, <1>11, <1>12, PksWorks

\* The clusters: what steps must show that make none, but may doom or delete some.
LEMMA PksShrinks ==
  ASSUME PksInv, P!TypeOK', world' \in PksWorlds, NEW movers \in SUBSET Ops,
         world'.groups = world.groups, world'.sections = world.sections,
         world'.used = world.used, world'.stale = world.stale, world'.raced = world.raced,
         world'.blind = world.blind, world'.base = world.base,
         world'.profile = world.profile, P!Usable' = P!Usable,
         \A c \in world'.clusters :
           \/ c \in world.clusters
           \/ c.doomed /\ \E d \in world.clusters : d.id = c.id /\ d.q = c.q,
         \A c, d \in world'.clusters : c.id = d.id => c = d,
         \A b \in Ops \ movers :
           /\ pc'[b] = pc[b] /\ loc'[b].op = loc[b].op /\ loc'[b].user = loc[b].user
           /\ loc'[b].name = loc[b].name /\ loc'[b].q = loc[b].q /\ loc'[b].id = loc[b].id
           /\ loc'[b].left = loc[b].left /\ (loc[b].crossed => loc'[b].crossed),
         \A b \in movers :
           /\ PksPath(b)' /\ ~PksMaking(b)' /\ pc'[b] # "add"
           /\ pc'[b] \in PksMakes \cup PksRemoves =>
                \A c \in world'.clusters : c.q = loc'[b].q => c.doomed
  PROVE  PksInv'
<1>1. ASSUME NEW b \in Ops \ movers
      PROVE  (PksMaking(b)' <=> PksMaking(b)) /\ PksPath(b)' /\ PksSearched(b)'
  <2>1. PksPath(b) /\ PksSearched(b)
    BY DEF PksInv
  <2>2. PksMaking(b)' <=> PksMaking(b)
    BY DEF PksMaking
  <2>3. PksPath(b)'
    BY <2>1, <2>2 DEF PksPath
  <2>4. loc[b].crossed \in BOOLEAN /\ loc'[b].crossed \in BOOLEAN
    BY DEF PksInv, P!TypeOK, P!Locals
  <2>5. \A n : P!Named(n) = {} => P!Named(n)' = {}
    BY DEF P!Named
  <2>6. PksSearched(b)'
    BY <2>1, <2>4, <2>5 DEF PksSearched
  <2> QED
    BY <2>2, <2>3, <2>6
<1>2. \A b \in Ops : PksPath(b)' /\ PksSearched(b)'
  BY <1>1 DEF PksSearched
<1>3. \A b \in Ops : PksMaking(b)' => b \notin movers /\ PksMaking(b)
  BY <1>1
<1>4. PksIds'
  <2>1. \A c \in world'.clusters : \E d \in world.clusters : d.id = c.id /\ d.q = c.q
    OBVIOUS
  <2> QED
    BY <1>3, <2>1 DEF PksInv, PksIds
<1>5. P!NamesDiffer'
  BY DEF PksInv, P!NamesDiffer
<1>6. ASSUME NEW c \in world'.clusters, ~c.doomed, c.q \notin world'.raced
      PROVE  PksCluster(c)'
  <2>1. c \in world.clusters /\ PksCluster(c)
    BY <1>6 DEF PksInv
  <2>2. PksSections(c)' = PksSections(c) /\ \A kinds : PksGrouped(world'.groups, c, kinds) <=> PksGrouped(world.groups, c, kinds)
    BY DEF PksSections, PksGrouped
  <2>3. ASSUME NEW b \in Ops, PksMaking(b)', loc'[b].id = c.id
        PROVE  PksMade(b, c)'
    <3>1. PksMade(b, c) /\ pc'[b] = pc[b] /\ loc'[b].left = loc[b].left
      BY <1>3, <2>1, <2>3 DEF PksCluster
    <3> QED
      BY <2>2, <3>1 DEF PksMade
  <2>4. ASSUME NEW b \in Ops, loc'[b].q = c.q, pc'[b] \in PksMakes \cup PksRemoves
        PROVE  PksMaking(b)' /\ loc'[b].id = c.id
    <3>1. b \notin movers
      BY <1>6, <2>4
    <3> QED
      BY <1>1, <2>1, <2>4, <3>1 DEF PksCluster
  <2>5. /\ c.q \in world'.stale \/ \A s \in world'.sections : s.q = c.q => s.id = c.id
        /\ PksSections(c)' # {} => PksGrouped(world'.groups, c, P!Kinds) /\ world'.base = Len(P!Base)
    BY <2>1, <2>2 DEF PksCluster
  <2> QED
    BY <2>3, <2>4, <2>5 DEF PksCluster
<1> QED
  BY <1>2, <1>4, <1>5, <1>6 DEF PksInv

\* A cluster is made,
LEMMA PksAdds ==
  ASSUME PksInv, NEW a \in Ops, P!AddCluster(a)
  PROVE  PksInv'
<1> DEFINE q  == loc[a].q
           id == world.used + 1
           If(condition, set, e) == IF condition THEN set \cup {e} ELSE set
           new == [q |-> q, id |-> id, doomed |-> FALSE]
           w  == [world EXCEPT
                   !.clusters = @ \cup {[q |-> q, id |-> id, doomed |-> FALSE]},
                   !.used  = id,
                   !.stale = If(\E s \in world.sections : s.q = q, @, q),
                   !.raced = If(P!Isolating(q), @, q),
                   !.blind = If(loc[a].crossed, @, q.name)]
           next == [b \in Ops |->
                     IF b = a THEN [loc[a] EXCEPT !.id = id, !.left = P!Kinds]
                     ELSE [loc[b] EXCEPT !.crossed = @ \/ (pc[b] = "add" /\ loc[b].name = q.name)]]
<1>1. /\ loc \in [Ops -> P!Locals] /\ loc[a] \in P!Locals /\ world \in PksWorlds
      /\ PksPath(a) /\ PksSearched(a) /\ pc[a] = "add" /\ q \in P!Qualified
      /\ q.name = loc[a].name /\ loc[a].op = "create"
  <2>1. /\ loc \in [Ops -> P!Locals] /\ loc[a] \in P!Locals /\ world \in PksWorlds
        /\ PksPath(a) /\ PksSearched(a) /\ pc[a] = "add"
    BY DEF PksInv, P!TypeOK, P!AddCluster
  <2>2. q = [name |-> loc[a].name, user |-> loc[a].user] /\ loc[a].op = "create"
    BY <2>1 DEF PksPath
  <2> QED
    BY <2>1, <2>2 DEF P!Locals
<1>2. CASE P!Step(a, "failed") /\ UNCHANGED loc
  BY <1>2, PksRefused
<1>3. CASE ~(P!Step(a, "failed") /\ UNCHANGED loc)
  <2>1. /\ P!Cluster(q) = {} /\ ~(id > MaxIds)
        /\ P!Call(a, w, "groups", "failed") /\ loc' = next
    BY <1>3 DEF P!AddCluster, P!Refused
  <2>2. id \in 1..MaxIds /\ id \in 0..MaxIds /\ world.used \in Nat /\ id > world.used
    BY <1>1, <2>1, ResourcesAssumption DEF PksWorlds
  <2>3. /\ w.clusters = world.clusters \cup {new} /\ w.used = id /\ w.base = world.base
        /\ w.groups = world.groups /\ w.sections = world.sections /\ w.profile = world.profile
        /\ w.provider = world.provider /\ w.keys = world.keys
        /\ w.stale = (IF \E s \in world.sections : s.q = q THEN world.stale \cup {q} ELSE world.stale)
        /\ w.raced = (IF P!Isolating(q) THEN world.raced \cup {q} ELSE world.raced)
        /\ w.blind = (IF loc[a].crossed THEN world.blind \cup {q.name} ELSE world.blind)
        /\ DOMAIN w = DOMAIN world /\ w.requests = world.requests
    BY <1>1 DEF PksWorlds
  <2>4. w \in PksWorlds
    <3>1. new \in P!Clusters
      BY <1>1, <2>2 DEF P!Clusters
    <3>2. w.clusters \in SUBSET P!Clusters
      <4> HIDE DEF new, w
      <4> QED
        BY <1>1, <2>3, <3>1 DEF PksWorlds
    <3>3. w.stale \in SUBSET P!Qualified /\ w.raced \in SUBSET P!Qualified
      <4> HIDE DEF w, q
      <4> QED
        BY <1>1, <2>3 DEF PksWorlds
    <3>4. w.blind \in SUBSET PksNames
      <4>1. q.name \in PksNames
        BY <1>1 DEF P!Qualified
      <4> HIDE DEF w
      <4> QED
        BY <1>1, <2>3, <4>1 DEF PksWorlds
    <3>5. w = [world EXCEPT !.clusters = w.clusters, !.used = w.used, !.stale = w.stale,
                            !.raced = w.raced, !.blind = w.blind]
      BY <1>1 DEF PksWorlds
    <3> HIDE DEF w, new
    <3>6. w.used \in 0..MaxIds
      BY <2>2, <2>3
    <3> QED
      BY <1>1, <3>2, <3>3, <3>4, <3>5, <3>6 DEF PksWorlds
  <2> HIDE DEF w
  <2>5. PksCalled(a, w, "groups", "failed")
    BY <2>1, PksCalls
  <2>6. /\ loc'[a] \in P!Locals /\ loc'[a].op = "create" /\ loc'[a].q = q /\ loc'[a].id = id
        /\ loc'[a].left = P!Kinds
    <3>1. loc'[a] = [loc[a] EXCEPT !.id = id, !.left = P!Kinds]
      BY <2>1
    <3> HIDE DEF next, id
    <3> QED
      BY <1>1, <2>2, <3>1 DEF P!Locals
  <2>7. ASSUME NEW b \in Ops \ {a}
        PROVE  /\ loc'[b] \in P!Locals /\ loc'[b].op = loc[b].op /\ loc'[b].user = loc[b].user
               /\ loc'[b].name = loc[b].name /\ loc'[b].q = loc[b].q /\ loc'[b].id = loc[b].id
               /\ loc'[b].left = loc[b].left /\ pc'[b] = pc[b]
               /\ loc'[b].crossed = (loc[b].crossed \/ (pc[b] = "add" /\ loc[b].name = q.name))
    <3>1. loc'[b] = [loc[b] EXCEPT !.crossed = @ \/ (pc[b] = "add" /\ loc[b].name = q.name)]
      BY <2>1
    <3>2. loc[b] \in P!Locals
      BY <1>1
    <3> HIDE DEF next, q
    <3> QED
      BY <2>5, <3>1, <3>2 DEF P!Locals, PksCalled
  <2>8. loc' \in [Ops -> P!Locals]
    <3>1. DOMAIN loc' = Ops /\ loc' = [b \in Ops |-> loc'[b]]
      BY <2>1
    <3> HIDE DEF next
    <3> QED
      BY <2>6, <2>7, <3>1
  <2> HIDE DEF next, If
  <2>9. /\ pc'[a] \in {"groups", "failed"} /\ world' \in {world, w}
        /\ (pc'[a] # "failed" => world' = w) /\ world' \in PksWorlds
    BY <1>1, <2>4, <2>5 DEF PksCalled
  <2>10. P!TypeOK'
    BY <2>5, <2>8, <2>9 DEF P!TypeOK, PksCalled, PksWorlds
  <2>11. CASE world' = world
    <3>1. CASE pc'[a] = "failed"
      <4>1. PksPath(a)' /\ ~PksMaking(a)'
        BY <2>6, <3>1 DEF PksPath, PksMaking, PksMakes, PksRemoves
      <4> DEFINE movers == {a}
      <4>0. movers \in SUBSET Ops
        OBVIOUS
      <4>2. \A b \in movers : /\ PksPath(b)' /\ ~PksMaking(b)' /\ pc'[b] # "add"
                              /\ pc'[b] \notin PksMakes \cup PksRemoves
        BY <3>1, <4>1 DEF PksMakes, PksRemoves
      <4>3. \A c, d \in world.clusters : c.id = d.id => c = d
        BY DEF PksInv, PksIds
      <4>4. P!Usable' = P!Usable
        BY <2>11 DEF P!Usable
      <4>5. \A b \in Ops \ movers :
              /\ pc'[b] = pc[b] /\ loc'[b].op = loc[b].op /\ loc'[b].user = loc[b].user
              /\ loc'[b].name = loc[b].name /\ loc'[b].q = loc[b].q /\ loc'[b].id = loc[b].id
              /\ loc'[b].left = loc[b].left /\ (loc[b].crossed => loc'[b].crossed)
        BY <2>7
      <4>6. /\ world'.groups = world.groups /\ world'.sections = world.sections
            /\ world'.used = world.used /\ world'.stale = world.stale /\ world'.raced = world.raced
            /\ world'.blind = world.blind /\ world'.base = world.base
            /\ world'.profile = world.profile
            /\ \A c \in world'.clusters : c \in world.clusters
            /\ \A c, d \in world'.clusters : c.id = d.id => c = d
        BY <2>11, <4>3
      <4> HIDE DEF q, id, new, movers
      <4> QED
        BY <2>9, <2>10, <4>0, <4>2, <4>4, <4>5, <4>6, PksShrinks
    <3>2. CASE pc'[a] = "groups"
      BY <2>2, <2>3, <2>9, <2>11, <3>2
    <3> QED
      BY <2>9, <3>1, <3>2
  <2>12. CASE world' = w
    <3>1. ASSUME NEW b \in Ops \ {a}
          PROVE  (PksMaking(b)' <=> PksMaking(b)) /\ PksPath(b)' /\ PksSearched(b)'
      <4>1. PksPath(b) /\ PksSearched(b)
        BY DEF PksInv
      <4>2. PksMaking(b)' <=> PksMaking(b)
        BY <2>7 DEF PksMaking
      <4>3. PksPath(b)'
        <5>1. PksMaking(b) => loc[b].id \in 1..id
          BY <2>2, <4>1 DEF PksPath
        <5> HIDE DEF q, id, new
        <5> QED
          BY <2>3, <2>7, <2>12, <4>1, <4>2, <5>1 DEF PksPath
      <4>4. PksSearched(b)'
        <5> SUFFICES ASSUME pc'[b] = "add", ~loc'[b].crossed
                     PROVE  loc'[b].name \in world'.blind \/ P!Named(loc[b].name)' = {}
          BY <2>7 DEF PksSearched
        <5>1. pc[b] = "add" /\ ~loc[b].crossed /\ loc[b].name # q.name /\ loc'[b].name = loc[b].name
          BY <2>7
        <5>2. CASE loc[b].name \in world.blind
          <6> HIDE DEF q, id, new
          <6> QED
            BY <2>3, <2>12, <5>1, <5>2
        <5>3. CASE P!Named(loc[b].name) = {}
          <6>1. new.q.name = q.name
            OBVIOUS
          <6> HIDE DEF new, q
          <6> QED
            BY <2>3, <2>12, <5>1, <5>3, <6>1 DEF P!Named
        <5> QED
          BY <4>1, <5>1, <5>2, <5>3 DEF PksSearched
      <4> QED
        BY <4>2, <4>3, <4>4
    <3>2. PksPath(a)' /\ PksSearched(a)' /\ (PksMaking(a)' <=> pc'[a] = "groups")
      <4>1. id \in 1..world'.used
        BY <2>2, <2>3, <2>12
      <4> HIDE DEF q, id, new
      <4>2. PksMaking(a)' <=> pc'[a] = "groups"
        BY <2>6, <2>9 DEF PksMaking, PksMakes
      <4> QED
        BY <2>6, <2>9, <4>1, <4>2 DEF PksPath, PksSearched, PksMakes, PksRemoves
    <3>3. new.q = q /\ new.id = id /\ ~new.doomed
      OBVIOUS
    <3>4. /\ \A c \in world.clusters : c.id <= id /\ c.id < id /\ c.q # q
          /\ \A s \in world.sections : s.id <= id /\ s.id < id
          /\ \A b \in Ops : PksMaking(b) => loc[b].id \in 1..world.used /\ loc[b].id < id
      <4>1. \A b \in Ops : PksMaking(b) => loc[b].id \in 1..world.used
        BY DEF PksInv, PksPath
      <4>2. /\ \A c \in world.clusters : c.id <= world.used /\ c.id \in 1..MaxIds
            /\ \A s \in world.sections : s.id <= world.used /\ s.id \in 1..MaxIds
        BY DEF PksInv, PksIds, P!TypeOK, P!Clusters, P!Sections
      <4>3. \A c \in world.clusters : c.q # q
        BY <2>1 DEF P!Cluster
      <4> QED
        BY <2>2, <4>1, <4>2, <4>3, ResourcesAssumption
    <3>5. \A c \in world'.clusters : c = new \/ c \in world.clusters
      <4> HIDE DEF new
      <4> QED
        BY <2>3, <2>12
    <3> HIDE DEF new, id, q
    <3>6. PksIds'
      <4>1. /\ \A c \in world'.clusters : c.id <= id
            /\ \A s \in world'.sections : s.id <= id
        <5>1. \A c \in world'.clusters : c.id <= id
          BY <2>2, <3>3, <3>4, <3>5
        <5>2. world'.sections = world.sections
          BY <2>3, <2>12
        <5> QED
          BY <3>4, <5>1, <5>2
      <4>2. \A c, d \in world'.clusters : c.id = d.id => c = d
        <5>1. \A c, d \in world.clusters : c.id = d.id => c = d
          BY DEF PksInv, PksIds
        <5>2. \A c \in world.clusters : c.id # id
          BY <2>2, <3>4
        <5> QED
          BY <3>3, <3>5, <5>1, <5>2
      <4>3. \A b \in Ops : PksMaking(b)' =>
              \/ (b = a /\ loc'[b].id = id /\ loc'[b].q = q)
              \/ (b # a /\ PksMaking(b) /\ loc'[b].id = loc[b].id /\ loc'[b].q = loc[b].q /\ loc[b].id # id)
        BY <2>2, <2>6, <2>7, <3>1, <3>4
      <4>4. \A b, e \in Ops : PksMaking(b)' /\ PksMaking(e)' /\ loc'[b].id = loc'[e].id => b = e
        BY <4>3 DEF PksInv, PksIds
      <4>5. \A b \in Ops, c \in world'.clusters : PksMaking(b)' /\ loc'[b].id = c.id => loc'[b].q = c.q
        <5>1. \A c \in world.clusters : c.id # id
          BY <2>2, <3>4
        <5> QED
          BY <3>3, <3>5, <4>3, <5>1 DEF PksInv, PksIds
      <4>6. world'.used = id
        BY <2>3, <2>12
      <4> QED
        BY <4>1, <4>2, <4>4, <4>5, <4>6 DEF PksIds
    <3>7. P!NamesDiffer'
      <4>1. world.blind \subseteq world'.blind /\ (loc[a].crossed => q.name \in world'.blind)
        BY <2>3, <2>12
      <4>2. \A d \in world.clusters : d.q.name = q.name => q.name \in world'.blind
        BY <1>1, <4>1 DEF PksSearched, P!Named
      <4>3. \A c, d \in world.clusters :
              c.q.name = d.q.name /\ c # d => c.doomed \/ d.doomed \/ c.q.name \in world.blind
        BY DEF PksInv, P!NamesDiffer
      <4>4. \A c, d \in world'.clusters :
              c.q.name = d.q.name /\ c # d => c.doomed \/ d.doomed \/ c.q.name \in world'.blind
        BY <3>3, <3>5, <4>1, <4>2, <4>3
      <4>5. P!Usable' => world'.profile
        BY <2>3, <2>12 DEF PksInv, P!NamesDiffer, P!Usable
      <4> QED
        BY <4>4, <4>5 DEF P!NamesDiffer
    <3>8. ASSUME NEW c \in world'.clusters, ~c.doomed, c.q \notin world'.raced
          PROVE  PksCluster(c)'
      <4>1. CASE c \in world.clusters
        <5>1. PksCluster(c) /\ c.q # q /\ c.id # id
          BY <2>2, <2>3, <2>12, <3>4, <3>8, <4>1 DEF PksInv
        <5>2. PksSections(c)' = PksSections(c) /\ \A kinds : PksGrouped(world'.groups, c, kinds) <=> PksGrouped(world.groups, c, kinds)
          BY <2>3, <2>12 DEF PksSections, PksGrouped
        <5>3. ASSUME NEW b \in Ops, PksMaking(b)', loc'[b].id = c.id
              PROVE  PksMade(b, c)'
          <6>1. b # a /\ pc'[b] = pc[b] /\ loc'[b].left = loc[b].left /\ PksMaking(b) /\ loc[b].id = c.id
            BY <2>6, <2>7, <3>1, <5>1, <5>3
          <6>2. PksMade(b, c)
            BY <5>1, <6>1 DEF PksCluster
          <6> QED
            BY <5>2, <6>1, <6>2 DEF PksMade
        <5>4. ASSUME NEW b \in Ops, loc'[b].q = c.q, pc'[b] \in PksMakes \cup PksRemoves
              PROVE  PksMaking(b)' /\ loc'[b].id = c.id
          <6>1. b # a
            BY <2>6, <5>1, <5>4
          <6> QED
            BY <2>7, <3>1, <5>1, <5>4, <6>1 DEF PksCluster
        <5>5. /\ c.q \in world'.stale \/ \A s \in world'.sections : s.q = c.q => s.id = c.id
              /\ PksSections(c)' # {} => PksGrouped(world'.groups, c, P!Kinds) /\ world'.base = Len(P!Base)
          BY <2>3, <2>12, <5>1, <5>2 DEF PksCluster
        <5> QED
          BY <5>3, <5>4, <5>5 DEF PksCluster
      <4>2. CASE c = new
        <5>1. ~P!Isolating(q) /\ c.q = q /\ c.id = id
          BY <2>3, <2>12, <3>3, <3>8, <4>2
        <5>2. PksSections(c)' = {}
          BY <2>2, <2>3, <2>12, <3>4, <5>1 DEF PksSections
        <5>3. ASSUME NEW b \in Ops, PksMaking(b)', loc'[b].id = c.id
              PROVE  PksMade(b, c)'
          <6>1. b = a
            BY <2>2, <2>7, <3>1, <3>4, <5>1, <5>3
          <6>2. pc'[a] = "groups" /\ P!Kinds \ loc'[a].left = {}
            BY <2>6, <3>2, <5>3, <6>1
          <6>3. PksGrouped(world'.groups, c, {})
            BY DEF PksGrouped
          <6> QED
            BY <5>2, <6>1, <6>2, <6>3 DEF PksMade
        <5>4. ASSUME NEW b \in Ops, loc'[b].q = c.q, pc'[b] \in PksMakes \cup PksRemoves
              PROVE  PksMaking(b)' /\ loc'[b].id = c.id
          <6>1. CASE b = a
            BY <2>6, <2>9, <3>2, <5>1, <5>4, <6>1 DEF PksMakes, PksRemoves
          <6>2. CASE b # a
            BY <2>7, <5>1, <5>4, <6>2 DEF P!Isolating, PksMakes, PksRemoves
          <6> QED
            BY <6>1, <6>2
        <5>5. c.q \in world'.stale \/ \A s \in world'.sections : s.q = c.q => s.id = c.id
          BY <2>3, <2>12, <5>1
        <5> QED
          BY <5>2, <5>3, <5>4, <5>5 DEF PksCluster
      <4> QED
        BY <3>5, <4>1, <4>2
    <3> QED
      BY <2>9, <2>10, <3>1, <3>2, <3>6, <3>7, <3>8 DEF PksInv
  <2> QED
    BY <2>9, <2>11, <2>12
<1> QED
  BY <1>2, <1>3

\* doomed,
LEMMA PksDooms ==
  ASSUME PksInv, NEW a \in Ops, P!AskDelete(a)
  PROVE  PksInv'
<1> DEFINE Doom(c)  == IF c.q = loc[a].q THEN [c EXCEPT !.doomed = TRUE] ELSE c
           clusters == {Doom(c) : c \in world.clusters}
           w        == [world EXCEPT !.clusters = clusters]
           l        == [loc[a] EXCEPT !.left = P!Kinds]
           movers   == {a}
<1>1. /\ loc[a] \in P!Locals /\ world \in PksWorlds /\ PksPath(a) /\ pc[a] = "ask"
      /\ loc[a].op # "create" /\ (P!Usable => world.profile)
  BY DEF PksInv, P!TypeOK, P!NamesDiffer, P!AskDelete, PksPath, PksMakes
<1>2. CASE P!Step(a, "failed") /\ UNCHANGED loc
  BY <1>2, PksRefused
<1>3. CASE ~(P!Step(a, "failed") /\ UNCHANGED loc)
  <2>1. P!Call(a, w, "remove section", "failed") /\ P!Set(a, l)
    BY <1>1, <1>3 DEF P!AskDelete, P!Refused, PksWorlds
  <2>2. /\ l \in P!Locals /\ l.op = loc[a].op /\ l.left = P!Kinds /\ l.q = loc[a].q
    BY <1>1 DEF P!Locals
  <2>3. ASSUME NEW c \in world.clusters
        PROVE  /\ Doom(c) \in P!Clusters /\ Doom(c).q = c.q /\ Doom(c).id = c.id
               /\ c.q = loc[a].q => Doom(c).doomed
               /\ c.q # loc[a].q => Doom(c) = c
    <3>1. c \in P!Clusters
      BY <1>1 DEF PksWorlds
    <3> QED
      BY <3>1 DEF P!Clusters
  <2> HIDE DEF Doom
  <2>4. clusters \in SUBSET P!Clusters
    BY <2>3
  <2>5. /\ \A c \in clusters :
             \/ c \in world.clusters
             \/ c.doomed /\ \E d \in world.clusters : d.id = c.id /\ d.q = c.q
        /\ \A c \in clusters : c.q = loc[a].q => c.doomed
        /\ \A c, d \in clusters : c.id = d.id => c = d
    <3>1. \A c, d \in world.clusters : c.id = d.id => c = d
      BY DEF PksInv, PksIds
    <3> QED
      BY <2>3, <3>1
  <2> HIDE DEF clusters
  <2>6. /\ w \in PksWorlds /\ w.sections = world.sections /\ w.stale = world.stale
        /\ w.groups = world.groups /\ w.provider = world.provider /\ w.keys = world.keys
        /\ w.clusters = clusters /\ w.used = world.used /\ w.raced = world.raced
        /\ w.blind = world.blind /\ w.base = world.base /\ w.profile = world.profile
    BY <1>1, <2>4 DEF PksWorlds
  <2> HIDE DEF w, l
  <2>7. /\ loc' \in [Ops -> P!Locals] /\ loc'[a] = l
        /\ \A b \in Ops \ {a} : loc'[b] = loc[b]
    BY <2>1, <2>2, PksSets
  <2>8. PksCalled(a, w, "remove section", "failed")
    BY <2>1, PksCalls
  <2>9. /\ PksMoves(a) /\ world' \in {world, w} /\ pc'[a] \in {"remove section", "failed"}
        /\ (pc'[a] # "failed" => world' = w)
    BY <2>7, <2>8 DEF PksMoves, PksCalled
  <2>10. /\ world' \in PksWorlds /\ world'.groups = world.groups
         /\ world'.sections = world.sections /\ world'.stale = world.stale
         /\ world'.used = world.used /\ world'.raced = world.raced
         /\ world'.blind = world.blind /\ world'.base = world.base
         /\ world'.profile = world.profile /\ P!Usable' = P!Usable
         /\ world'.clusters \in {world.clusters, clusters}
         /\ pc'[a] # "failed" => world'.clusters = clusters
    BY <1>1, <2>6, <2>9 DEF P!Usable
  <2>11. P!TypeOK'
    BY <2>9, <2>10 DEF P!TypeOK, PksMoves, PksWorlds
  <2>12. /\ \A c \in world'.clusters :
              \/ c \in world.clusters
              \/ c.doomed /\ \E d \in world.clusters : d.id = c.id /\ d.q = c.q
         /\ \A c, d \in world'.clusters : c.id = d.id => c = d
    BY <2>5, <2>10 DEF PksInv, PksIds
  <2>13. \A b \in Ops \ movers :
           /\ pc'[b] = pc[b] /\ loc'[b].op = loc[b].op /\ loc'[b].user = loc[b].user
           /\ loc'[b].name = loc[b].name /\ loc'[b].q = loc[b].q /\ loc'[b].id = loc[b].id
           /\ loc'[b].left = loc[b].left /\ (loc[b].crossed => loc'[b].crossed)
    BY <2>9 DEF PksMoves
  <2>14. \A b \in movers :
           /\ PksPath(b)' /\ ~PksMaking(b)' /\ pc'[b] # "add"
           /\ pc'[b] \in PksMakes \cup PksRemoves =>
                \A c \in world'.clusters : c.q = loc'[b].q => c.doomed
    <3>1. PksPath(a)' /\ ~PksMaking(a)' /\ pc'[a] # "add"
      BY <1>1, <2>2, <2>7, <2>9 DEF PksPath, PksMaking, PksMakes, PksRemoves
    <3>2. pc'[a] \in PksMakes \cup PksRemoves => pc'[a] # "failed"
      BY DEF PksMakes, PksRemoves
    <3> QED
      BY <2>2, <2>5, <2>7, <2>10, <3>1, <3>2
  <2>15. movers \in SUBSET Ops
    OBVIOUS
  <2> HIDE DEF movers
  <2> QED
    BY <2>10, <2>11, <2>12, <2>13, <2>14, <2>15, PksShrinks
<1> QED
  BY <1>2, <1>3

\* and deleted.
LEMMA PksEnds ==
  ASSUME PksInv, P!PksDeletes
  PROVE  PksInv'
<1>1. PICK e \in world.clusters : world' = [world EXCEPT !.clusters = @ \ {e}]
  BY DEF P!PksDeletes
<1>2. world \in PksWorlds /\ UNCHANGED <<loc, pc, faults>>
  BY DEF PksInv, P!PksDeletes
<1>3. /\ world' \in PksWorlds /\ world'.groups = world.groups
      /\ world'.sections = world.sections /\ world'.stale = world.stale
      /\ world'.used = world.used /\ world'.raced = world.raced
      /\ world'.blind = world.blind /\ world'.base = world.base
      /\ world'.profile = world.profile /\ P!Usable' = P!Usable
      /\ world'.clusters \subseteq world.clusters
  BY <1>1, <1>2 DEF PksWorlds, P!Usable
<1>4. P!TypeOK'
  BY <1>2, <1>3 DEF PksInv, P!TypeOK, PksWorlds
<1>5. /\ \A c \in world'.clusters : c \in world.clusters
      /\ \A c, d \in world'.clusters : c.id = d.id => c = d
  BY <1>3 DEF PksInv, PksIds
<1> DEFINE movers == {}
<1>6. movers \in SUBSET Ops /\ \A b : b \notin movers
  OBVIOUS
<1> HIDE DEF movers
<1> QED
  BY <1>2, <1>3, <1>4, <1>5, <1>6, PksShrinks

LEMMA PksInitInv ==
  ASSUME P!Init
  PROVE  PksInv
<1>1. /\ world.clusters = {} /\ world.groups = {} /\ world.sections = {} /\ world.used = 0
      /\ (P!Usable => world.profile) /\ world \in PksWorlds
  <2>1. Len(P!Base) \in Nat
    BY DEF P!Base
  <2>2. 0 \in 0..MaxIds /\ 0 \in 0..MaxRequests
    BY ResourcesAssumption
  <2>3. PICK ready \in BOOLEAN :
          world = [clusters |-> {}, groups |-> {}, sections |-> {},
                   base |-> IF ready THEN Len(P!Base) ELSE 0,
                   provider |-> IF ready THEN "PKS" ELSE "NONE",
                   keys |-> IF ready THEN P!Keys ELSE {}, profile |-> ready,
                   stale |-> {}, raced |-> {}, blind |-> {}, used |-> 0, requests |-> 0]
    BY DEF P!Init
  <2>4. world.provider = (IF ready THEN "PKS" ELSE "NONE") /\ world.profile = ready
    BY <2>3
  <2>5. P!Usable => world.profile
    BY <2>4 DEF P!Usable
  <2>6. (IF ready THEN Len(P!Base) ELSE 0) \in 0..Len(P!Base)
    BY <2>1
  <2>7. world \in PksWorlds
    BY <2>2, <2>3, <2>6 DEF PksWorlds
  <2> QED
    BY <2>3, <2>5, <2>7
<1>2. PICK op \in [Ops -> {"create", "setup", "enable"}], user \in [Ops -> PksUsers],
           name \in [Ops -> PksNames] :
        /\ loc = [a \in Ops |->
                    [op |-> op[a], user |-> user[a], name |-> name[a],
                     q |-> [name |-> name[a], user |-> user[a]], id |-> 0, left |-> {},
                     crossed |-> FALSE]]
        /\ pc = op
  BY DEF P!Init
<1>3. ASSUME NEW a \in Ops
      PROVE  loc[a] \in P!Locals /\ PksPath(a) /\ PksSearched(a) /\ ~PksMaking(a)
  <2>1. /\ loc[a] = [op |-> op[a], user |-> user[a], name |-> name[a],
                     q |-> [name |-> name[a], user |-> user[a]], id |-> 0, left |-> {},
                     crossed |-> FALSE]
        /\ pc[a] = op[a] /\ op[a] \in {"create", "setup", "enable"}
    BY <1>2
  <2>2. 0 \in 0..MaxIds /\ user[a] \in PksUsers /\ name[a] \in PksNames
    BY <1>2, ResourcesAssumption
  <2>3. loc[a] \in P!Locals
    BY <2>1, <2>2 DEF P!Locals, P!Qualified
  <2>4. PksPath(a) /\ PksSearched(a) /\ ~PksMaking(a)
    <3>1. /\ loc[a].op = pc[a] /\ pc[a] \in {"create", "setup", "enable"}
          /\ loc[a].q = [name |-> loc[a].name, user |-> loc[a].user]
      BY <2>1
    <3> QED
      BY <3>1 DEF PksPath, PksSearched, PksMaking, PksMakes, PksRemoves
  <2> QED
    BY <2>3, <2>4
<1>4. P!TypeOK
  <2>1. loc \in [Ops -> P!Locals]
    BY <1>2, <1>3
  <2>2. DOMAIN pc = Ops /\ faults \in 0..MaxFaults
    BY <1>2, ThreadsAssumption DEF P!Init
  <2> QED
    BY <1>1, <2>1, <2>2 DEF P!TypeOK, PksWorlds
<1>5. PksIds /\ P!NamesDiffer
  BY <1>1, <1>3 DEF PksIds, P!NamesDiffer
<1> QED
  BY <1>1, <1>3, <1>4, <1>5 DEF PksInv

LEMMA PksNextInv ==
  ASSUME PksInv, [P!Next]_(P!procedureVars)
  PROVE  PksInv'
<1>1. ASSUME NEW a \in Ops,
             \/ P!SearchFree(a) \/ P!AddCluster(a) \/ P!MakeGroup(a) \/ P!DropSection(a) \/ P!NewSection(a)
             \/ P!AllowRule(a) \/ P!BlockRule(a) \/ P!FindToUse(a) \/ P!FindToDelete(a)
             \/ P!AskDelete(a) \/ P!RemoveSection(a) \/ P!RemoveGroup(a)
      PROVE  PksInv'
  BY <1>1, PksSearch, PksAdds, PksGroups, PksSection, PksRule, PksFinds, PksDooms, PksUngroups
<1>2. ASSUME NEW a \in Ops,
             \/ P!UseCluster(a) \/ P!Enable(a) \/ P!CreateProfile(a) \/ P!SetMetadata(a)
             \/ P!Disable(a) \/ P!RemoveKey(a) \/ P!ClearProvider(a) \/ P!Setup(a) \/ P!Again(a)
      PROVE  PksInv'
  BY <1>2, PksVdc, PksDisables, PksAgain
<1>3. CASE UNCHANGED P!procedureVars
  <2>1. world' = world /\ loc' = loc /\ pc' = pc /\ faults' = faults
    BY <1>3 DEF P!procedureVars
  <2>2. P!TypeOK' /\ world' \in PksWorlds /\ P!NamesDiffer' /\ PksIds'
    BY <2>1 DEF PksInv, P!TypeOK, P!NamesDiffer, P!Usable, PksIds, PksMaking
  <2>3. \A a \in Ops : PksPath(a)' /\ PksSearched(a)'
    BY <2>1 DEF PksInv, PksPath, PksSearched, PksMaking, P!Named
  <2>4. ASSUME NEW c \in world.clusters, PksCluster(c)
        PROVE  PksCluster(c)'
    <3>1. /\ PksSections(c)' = PksSections(c)
          /\ \A kinds : PksGrouped(world'.groups, c, kinds) <=> PksGrouped(world.groups, c, kinds)
          /\ \A a \in Ops : PksMaking(a)' <=> PksMaking(a)
      BY <2>1 DEF PksSections, PksGrouped, PksMaking
    <3>2. \A a \in Ops : PksMade(a, c) => PksMade(a, c)'
      BY <2>1, <3>1 DEF PksMade
    <3> QED
      BY <2>1, <2>4, <3>1, <3>2 DEF PksCluster
  <2> QED
    BY <2>1, <2>2, <2>3, <2>4 DEF PksInv
<1> QED
  BY <1>1, <1>2, <1>3, PksEnds DEF P!Next

\* What a user is told of the isolation of a cluster is so.
LEMMA PksIsolated ==
  ASSUME PksInv
  PROVE  P!AcceptedIsIsolated /\ P!NamesDiffer
<1>1. ASSUME NEW c \in world.clusters, ~c.doomed, c.q \notin world.raced
      PROVE  /\ P!is_cluster_isolated(c.q) => P!Isolated(c) \/ c.q \in world.stale
             /\ \A a \in Ops : loc[a].op = "create" /\ pc[a] = "done" /\ loc[a].id = c.id => P!Isolated(c)
  <2>1. PksCluster(c)
    BY <1>1 DEF PksInv
  <2>2. ASSUME NEW s \in world.sections, s.q = c.q, s.id = c.id, s.rules = P!Rules
        PROVE  P!Isolated(c)
    <3>1. s \in PksSections(c)
      BY <2>2 DEF PksSections
    <3> QED
      BY <2>1, <2>2, <3>1 DEF PksCluster, PksGrouped, P!Isolated
  <2>3. P!is_cluster_isolated(c.q) => P!Isolated(c) \/ c.q \in world.stale
    BY <2>1, <2>2 DEF PksCluster, P!is_cluster_isolated
  <2>4. ASSUME NEW a \in Ops, loc[a].op = "create", pc[a] = "done", loc[a].id = c.id
        PROVE  P!Isolated(c)
    <3>1. PksMade(a, c)
      BY <2>1, <2>4 DEF PksCluster, PksMaking
    <3>2. PICK s \in PksSections(c) : s.rules = P!Rules
      BY <2>4, <3>1 DEF PksMade
    <3> QED
      BY <2>2, <3>2 DEF PksSections
  <2> QED
    BY <2>3, <2>4
<1> QED
  BY <1>1 DEF P!AcceptedIsIsolated, PksInv
=============================================================================
