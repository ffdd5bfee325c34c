---------------------------- MODULE ServicesProofs ----------------------------
(***************************************************************************)
(* Proofs about Services, for any requests and any values of the other     *)
(* constants.  What is known of a service at work is an inductive          *)
(* invariant of its own: of LifeCycleProofs, ResourcesProofs or            *)
(* CommandProofs.                                                          *)
(***************************************************************************)
EXTENDS Services, ResourcesProofs, LifeCycleProofs, CommandProofs

-----------------------------------------------------------------------------
(***************************************************************************)
(* The cluster commands again: from what one step of a command does, which *)
(* CommandProofs has, to the invariant ClientInv.                          *)
(***************************************************************************)
\* A step of command a.
ClientAction(a) ==
  \/ K!Filter(a) \/ K!Session(a) \/ K!KeepSession(a) \/ K!Choose(a) \/ K!KindById(a)
  \/ K!FindNative(a) \/ K!FindTkgS(a) \/ K!Legacy(a) \/ K!Act(a) \/ K!Create(a)
  \/ K!FindUsers(a) \/ K!ReadAcl(a) \/ K!PutAcl(a) \/ K!PutEntry(a) \/ K!EntriesPut(a)
  \/ K!Again(a)

LEMMA ClientNextStep ==
  ASSUME K!TypeOK, \A a \in Ops : ClientLocal(world, pc[a], loc[a]), K!Next
  PROVE  \E a \in Ops : ClientStep(a) /\ ClientAction(a)
<1>1. PICK a \in Ops : ClientAction(a)
  BY DEF K!Next, ClientAction
<1>2. ClientLocal(world, pc[a], loc[a])
  OBVIOUS
<1>3. ClientStep(a)
  BY <1>1, <1>2, FilterStep, SessionStep, KeepSessionStep, ChooseStep, KindByIdStep, FindNativeStep,
     FindTkgSStep, LegacyStep, ActStep, CreateStep, FindUsersStep, ReadAclStep, PutAclStep,
     PutEntryStep, EntriesPutStep, AgainStep DEF ClientAction
<1> QED
  BY <1>1, <1>3

\* What is known of a command does not depend on whether it was alone.
LEMMA LocalSame ==
  ASSUME NEW w, NEW p, NEW l, NEW m, ClientLocal(w, p, l),
         m.request = l.request, m.session = l.session, m.class = l.class, m.org = l.org,
         m.target = l.target, m.raw = l.raw
  PROVE  ClientLocal(w, p, m)
<1>1. ClientSession(w, p, m)
  BY DEF ClientLocal, ClientSession
<1>2. ClientClass(p, m)
  BY DEF ClientLocal, ClientClass, K!Runtime
<1>3. /\ \A i, kind : ShownIn(w, m, i, kind) <=> ShownIn(w, l, i, kind)
      /\ Either(m) <=> Either(l)
      /\ \A i : May(w, m, i) <=> May(w, l, i)
  BY DEF ShownIn, Either, K!Runtime, May
<1>4. \A kind : NoOld(w, m, kind) <=> NoOld(w, l, kind)
  BY <1>3 DEF NoOld
<1>5. ClientTarget(w, p, m)
  BY <1>3, <1>4 DEF ClientLocal, ClientTarget
<1> QED
  BY <1>1, <1>2, <1>5 DEF ClientLocal

\* The command that made a step, and the others.
LEMMA StepParts ==
  ASSUME K!TypeOK, \A b \in Ops : ClientLocal(world, pc[b], loc[b]), NEW a \in Ops, ClientStep(a)
  PROVE  /\ K!TypeOK' /\ \A b \in Ops : ClientLocal(world', pc'[b], loc'[b])
         /\ pc[a] \notin {"idle", "done"} /\ pc'[a] # "idle"
         /\ \A b \in Ops \ {a} : pc'[b] = pc[b] /\ loc'[b] = loc[b]
         /\ \A b \in Ops : loc'[b].request = loc[b].request /\ (loc[b].stale => loc'[b].stale)
         /\ loc'[a].alone = (loc[a].alone /\ OthersIdle(a))
         /\ pc'[a] \in {"put", "entries", "done"} /\ loc[a].request.op \in {"share", "unshare"} =>
              pc[a] \in {"acl", "put", "entries"}
         /\ pc'[a] = "create" => /\ world' = world
                                 /\ \A i \in K!Ids : ~ShownIn(world, loc'[a], i, loc'[a].class)
         /\ WorldKept(world, world')
<1>1. PICK p, l : /\ Reached(a, p, l) /\ K!Goto(a, p) /\ K!Update(a, l) /\ ClientLocal(world', p, l)
                  /\ p = "create" => world' = world
  BY DEF ClientStep
<1>2. l \in K!Locals /\ p # "idle"
  BY <1>1 DEF Reached
<1>3. /\ loc' \in [Ops -> K!Locals] /\ \A b \in Ops \ {a} : loc'[b] = loc[b]
      /\ loc'[a] = [l EXCEPT !.alone = l.alone /\ OthersIdle(a)]
  BY <1>1, <1>2, ClientUpdate
<1>4. /\ loc'[a].request = l.request /\ loc'[a].stale = l.stale
      /\ loc'[a].alone = (l.alone /\ OthersIdle(a)) /\ loc'[a].class = l.class
      /\ loc'[a].session = l.session /\ loc'[a].org = l.org /\ loc'[a].target = l.target
      /\ loc'[a].raw = l.raw
  BY <1>2, <1>3 DEF K!Locals
<1>5. /\ pc'[a] = p /\ DOMAIN pc' = Ops /\ \A b \in Ops \ {a} : pc'[b] = pc[b]
  BY <1>1 DEF K!Goto, K!TypeOK
<1>6. world' \in K!Worlds /\ faults' \in 0..MaxFaults /\ WorldKept(world, world')
      /\ pc[a] \notin {"idle", "done"}
  BY DEF ClientStep
<1>7. K!TypeOK'
  BY <1>3, <1>5, <1>6 DEF K!TypeOK
<1>8. ClientLocal(world', p, loc'[a])
  BY <1>1, <1>4, LocalSame
<1>9. ASSUME NEW b \in Ops PROVE ClientLocal(world', pc'[b], loc'[b])
  <2>1. CASE b = a
    BY <1>5, <1>8, <2>1
  <2>2. CASE b # a
    BY <1>3, <1>5, <1>6, <2>2, LocalStays
  <2> QED
    BY <2>1, <2>2
<1>10. p = "create" => \A i \in K!Ids : ~ShownIn(world, loc'[a], i, loc'[a].class)
  BY <1>1, <1>4 DEF Reached, ShownIn
<1>11. loc'[a].request = loc[a].request /\ (loc[a].stale => loc'[a].stale) /\ l.alone = loc[a].alone
       /\ (p \in {"put", "entries", "done"} /\ loc[a].request.op \in {"share", "unshare"} =>
             pc[a] \in {"acl", "put", "entries"})
  BY <1>1, <1>4 DEF Reached
<1> QED
  BY <1>1, <1>2, <1>3, <1>4, <1>5, <1>6, <1>7, <1>9, <1>10, <1>11

\* What commands have created, after a step.
LEMMA MadeStays ==
  ASSUME NEW w, NEW v, NEW i \in K!Ids, NEW r, WorldKept(w, v), w.cluster[i] # Absent, MadeBy(w, i, r)
  PROVE  MadeBy(v, i, r)
<1>1. v.cluster[i].kind = w.cluster[i].kind /\ v.cluster[i].org = w.cluster[i].org
  BY DEF WorldKept
<1>2. \A l, kind : NoOld(w, l, kind) => NoOld(v, l, kind)
  BY ShownStays DEF NoOld
<1> QED
  BY <1>1, <1>2 DEF MadeBy

\* A cluster that a command made would be shown to it.
LEMMA OwnShown ==
  ASSUME NEW w, NEW i \in K!Ids, NEW l, LiveIn(w, i), MadeBy(w, i, l.request), ClientAsks(l.request),
         l.request \in K!Requests, l.org = FilterOf(l.request)
  PROVE  ShownIn(w, l, i, w.cluster[i].kind)
<1> DEFINE r == l.request
<1>1. r.op \in {"create", "apply"} /\ r.rights = K!Kinds /\ w.cluster[i].kind \in r.rights
  BY DEF MadeBy, ClientAsks, K!Kinds
<1>2. w.cluster[i].org = IF FilterOf(r) = Absent THEN "own" ELSE FilterOf(r)
  BY DEF MadeBy
<1>3. r.sysadmin \/ w.cluster[i].org = "own"
  BY <1>1, <1>2, NoName DEF ClientAsks, FilterOf, K!ApplyOrg, K!CreateOrg
<1> QED
  BY <1>1, <1>2, <1>3 DEF ShownIn

\* The clusters there were are as they were, but for some that are gone.
LEMMA MadeKept ==
  ASSUME ClientInv, NEW a \in Ops, ClientStep(a), NoneMade(world, world')
  PROVE  ClientMade'
<1>1. /\ K!TypeOK /\ \A b \in Ops : ClientLocal(world, pc[b], loc[b])
      /\ ClientMade
  BY DEF ClientInv
<1>2. /\ \A b \in Ops \ {a} : pc'[b] = pc[b] /\ loc'[b] = loc[b]
      /\ \A b \in Ops : loc'[b].request = loc[b].request
      /\ pc[a] # "idle" /\ pc'[a] # "idle" /\ WorldKept(world, world')
      /\ pc'[a] = "create" => /\ world' = world
                              /\ \A i \in K!Ids : ~ShownIn(world, loc'[a], i, loc'[a].class)
      /\ K!TypeOK' /\ \A b \in Ops : ClientLocal(world', pc'[b], loc'[b])
  BY <1>1, StepParts
<1>3. NoneMade(world, world')
  OBVIOUS
<1>4. \A i \in K!New : world'.cluster[i] # Absent => world.cluster[i] # Absent
                       /\ world'.cluster[i].maker = world.cluster[i].maker
  BY <1>2, <1>3, ClientIds DEF NoneMade, WorldKept
<1>5. \A i \in K!New : LiveIn(world', i) => LiveIn(world, i)
  BY <1>2, <1>4, ClientIds DEF LiveIn, WorldKept
<1>6. ASSUME NEW i \in K!New, world'.cluster[i] # Absent
      PROVE  LET b == world'.cluster[i].maker
             IN  b \in Ops /\ pc'[b] # "idle" /\ MadeBy(world', i, loc'[b].request)
  <2> DEFINE b == world'.cluster[i].maker
  <2>1. b = world.cluster[i].maker /\ world.cluster[i] # Absent /\ i \in K!Ids
    BY <1>4, <1>6, ClientIds
  <2>2. b \in Ops /\ pc[b] # "idle" /\ MadeBy(world, i, loc[b].request)
    BY <1>1, <2>1 DEF ClientMade
  <2> HIDE DEF b
  <2>3. MadeBy(world', i, loc'[b].request)
    BY <1>2, <2>1, <2>2, MadeStays
  <2>4. pc'[b] # "idle"
    BY <1>2, <2>2
  <2> QED
    BY <2>2, <2>3, <2>4 DEF b
<1>7. \A i, j \in K!New : LiveIn(world', i) /\ LiveIn(world', j)
                          /\ world'.cluster[i].maker = world'.cluster[j].maker => i = j
  BY <1>1, <1>4, <1>5 DEF ClientMade, LiveIn
<1>8. ASSUME NEW b \in Ops, NEW i \in K!New, pc'[b] = "create", LiveIn(world', i)
      PROVE  world'.cluster[i].maker # b
  <2>1. CASE b # a
    BY <1>1, <1>2, <1>4, <1>5, <1>8, <2>1 DEF ClientMade, LiveIn
  <2>2. CASE b = a
    <3> SUFFICES ASSUME world'.cluster[i].maker = a PROVE FALSE
      BY <2>2
    <3>1. MadeBy(world', i, loc'[a].request)
      BY <1>6, <1>8 DEF LiveIn
    <3>2. /\ ClientAsks(loc'[a].request) /\ ClientClass("create", loc'[a]) /\ loc'[a].request \in K!Requests
          /\ loc'[a].class \in {"legacy", "native", "TKG-S", "mixed", Absent}
      BY <1>2, <1>8, <2>2, RequestParts DEF ClientLocal, K!TypeOK
    <3>3. /\ loc'[a].request.op = "apply" /\ loc'[a].org = FilterOf(loc'[a].request)
          /\ loc'[a].class \in K!Kinds
          /\ loc'[a].request.runtime = loc'[a].class
      BY <3>2, NoName DEF ClientClass, Chosen, ClientAsks, K!Kinds
    <3>4. ShownIn(world', loc'[a], i, world'.cluster[i].kind)
      BY <1>8, <3>1, <3>2, <3>3, OwnShown, ClientIds
    <3>5. world'.cluster[i].kind = loc'[a].class
      BY <3>1, <3>3 DEF MadeBy
    <3> QED
      BY <1>2, <1>8, <2>2, <3>4, <3>5, ClientIds
  <2> QED
    BY <2>1, <2>2
<1> QED
  BY <1>6, <1>7, <1>8 DEF ClientMade

LEMMA MadeMore ==
  ASSUME ClientInv, NEW a \in Ops, ClientStep(a), K!Create(a)
  PROVE  ClientMade'
<1>1. /\ K!TypeOK /\ \A b \in Ops : ClientLocal(world, pc[b], loc[b])
      /\ ClientMade /\ world \in K!Worlds /\ loc[a] \in K!Locals
  BY DEF ClientInv, K!TypeOK
<1>2. /\ \A b \in Ops \ {a} : pc'[b] = pc[b] /\ loc'[b] = loc[b]
      /\ \A b \in Ops : loc'[b].request = loc[b].request
      /\ pc'[a] # "idle" /\ WorldKept(world, world')
  BY <1>1, StepParts
<1>3. CASE K!Step(a, "failed")
  BY <1>3, KeptSame, MadeKept DEF K!Step
<1>4. ASSUME NEW i \in K!New, NEW kind \in K!Kinds, NEW org \in K!Orgs,
             world.cluster[i] = Absent, MadeFor(loc[a], kind, org), pc[a] \in {"create", "legacy"},
             pc[a] = "legacy" => loc[a].class = "legacy" /\ K!Search(loc[a], "native") = {},
             K!Call(a, Make(a, i, kind, org), "done", "failed")
      PROVE  ClientMade'
  <2> DEFINE l == loc[a]
             v == Make(a, i, kind, org)
  <2>1. world' \in {world, v} /\ pc'[a] # "create"
    BY <1>1, <1>4 DEF K!Call, K!Goto, K!TypeOK
  <2>2. /\ WorldKept(world, v) /\ v.cluster[i] # Absent /\ LiveIn(v, i)
        /\ v.cluster[i].kind = kind /\ v.cluster[i].org = org /\ v.cluster[i].maker = a
        /\ \A j \in K!Ids \ {i} : v.cluster[j] = world.cluster[j]
    BY <1>1, <1>4, MakeKept, ClientIds DEF LiveIn
  <2> HIDE DEF v
  <2>3. CASE world' = world
    BY <2>3, KeptSame, MadeKept
  <2>4. CASE world' = v
    <3>1. MadeBy(v, i, l.request)
      <4>1. NoOld(v, l, kind)
        BY <1>4, <2>2, ShownStays DEF NoOld, MadeFor
      <4>2. NoOld(v, [request |-> l.request, org |-> FilterOf(l.request)], kind)
        BY <1>4, <4>1 DEF NoOld, ShownIn, MadeFor
      <4> QED
        BY <1>4, <2>2, <4>2 DEF MadeBy, MadeFor
    <3>2. ASSUME NEW j \in K!New \ {i}, world.cluster[j] # Absent
          PROVE  LET b == world.cluster[j].maker
                 IN  b \in Ops /\ pc'[b] # "idle" /\ MadeBy(v, j, loc'[b].request)
      <4> DEFINE b == world.cluster[j].maker
      <4>1. b \in Ops /\ pc[b] # "idle" /\ MadeBy(world, j, loc[b].request) /\ j \in K!Ids
        BY <1>1, <3>2, ClientIds DEF ClientMade
      <4> HIDE DEF b
      <4>2. MadeBy(v, j, loc'[b].request)
        BY <1>2, <2>2, <3>2, <4>1, MadeStays
      <4>3. pc'[b] # "idle"
        BY <1>2, <4>1
      <4> QED
        BY <4>1, <4>2, <4>3 DEF b
    <3>3. ASSUME NEW j \in K!New \ {i}, LiveIn(world, j) PROVE world.cluster[j].maker # a
      <4>1. CASE pc[a] = "create"
        BY <1>1, <3>3, <4>1 DEF ClientMade
      <4>2. CASE pc[a] = "legacy"
        <5> SUFFICES ASSUME world.cluster[j].maker = a PROVE FALSE
          OBVIOUS
        <5>1. MadeBy(world, j, l.request) /\ j \in K!Ids
          BY <1>1, <3>3, ClientIds DEF ClientMade, LiveIn
        <5>2. /\ l.request \in K!Requests /\ ClientAsks(l.request) /\ l.org = FilterOf(l.request)
              /\ ClientClass("legacy", l)
          BY <1>1, <1>4, <4>2, RequestParts DEF ClientLocal, MadeFor
        <5>3. l.request.op # "apply"
          BY <1>4, <4>2, <5>2 DEF ClientClass, Chosen
        <5>4. world.cluster[j].kind = "native"
          BY <5>1, <5>3 DEF MadeBy
        <5>5. ShownIn(world, l, j, "native")
          BY <3>3, <5>1, <5>2, <5>4, OwnShown
        <5> QED
          BY <1>4, <4>2, <5>1, <5>5, SearchIs
      <4> QED
        BY <1>4, <4>1, <4>2
    <3>4. \A j \in K!New \ {i} : v.cluster[j] = world.cluster[j]
                              /\ (LiveIn(v, j) <=> LiveIn(world, j))
      BY <2>2, ClientIds DEF LiveIn
    <3>5. ASSUME NEW j \in K!New, v.cluster[j] # Absent
          PROVE  LET b == v.cluster[j].maker
                 IN  b \in Ops /\ pc'[b] # "idle" /\ MadeBy(v, j, loc'[b].request)
      <4>1. CASE j = i
        BY <1>2, <2>2, <3>1, <4>1
      <4>2. CASE j # i
        BY <3>2, <3>4, <3>5, <4>2
      <4> QED
        BY <4>1, <4>2
    <3>6. \A j, k \in K!New : LiveIn(v, j) /\ LiveIn(v, k) /\ v.cluster[j].maker = v.cluster[k].maker => j = k
      <4>1. \A j, k \in K!New \ {i} :
              LiveIn(v, j) /\ LiveIn(v, k) /\ v.cluster[j].maker = v.cluster[k].maker => j = k
        BY <1>1, <3>4 DEF ClientMade
      <4>2. \A j \in K!New \ {i} : LiveIn(v, j) => v.cluster[j].maker # v.cluster[i].maker
        BY <2>2, <3>3, <3>4
      <4> QED
        BY <4>1, <4>2
    <3>7. ASSUME NEW b \in Ops, NEW j \in K!New, pc'[b] = "create", LiveIn(v, j)
          PROVE  v.cluster[j].maker # b
      <4>1. b # a
        BY <2>1, <3>7
      <4>2. CASE j = i
        BY <2>2, <4>1, <4>2
      <4>3. CASE j # i
        BY <1>1, <1>2, <3>4, <3>7, <4>1, <4>3 DEF ClientMade
      <4> QED
        BY <4>2, <4>3
    <3> QED
      BY <2>4, <3>5, <3>6, <3>7 DEF ClientMade
  <2> QED
    BY <2>1, <2>3, <2>4
<1> QED
  BY <1>1, <1>3, <1>4, CreateParts

\* The step of a sharing command, and what another may do to an ACL.
LEMMA AclPut ==
  ASSUME K!TypeOK, NEW i \in K!Ids, NEW acl \in K!Acl
  PROVE  LET v == [world EXCEPT !.acl[i] = acl]
         IN  /\ v.before = world.before
             /\ \A j \in K!Ids : v.acl[j] = IF j = i THEN acl ELSE world.acl[j]
<1>1. world \in K!Worlds /\ world.acl \in [K!Ids -> K!Acl]
  BY DEF K!TypeOK, K!Worlds
<1> QED
  BY <1>1 DEF K!Worlds

LEMMA AclParts ==
  ASSUME K!TypeOK, NEW a \in Ops, ClientLocal(world, pc[a], loc[a])
  PROVE  /\ K!PutAcl(a) => LET l == loc[a] IN
              /\ pc[a] = "put" /\ l.target \in K!Ids /\ l.request.op \in {"share", "unshare"}
              /\ loc'[a].target = l.target /\ loc'[a].stale = (l.stale \/ world.acl[l.target] # l.read)
              /\ pc'[a] \in {"done", "failed"} /\ world'.before = world.before
              /\ \/ world'.acl = world.acl /\ pc'[a] = "failed"
                 \/ \A i \in K!Ids : world'.acl[i] = IF i = l.target THEN K!Entries(l.request, l.read)
                                                     ELSE world.acl[i]
         /\ K!PutEntry(a) => LET l == loc[a] IN
              /\ pc[a] = "entries" /\ l.target \in K!Ids /\ l.request.op \in {"share", "unshare"}
              /\ loc'[a].target = l.target /\ pc'[a] \in {"entries", "failed"}
              /\ world'.before = world.before
              /\ \E u \in l.todo :
                   /\ loc'[a].todo = l.todo \ {u}
                   /\ \/ world'.acl = world.acl /\ pc'[a] = "failed"
                      \/ \A i \in K!Ids, x \in ClientUsers :
                           world'.acl[i][x] = IF i = l.target /\ x = u THEN Wanted(l.request)
                                              ELSE world.acl[i][x]
         /\ K!ReadAcl(a) => LET l == loc[a] IN
              /\ pc[a] = "acl" /\ l.target \in K!Ids /\ world' = world /\ loc'[a].target = l.target
              /\ loc'[a].todo = l.request.users /\ loc'[a].read = world.acl[l.target]
              /\ pc'[a] \in {"put", "entries", "failed"}
              /\ pc'[a] # "failed" /\ l.request.op = "share" =>
                   \A u \in l.request.users : ~K!access_level_reduced(l.request.level, world.acl[l.target][u])
         /\ K!EntriesPut(a) => /\ pc[a] = "entries" /\ world' = world /\ loc[a].todo = {}
                               /\ loc'[a].target = loc[a].target /\ pc'[a] = "done"
<1> DEFINE l == loc[a]
           i == l.target
<1>1. l \in K!Locals /\ world \in K!Worlds /\ DOMAIN pc = Ops /\ MaxFaults \in Nat
  BY ThreadsAssumption DEF K!TypeOK
<1>2. ASSUME K!PutAcl(a)
      PROVE  /\ pc[a] = "put" /\ i \in K!Ids /\ l.request.op \in {"share", "unshare"}
             /\ loc'[a].target = i /\ loc'[a].stale = (l.stale \/ world.acl[i] # l.read)
             /\ pc'[a] \in {"done", "failed"} /\ world'.before = world.before
             /\ \/ world'.acl = world.acl /\ pc'[a] = "failed"
                \/ \A j \in K!Ids : world'.acl[j] = IF j = i THEN K!Entries(l.request, l.read)
                                                    ELSE world.acl[j]
  <2> DEFINE acl == K!Entries(l.request, l.read)
             v == [world EXCEPT !.acl[i] = acl]
             m == [l EXCEPT !.stale = l.stale \/ world.acl[i] # l.read]
  <2>1. pc[a] = "put" /\ K!Update(a, m) /\ (K!Call(a, v, "done", "failed") \/ K!Step(a, "failed"))
    BY <1>2 DEF K!PutAcl
  <2>2. i \in K!Ids /\ l.request.op \in {"share", "unshare"}
    BY <1>1, <2>1, AtTarget DEF ClientLocal, ClientClass, Chosen
  <2>3. acl \in K!Acl
    BY <1>1, RequestParts DEF K!Entries, K!Acl, K!Level
  <2>4. v.before = world.before /\ \A j \in K!Ids : v.acl[j] = IF j = i THEN acl ELSE world.acl[j]
    BY <2>2, <2>3, AclPut
  <2>5. m \in K!Locals /\ m.target = i /\ m.stale = (l.stale \/ world.acl[i] # l.read)
    BY <1>1 DEF K!Locals
  <2> HIDE DEF v, m, acl
  <2>6. loc'[a].target = m.target /\ loc'[a].stale = m.stale
    <3>1. loc'[a] = [m EXCEPT !.alone = m.alone /\ OthersIdle(a)]
      BY <2>1, <2>5, ClientUpdate
    <3> QED
      BY <2>5, <3>1 DEF K!Locals
  <2>7. \/ pc'[a] \in {"done", "failed"} /\ world' = v
        \/ pc'[a] = "failed" /\ world' = world
    BY <1>1, <2>1 DEF K!Call, K!Step, K!Goto
  <2> QED
    BY <2>1, <2>2, <2>4, <2>5, <2>6, <2>7 DEF acl
<1>3. ASSUME K!PutEntry(a)
      PROVE  /\ pc[a] = "entries" /\ i \in K!Ids /\ l.request.op \in {"share", "unshare"}
             /\ loc'[a].target = i /\ pc'[a] \in {"entries", "failed"} /\ world'.before = world.before
             /\ \E u \in l.todo :
                  /\ loc'[a].todo = l.todo \ {u}
                  /\ \/ world'.acl = world.acl /\ pc'[a] = "failed"
                     \/ \A j \in K!Ids, x \in ClientUsers :
                          world'.acl[j][x] = IF j = i /\ x = u THEN Wanted(l.request)
                                             ELSE world.acl[j][x]
  <2> DEFINE level == l.request.level * (IF l.request.op = "share" THEN 1 ELSE 0)
  <2>1. pc[a] = "entries"
    BY <1>3 DEF K!PutEntry
  <2>2. PICK u \in l.todo :
          /\ K!Update(a, [l EXCEPT !.todo = l.todo \ {u}])
          /\ K!Call(a, [world EXCEPT !.acl[i][u] = level], "entries", "failed") \/ K!Step(a, "failed")
    BY <1>3 DEF K!PutEntry
  <2> DEFINE acl == [world.acl[i] EXCEPT ![u] = level]
             v == [world EXCEPT !.acl[i][u] = level]
             m == [l EXCEPT !.todo = l.todo \ {u}]
  <2>3. i \in K!Ids /\ l.request.op \in {"share", "unshare"} /\ u \in ClientUsers
    BY <1>1, <2>1, AtTarget, RequestParts DEF ClientLocal, ClientClass, Chosen
  <2>4. world.acl[i] \in K!Acl /\ level \in K!Level /\ level = Wanted(l.request)
    BY <1>1, <2>3, RequestParts DEF K!Worlds, K!Level, Wanted
  <2>5. acl \in K!Acl /\ \A x \in ClientUsers : acl[x] = IF x = u THEN Wanted(l.request) ELSE world.acl[i][x]
    <3> HIDE DEF level
    <3> QED
      BY <2>3, <2>4 DEF K!Acl
  <2>6. v = [world EXCEPT !.acl[i] = acl]
    OBVIOUS
  <2>7. K!Update(a, m) /\ (K!Call(a, v, "entries", "failed") \/ K!Step(a, "failed"))
    BY <2>2
  <2>8. m \in K!Locals /\ m.target = i /\ m.todo = l.todo \ {u}
    BY <1>1 DEF K!Locals
  <2>9. v.before = world.before /\ \A j \in K!Ids : v.acl[j] = IF j = i THEN acl ELSE world.acl[j]
    <3> HIDE DEF acl, level
    <3>1. \A j \in K!Ids : [world EXCEPT !.acl[i] = acl].acl[j] = IF j = i THEN acl ELSE world.acl[j]
      BY <2>3, <2>5, AclPut
    <3>2. [world EXCEPT !.acl[i] = acl].before = world.before
      BY <2>3, <2>5, AclPut
    <3> HIDE DEF v
    <3> QED
      BY <2>6, <3>1, <3>2
  <2> HIDE DEF v, m, acl, level
  <2>10. loc'[a].target = m.target /\ loc'[a].todo = m.todo
    <3>1. loc'[a] = [m EXCEPT !.alone = m.alone /\ OthersIdle(a)]
      BY <2>7, <2>8, ClientUpdate
    <3> QED
      BY <2>8, <3>1 DEF K!Locals
  <2>11. \/ pc'[a] \in {"entries", "failed"} /\ world' = v
         \/ pc'[a] = "failed" /\ world' = world
    BY <1>1, <2>7 DEF K!Call, K!Step, K!Goto
  <2>12. \A j \in K!Ids, x \in ClientUsers :
           v.acl[j][x] = IF j = i /\ x = u THEN Wanted(l.request) ELSE world.acl[j][x]
    BY <2>5, <2>9
  <2> QED
    BY <2>1, <2>3, <2>8, <2>9, <2>10, <2>11, <2>12
<1>4. ASSUME K!ReadAcl(a)
      PROVE  /\ pc[a] = "acl" /\ i \in K!Ids /\ world' = world /\ loc'[a].target = i
             /\ loc'[a].todo = l.request.users /\ loc'[a].read = world.acl[i]
             /\ pc'[a] \in {"put", "entries", "failed"}
             /\ pc'[a] # "failed" /\ l.request.op = "share" =>
                  \A u \in l.request.users : ~K!access_level_reduced(l.request.level, world.acl[i][u])
  <2> DEFINE m == [l EXCEPT !.read = world.acl[i], !.todo = l.request.users]
  <2>1. pc[a] = "acl" /\ K!Update(a, m) /\ world' = world
    BY <1>4 DEF K!ReadAcl, K!Query, K!Step
  <2>2. i \in K!Ids
    BY <1>1, <2>1, AtTarget
  <2>6. pc'[a] \in {"put", "entries", "failed"}
    <3>1. PICK p \in {"put", "entries", "failed"} : K!Query(a, p, "failed") \/ K!Step(a, "failed")
      BY <1>4 DEF K!ReadAcl
    <3> QED
      BY <1>1, <3>1 DEF K!Query, K!Step, K!Goto
  <2>3. m \in K!Locals /\ m.target = i /\ m.todo = l.request.users /\ m.read = world.acl[i]
    <3>1. world.acl[i] \in K!Acl /\ l.request.users \subseteq ClientUsers
      BY <1>1, <2>2, RequestParts DEF K!Worlds
    <3> QED
      BY <1>1, <3>1 DEF K!Locals
  <2> HIDE DEF m
  <2>4. loc'[a].target = m.target /\ loc'[a].todo = m.todo /\ loc'[a].read = m.read
    <3>1. loc'[a] = [m EXCEPT !.alone = m.alone /\ OthersIdle(a)]
      BY <2>1, <2>3, ClientUpdate
    <3> QED
      BY <2>3, <3>1 DEF K!Locals
  <2>5. pc'[a] # "failed" /\ l.request.op = "share" =>
          \A u \in l.request.users : ~K!access_level_reduced(l.request.level, world.acl[i][u])
    <3> SUFFICES ASSUME l.request.op = "share", NEW u \in l.request.users,
                        K!access_level_reduced(l.request.level, world.acl[i][u])
                 PROVE  pc'[a] = "failed"
      OBVIOUS
    <3>1. K!Query(a, "failed", "failed") \/ K!Step(a, "failed")
      BY <1>4 DEF K!ReadAcl
    <3> QED
      BY <1>1, <3>1 DEF K!Query, K!Step, K!Goto
  <2> QED
    BY <2>1, <2>2, <2>3, <2>4, <2>5, <2>6
<1>5. ASSUME K!EntriesPut(a)
      PROVE  /\ pc[a] = "entries" /\ world' = world /\ l.todo = {}
             /\ loc'[a].target = l.target /\ pc'[a] = "done"
  <2>1. pc[a] = "entries" /\ K!Update(a, l) /\ world' = world /\ l.todo = {} /\ pc'[a] = "done"
    BY <1>1, <1>5 DEF K!EntriesPut, K!Step, K!Goto
  <2>2. loc'[a] = [l EXCEPT !.alone = l.alone /\ OthersIdle(a)]
    BY <1>1, <2>1, ClientUpdate
  <2> QED
    BY <1>1, <2>1, <2>2 DEF K!Locals
<1> QED
  BY <1>2, <1>3, <1>4, <1>5

\* What is done to an ACL is done from there.
LEMMA AtAcl ==
  ASSUME NEW a, ClientAction(a), pc[a] \in {"acl", "put", "entries"}
  PROVE  K!ReadAcl(a) \/ K!PutAcl(a) \/ K!PutEntry(a) \/ K!EntriesPut(a)
BY DEF ClientAction, K!Filter, K!Session, K!KeepSession, K!Choose, K!KindById, K!FindNative,
  K!FindTkgS, K!Legacy, K!Create, K!FindUsers, K!Again, K!Act, K!Request, K!InfoNative, K!InfoTkgS,
  K!ConfigNative, K!ConfigTkgS, K!PlanNative, K!NfsNative, K!UpgradeNative, K!DeleteNative,
  K!DeleteTkgS, K!ForceNative, K!ForceTkgS, K!UpdateNative, K!UpdateTkgS, K!ListNative, K!ListTkgS

LEMMA TargetIs ==
  ASSUME NEW w, NEW l \in K!Locals, NEW p \in Aimed, ClientLocal(w, p, l)
  PROVE  /\ l.target \in K!Ids
         /\ (l.target \in K!Old \/ w.cluster[l.target] # Absent)
         /\ p \in {"acl", "put", "entries"} => l.request.op \in {"share", "unshare"}
<1>1. ClientTarget(w, p, l) /\ ClientClass(p, l) /\ ClientAsks(l.request) /\ p \in Chosen
  BY DEF ClientLocal, Aimed, Chosen
<1>2. CASE l.request.id = Absent
  BY <1>1, <1>2 DEF ClientTarget, ClientClass, May
<1>3. CASE l.request.id # Absent
  <2>1. l.request.id = 1
    BY <1>1, <1>3 DEF ClientAsks
  <2> QED
    BY <1>1, <1>3, <2>1 DEF ClientTarget, ClientClass, K!Ids, K!Old
<1> QED
  BY <1>2, <1>3

LEMMA AclStays ==
  ASSUME ClientInv, NEW a \in Ops, ClientStep(a), ClientAction(a)
  PROVE  ClientAcl'
<1>1. /\ K!TypeOK /\ (\A b \in Ops : ClientLocal(world, pc[b], loc[b])) /\ ClientAcl
      /\ \A b \in Ops : loc[b] \in K!Locals
  BY DEF ClientInv, K!TypeOK
<1>2. /\ \A b \in Ops \ {a} : pc'[b] = pc[b] /\ loc'[b] = loc[b]
      /\ \A b \in Ops : loc'[b].request = loc[b].request /\ (loc[b].stale => loc'[b].stale)
      /\ pc'[a] \in {"put", "entries", "done"} /\ loc[a].request.op \in {"share", "unshare"} =>
           pc[a] \in {"acl", "put", "entries"}
      /\ world'.before = world.before
      /\ K!TypeOK' /\ (\A b \in Ops : ClientLocal(world', pc'[b], loc'[b]))
  BY <1>1, StepParts DEF WorldKept
<1>3. \A b \in Ops : loc'[b] \in K!Locals
  BY <1>2 DEF K!TypeOK
<1>4. /\ \A u : UserNamed(u)' <=> UserNamed(u)
      /\ \A u : \A b \in Ops : Disturbed(b, u) => Disturbed(b, u)'
      /\ \A u : \A b \in Ops : ~UserNamed(u) => u \notin loc[b].request.users
  BY <1>2 DEF UserNamed, Disturbed
<1>5. \A b \in Ops : loc[b].request.users \subseteq ClientUsers
  BY <1>1, RequestParts
<1>6. K!PutAcl(a) \/ K!PutEntry(a) \/ world'.acl = world.acl
  BY DEF ClientStep
<1>7. pc'[a] \in {"put", "entries"} => loc[a].request.op \in {"share", "unshare"}
  BY <1>2, <1>3, TargetIs DEF Aimed
<1>8. pc'[a] \in {"put", "entries", "done"} /\ loc[a].request.op \in {"share", "unshare"} =>
        K!ReadAcl(a) \/ K!PutAcl(a) \/ K!PutEntry(a) \/ K!EntriesPut(a)
  BY <1>2, AtAcl
<1>9. K!PutEntry(a) => \A x \in loc[a].todo : x \in loc[a].request.users
  BY <1>1 DEF ClientAcl, K!PutEntry
<1> DEFINE l == loc[a]
<1>10. K!PutAcl(a) =>
         /\ pc[a] = "put" /\ l.target \in K!Ids /\ l.request.op \in {"share", "unshare"}
         /\ loc'[a].target = l.target /\ loc'[a].stale = (l.stale \/ world.acl[l.target] # l.read)
         /\ pc'[a] \in {"done", "failed"}
         /\ \/ world'.acl = world.acl /\ pc'[a] = "failed"
            \/ \A i \in K!Ids : world'.acl[i] = IF i = l.target THEN K!Entries(l.request, l.read)
                                                ELSE world.acl[i]
  BY <1>1, AclParts
<1>11. K!PutEntry(a) =>
         /\ pc[a] = "entries" /\ l.target \in K!Ids
         /\ loc'[a].target = l.target /\ pc'[a] \in {"entries", "failed"}
         /\ \E u \in l.todo :
              /\ loc'[a].todo = l.todo \ {u}
              /\ \/ world'.acl = world.acl /\ pc'[a] = "failed"
                 \/ \A i \in K!Ids, x \in ClientUsers :
                      world'.acl[i][x] = IF i = l.target /\ x = u THEN Wanted(l.request)
                                         ELSE world.acl[i][x]
  BY <1>1, AclParts
<1>12. K!ReadAcl(a) =>
         /\ pc[a] = "acl" /\ l.target \in K!Ids /\ world' = world /\ loc'[a].target = l.target
         /\ loc'[a].todo = l.request.users /\ loc'[a].read = world.acl[l.target]
         /\ pc'[a] \in {"put", "entries", "failed"}
  BY <1>1, AclParts
<1>13. K!EntriesPut(a) => /\ pc[a] = "entries" /\ world' = world /\ l.todo = {}
                          /\ loc'[a].target = l.target /\ pc'[a] = "done"
  BY <1>1, AclParts
<1>14. \A u \in ClientUsers : K!Entries(l.request, l.read)[u] =
         IF u \in l.request.users THEN Wanted(l.request) ELSE l.read[u]
  BY DEF K!Entries, Wanted
<1> HIDE DEF l
<1>15. ASSUME NEW i \in K!Old, NEW u \in ClientUsers, ~UserNamed(u)
       PROVE  world'.acl[i][u] = world'.before[u]
  <2>1. world.acl[i][u] = world.before[u] /\ i \in K!Ids
    BY <1>1, <1>15, ClientIds DEF ClientAcl
  <2>2. CASE world'.acl = world.acl
    BY <1>2, <2>1, <2>2
  <2>3. CASE K!PutAcl(a)
    <3>1. u \notin l.request.users
      BY <1>4, <1>15 DEF l
    <3>2. l.target = i => l.read[u] = world.before[u]
      BY <1>1, <1>10, <1>15, <2>3 DEF ClientAcl, l
    <3>3. world'.acl[i][u] = world.acl[i][u] \/ (l.target = i /\ world'.acl[i][u] = l.read[u])
      BY <1>10, <1>14, <2>1, <2>3, <3>1
    <3> QED
      BY <1>2, <2>1, <3>2, <3>3
  <2>4. CASE K!PutEntry(a)
    <3>1. u \notin l.todo
      BY <1>4, <1>9, <1>15, <2>4 DEF l
    <3> QED
      BY <1>2, <1>11, <2>1, <2>4, <3>1
  <2> QED
    BY <1>6, <2>2, <2>3, <2>4
<1>16. ASSUME NEW b \in Ops, NEW u \in ClientUsers,
              pc'[b] = "put", loc'[b].target \in K!Old, ~UserNamed(u)
       PROVE  loc'[b].read[u] = world'.before[u]
  <2>1. CASE b # a
    BY <1>1, <1>2, <1>16, <2>1 DEF ClientAcl
  <2>2. CASE b = a
    <3>1. K!ReadAcl(a)
      BY <1>7, <1>8, <1>10, <1>11, <1>13, <1>16, <2>2
    <3> QED
      BY <1>1, <1>2, <1>12, <1>16, <2>2, <3>1 DEF ClientAcl
  <2> QED
    BY <2>1, <2>2
<1>17. ASSUME NEW b \in Ops, pc'[b] = "entries"
       PROVE  loc'[b].todo \subseteq loc'[b].request.users
  <2>1. CASE b # a
    BY <1>1, <1>2, <1>17, <2>1 DEF ClientAcl
  <2>2. CASE b = a
    <3>1. K!ReadAcl(a) \/ K!PutEntry(a)
      BY <1>7, <1>8, <1>10, <1>13, <1>17, <2>2
    <3> QED
      BY <1>2, <1>9, <1>11, <1>12, <2>2, <3>1 DEF l
  <2> QED
    BY <2>1, <2>2
<1>18. ASSUME NEW b \in Ops, pc'[b] \in {"entries", "done"}, loc'[b].request.op \in {"share", "unshare"},
              NEW u \in loc'[b].request.users, pc'[b] = "done" \/ u \notin loc'[b].todo
       PROVE  world'.acl[loc'[b].target][u] = Wanted(loc'[b].request) \/ Disturbed(b, u)'
  <2>1. u \in ClientUsers
    BY <1>2, <1>5, <1>18
  <2>2. CASE b = a
    <3>1. /\ K!ReadAcl(a) \/ K!PutAcl(a) \/ K!PutEntry(a) \/ K!EntriesPut(a)
          /\ u \in l.request.users /\ loc'[a].request = l.request
      BY <1>2, <1>8, <1>18, <2>2 DEF l
    <3>2. CASE K!ReadAcl(a)
      BY <1>12, <1>18, <2>2, <3>1, <3>2
    <3>3. CASE K!PutAcl(a)
      BY <1>10, <1>14, <1>18, <2>1, <2>2, <3>1, <3>3
    <3>4. CASE K!PutEntry(a)
      <4>1. PICK x \in l.todo :
              /\ loc'[a].todo = l.todo \ {x}
              /\ \A i \in K!Ids, y \in ClientUsers :
                   world'.acl[i][y] = IF i = l.target /\ y = x THEN Wanted(l.request)
                                      ELSE world.acl[i][y]
        BY <1>11, <1>18, <2>2, <3>4
      <4>2. pc'[a] = "entries" /\ l.target \in K!Ids /\ loc'[a].target = l.target /\ pc[a] = "entries"
        BY <1>11, <1>18, <2>2, <3>4
      <4>3. CASE u = x
        BY <2>1, <2>2, <3>1, <4>1, <4>2, <4>3
      <4>4. CASE u # x
        <5>1. u \notin l.todo
          BY <1>18, <2>2, <4>1, <4>2, <4>4
        <5>2. world.acl[l.target][u] = Wanted(l.request) \/ Disturbed(a, u)
          BY <1>1, <1>2, <1>18, <2>2, <3>1, <4>2, <5>1 DEF ClientAcl, l
        <5>3. world'.acl[l.target][u] = world.acl[l.target][u]
          BY <2>1, <4>1, <4>2, <4>4
        <5> QED
          BY <1>4, <2>2, <3>1, <4>2, <5>2, <5>3
      <4> QED
        BY <4>3, <4>4
    <3>5. CASE K!EntriesPut(a)
      <4>1. pc[a] = "entries" /\ l.todo = {} /\ world' = world /\ loc'[a].target = l.target
        BY <1>13, <3>5
      <4>2. world.acl[l.target][u] = Wanted(l.request) \/ Disturbed(a, u)
        BY <1>1, <1>2, <1>18, <2>2, <3>1, <4>1 DEF ClientAcl, l
      <4> QED
        BY <1>4, <2>2, <3>1, <4>1, <4>2
    <3> QED
      BY <3>1, <3>2, <3>3, <3>4, <3>5
  <2>3. CASE b # a
    <3> DEFINE t == loc[b].target
    <3>1. loc'[b] = loc[b] /\ pc'[b] = pc[b]
      BY <1>2, <2>3
    <3>2. world.acl[t][u] = Wanted(loc[b].request) \/ Disturbed(b, u)
      BY <1>1, <1>18, <3>1 DEF ClientAcl
    <3>3. t \in K!Ids
      BY <1>1, <1>18, <3>1, TargetIs DEF Aimed
    <3> HIDE DEF t
    <3>4. u \in loc[a].request.users \/ loc'[a].stale => Disturbed(b, u)'
      BY <1>2, <2>3 DEF Disturbed
    <3>5. world'.acl[t][u] = world.acl[t][u] \/ Disturbed(b, u)'
      <4>1. CASE world'.acl = world.acl
        BY <4>1
      <4>2. CASE K!PutAcl(a)
        <5>1. CASE t # l.target
          BY <1>10, <3>3, <4>2, <5>1
        <5>2. CASE t = l.target /\ world.acl[t] # l.read
          BY <1>10, <3>4, <4>2, <5>2
        <5>3. CASE t = l.target /\ u \in l.request.users
          BY <3>4, <5>3 DEF l
        <5>4. CASE t = l.target /\ world.acl[t] = l.read /\ u \notin l.request.users
          BY <1>10, <1>14, <2>1, <3>3, <4>2, <5>4
        <5> QED
          BY <5>1, <5>2, <5>3, <5>4
      <4>3. CASE K!PutEntry(a)
        <5>1. u \in l.todo => Disturbed(b, u)'
          BY <1>9, <3>4, <4>3 DEF l
        <5>2. u \notin l.todo => world'.acl[t][u] = world.acl[t][u]
          BY <1>11, <2>1, <3>3, <4>3
        <5> QED
          BY <5>1, <5>2
      <4> QED
        BY <1>6, <4>1, <4>2, <4>3
    <3> QED
      BY <1>4, <3>1, <3>2, <3>5 DEF t
  <2> QED
    BY <2>2, <2>3
<1> QED
  BY <1>4, <1>15, <1>16, <1>17, <1>18 DEF ClientAcl

LEMMA AloneStays ==
  ASSUME ClientInv, NEW a \in Ops, ClientStep(a), ClientAction(a), NEW b \in Ops
  PROVE  ClientAlone(b)'
<1>1. /\ K!TypeOK /\ (\A c \in Ops : ClientLocal(world, pc[c], loc[c]) /\ ClientAlone(c)) /\ ClientMade
      /\ loc[a] \in K!Locals /\ world \in K!Worlds /\ loc[a].alone \in BOOLEAN
  BY RequestParts DEF ClientInv, K!TypeOK
<1>2. /\ \A c \in Ops \ {a} : pc'[c] = pc[c] /\ loc'[c] = loc[c]
      /\ \A c \in Ops : loc'[c].request = loc[c].request
      /\ pc[a] # "idle" /\ pc'[a] # "idle"
      /\ loc'[a].alone = (loc[a].alone /\ OthersIdle(a))
      /\ pc'[a] \in {"put", "entries", "done"} /\ loc[a].request.op \in {"share", "unshare"} =>
           pc[a] \in {"acl", "put", "entries"}
      /\ world'.before = world.before
  BY <1>1, StepParts DEF WorldKept
<1>3. (NotLower(b)' <=> NotLower(b)) /\ (OthersIdle(a)' <=> OthersIdle(a))
      /\ (b # a => ~OthersIdle(b)' /\ ~OthersIdle(b))
  BY <1>2 DEF NotLower, OthersIdle
<1>4. CASE b # a
  BY <1>1, <1>2, <1>3, <1>4 DEF ClientAlone
<1>5. CASE b = a
  <2>1. OthersIdle(a) => loc[a].alone
    BY <1>1 DEF ClientAlone
  <2>2. loc'[a].alone => OthersIdle(a)'
    BY <1>2, <1>3
  <2>3. OthersIdle(a)' => loc'[a].alone
    BY <1>2, <1>3, <2>1
  <2>4. ASSUME loc[a].request.op = "share", pc[a] \in {"put", "entries"}, OthersIdle(a)
        PROVE  NotLower(a)
    BY <1>1, <2>1, <2>4 DEF ClientAlone
  <2>5. ASSUME OthersIdle(a), loc[a].request.op = "share"
        PROVE  NotLower(a) \/ \A i \in K!Old, u \in ClientUsers : world'.acl[i][u] = world'.before[u]
    <3>1. NotLower(a) \/ \A i \in K!Old, u \in ClientUsers : world.acl[i][u] = world.before[u]
      BY <1>1, <2>5 DEF ClientAlone
    <3>2. CASE world'.acl = world.acl
      BY <1>2, <3>1, <3>2
    <3>3. CASE K!PutAcl(a) \/ K!PutEntry(a)
      <4>1. pc[a] \in {"put", "entries"}
        BY <3>3 DEF K!PutAcl, K!PutEntry
      <4> QED
        BY <2>4, <2>5, <4>1
    <3> QED
      BY <3>2, <3>3 DEF ClientStep
  <2>6. ASSUME loc'[a].alone, loc[a].request.op = "share", pc'[a] \in {"put", "entries", "done"}
        PROVE  NotLower(a)
    <3>1. OthersIdle(a) /\ pc[a] \in {"acl", "put", "entries"}
      BY <1>2, <2>6
    <3>2. CASE pc[a] \in {"put", "entries"}
      BY <2>4, <2>6, <3>1, <3>2
    <3>3. CASE pc[a] = "acl"
      <4> DEFINE l == loc[a]
                 r == l.request
      <4>1. K!ReadAcl(a)
        BY <3>3, AtAcl DEF K!PutAcl, K!PutEntry, K!EntriesPut
      <4>2. \A u \in r.users : ~K!access_level_reduced(r.level, world.acl[l.target][u])
        BY <1>1, <2>6, <4>1, AclParts
      <4>3. l.target \in K!Old
        <5>1. l.target \in K!Ids /\ (l.target \in K!Old \/ world.cluster[l.target] # Absent)
          BY <1>1, <3>3, TargetIs DEF Aimed
        <5>2. ASSUME l.target \in K!New, world.cluster[l.target] # Absent PROVE FALSE
          <6>1. PICK c \in Ops : pc[c] # "idle" /\ MadeBy(world, l.target, loc[c].request)
            BY <1>1, <5>2 DEF ClientMade
          <6>2. c = a
            BY <3>1, <6>1 DEF OthersIdle
          <6> QED
            BY <2>6, <6>1, <6>2 DEF MadeBy
        <5> QED
          BY <5>1, <5>2 DEF K!Ids
      <4>4. NotLower(a) \/ \A u \in ClientUsers : world.acl[l.target][u] = world.before[u]
        BY <1>1, <2>6, <3>1, <4>3 DEF ClientAlone
      <4>5. r.level \in {1, 3} /\ r.users \subseteq ClientUsers /\ world.before \in K!Acl
        BY <1>1, <2>6, RequestParts DEF ClientLocal, ClientAsks, K!Worlds
      <4>6. ASSUME NEW u \in r.users, world.acl[l.target][u] = world.before[u]
            PROVE  world.before[u] <= r.level
        <5>1. world.before[u] \in 0..3
          BY <4>5 DEF K!Acl, K!Level
        <5>2. ~K!access_level_reduced(r.level, world.before[u])
          BY <4>2, <4>6
        <5> QED
          BY <4>5, <5>1, <5>2 DEF K!access_level_reduced
      <4> QED
        BY <4>4, <4>5, <4>6 DEF NotLower
    <3> QED
      BY <3>1, <3>2, <3>3
  <2> QED
    BY <1>2, <1>3, <1>5, <2>2, <2>3, <2>5, <2>6 DEF ClientAlone
<1> QED
  BY <1>4, <1>5

LEMMA ClientNextInv ==
  ASSUME ClientInv, [K!Next]_(K!procedureVars)
  PROVE  ClientInv'
<1>1. CASE UNCHANGED K!procedureVars
  <2>1. world' = world /\ loc' = loc /\ pc' = pc /\ faults' = faults
    BY <1>1 DEF K!procedureVars
  <2> QED
    BY <2>1 DEF ClientInv, K!TypeOK, ClientAlone, OthersIdle, NotLower, ClientMade, LiveIn, ClientAcl,
      UserNamed, Disturbed
<1>2. CASE K!Next
  <2>1. K!TypeOK /\ \A b \in Ops : ClientLocal(world, pc[b], loc[b])
    BY DEF ClientInv
  <2>2. PICK a \in Ops : ClientStep(a) /\ ClientAction(a)
    BY <1>2, <2>1, ClientNextStep
  <2>3. K!TypeOK' /\ \A b \in Ops : ClientLocal(world', pc'[b], loc'[b])
    BY <2>1, <2>2, StepParts
  <2>4. ClientMade'
    BY <2>2, MadeKept, MadeMore DEF ClientStep
  <2>5. ClientAcl'
    BY <2>2, AclStays
  <2>6. \A b \in Ops : ClientAlone(b)'
    BY <2>2, AloneStays
  <2> QED
    BY <2>3, <2>4, <2>5, <2>6 DEF ClientInv
<1> QED
  BY <1>1, <1>2

-----------------------------------------------------------------------------
\* Commands that are typed are like what ClientAsks says.
LEMMA TypedIs ==
  ASSUME NEW op, NEW runtime, NEW id, NEW org, NEW sysadmin, NEW rights, NEW users, NEW level
  PROVE  LET r == K!Typed(op, runtime, id, org, sysadmin, rights, users, level)
         IN  /\ r.op = op /\ r.runtime = runtime /\ r.id = id /\ r.org = org /\ r.sysadmin = sysadmin
             /\ r.rights = rights /\ r.users = users /\ r.level = level
             /\ op \in K!Commands /\ runtime \in K!Kinds \cup {Absent} /\ id \in K!Ids \cup {Absent}
                /\ org \in K!Orgs \cup {Absent} /\ sysadmin \in BOOLEAN /\ rights \in SUBSET K!Kinds
                /\ users \in SUBSET ClientUsers /\ level \in K!Level => r \in K!Requests
BY DEF K!Typed, K!Requests

LEMMA CommandIs ==
  ASSUME NEW ops \in SUBSET K!Commands, NEW runtimes \in SUBSET K!AnyRuntime,
         NEW ids \in SUBSET K!NameOrId, NEW r \in K!Command(ops, runtimes, ids)
  PROVE  /\ r \in K!Requests /\ r.op \in ops /\ r.runtime \in runtimes /\ r.id \in ids
         /\ (~r.sysadmin => r.org = Absent) /\ r.users = {} /\ r.level = 0
<1>1. PICK who \in K!Askers, op \in ops, runtime \in runtimes, id \in ids, rights \in SUBSET K!Kinds :
        r = K!TypedBy(who, op, runtime, id, rights)
  BY DEF K!Command
<1>2. who.sysadmin \in BOOLEAN /\ who.org \in {Absent, "other"} /\ (~who.sysadmin => who.org = Absent)
  <2>1. CASE who = [sysadmin |-> FALSE, org |-> Absent]
    BY <2>1
  <2>2. CASE who = [sysadmin |-> TRUE, org |-> Absent]
    BY <2>2
  <2>3. CASE who = [sysadmin |-> TRUE, org |-> "other"]
    BY <2>3
  <2> QED
    BY <2>1, <2>2, <2>3 DEF K!Askers
<1>3. /\ op \in K!Commands /\ runtime \in K!Kinds \cup {Absent} /\ id \in K!Ids \cup {Absent}
      /\ who.org \in K!Orgs \cup {Absent} /\ {} \in SUBSET ClientUsers /\ 0 \in K!Level
  BY <1>2 DEF K!AnyRuntime, K!NameOrId, K!Ids, K!Old, K!Orgs, K!Level
<1>4. r = K!Typed(op, runtime, id, who.org, who.sysadmin, rights, {}, 0)
  BY <1>1 DEF K!TypedBy
<1> QED
  BY <1>2, <1>3, <1>4, TypedIs

LEMMA NamedIs ==
  ASSUME NEW commands \in SUBSET K!Requests, NEW levels \in SUBSET K!Level,
         NEW r \in K!Named(commands, levels)
  PROVE  /\ r \in K!Requests /\ r.level \in levels
         /\ \E q \in commands : /\ r.op = q.op /\ r.runtime = q.runtime /\ r.id = q.id
                                /\ r.org = q.org /\ r.sysadmin = q.sysadmin
<1>1. PICK q \in commands, l \in levels : r = K!NamedBy(q, l)
  BY DEF K!Named
<1>2. {K!AnyUser} \in SUBSET ClientUsers
  BY ClientAssumption DEF K!AnyUser
<1> QED
  BY <1>1, <1>2 DEF K!Requests, K!NamedBy

LEMMA AllCommandsAsk ==
  ASSUME NEW r \in K!AllCommands, r.op \in {"create", "apply"} => r.rights = K!Kinds
  PROVE  r \in K!Requests /\ ClientAsks(r)
<1> DEFINE Like(ops, runtimes) ==
             /\ r \in K!Requests /\ r.op \in ops /\ r.runtime \in runtimes
             /\ r.id \in K!NameOrId /\ (~r.sysadmin => r.org = Absent)
<1>1. \A ops \in SUBSET K!Commands, runtimes \in SUBSET K!AnyRuntime, ids \in SUBSET K!NameOrId :
        r \in K!Command(ops, runtimes, ids) => Like(ops, runtimes) /\ r.id \in ids
  BY CommandIs
<1>2. \A op \in K!Commands, levels \in SUBSET K!Level :
        r \in K!Named(K!Command({op}, K!AnyRuntime, K!NameOrId), levels) =>
          Like({op}, K!AnyRuntime) /\ r.level \in levels
  <2> SUFFICES ASSUME NEW op \in K!Commands, NEW levels \in SUBSET K!Level,
                      r \in K!Named(K!Command({op}, K!AnyRuntime, K!NameOrId), levels)
               PROVE  Like({op}, K!AnyRuntime) /\ r.level \in levels
    OBVIOUS
  <2> DEFINE all == K!Command({op}, K!AnyRuntime, K!NameOrId)
  <2>1. \A q \in all : /\ q \in K!Requests /\ q.op = op /\ q.runtime \in K!AnyRuntime
                       /\ q.id \in K!NameOrId /\ (~q.sysadmin => q.org = Absent)
    <3> SUFFICES ASSUME NEW q \in all
                 PROVE  /\ q \in K!Requests /\ q.op = op /\ q.runtime \in K!AnyRuntime
                        /\ q.id \in K!NameOrId /\ (~q.sysadmin => q.org = Absent)
      OBVIOUS
    <3> DEFINE ops == {op}
               runtimes == K!AnyRuntime
               ids == K!NameOrId
    <3>1. ops \in SUBSET K!Commands /\ runtimes \in SUBSET K!AnyRuntime /\ ids \in SUBSET K!NameOrId
      OBVIOUS
    <3>2. q \in K!Command(ops, runtimes, ids)
      OBVIOUS
    <3> HIDE DEF ops, runtimes, ids
    <3>3. /\ q \in K!Requests /\ q.op \in ops /\ q.runtime \in runtimes /\ q.id \in ids
          /\ (~q.sysadmin => q.org = Absent)
      BY <3>1, <3>2, CommandIs
    <3> QED
      BY <3>3 DEF ops, runtimes, ids
  <2>2. r \in K!Named(all, levels)
    OBVIOUS
  <2> HIDE DEF all
  <2>3. all \in SUBSET K!Requests
    BY <2>1
  <2> QED
    BY <2>1, <2>2, <2>3, NamedIs
<1>3. /\ Absent \in K!AnyRuntime /\ K!Kinds \in SUBSET K!AnyRuntime /\ Absent \in K!NameOrId
      /\ {Absent} \in SUBSET K!AnyRuntime /\ {Absent} \in SUBSET K!NameOrId
      /\ K!AnyRuntime \in SUBSET K!AnyRuntime /\ K!NameOrId \in SUBSET K!NameOrId
      /\ {1, 3} \in SUBSET K!Level /\ {0} \in SUBSET K!Level
  BY DEF K!AnyRuntime, K!NameOrId, K!Level
<1>4. /\ r \in K!Requests /\ r.id \in K!NameOrId /\ (~r.sysadmin => r.org = Absent)
      /\ r.op = "nfs" => r.runtime = Absent
      /\ r.op \in {"create", "resize"} => r.runtime = Absent /\ r.id = Absent
      /\ r.op = "apply" => r.runtime \in K!Kinds
      /\ r.op = "share" => r.level \in {1, 3}
  <2>1. CASE r \in K!Deletions
    <3>1. {"delete", "force"} \in SUBSET K!Commands
      BY DEF K!Commands
    <3> QED
      BY <1>1, <1>3, <2>1, <3>1 DEF K!Deletions
  <2>2. CASE r \in K!Creates
    <3>1. {"create"} \in SUBSET K!Commands
      BY DEF K!Commands
    <3>2. Like({"create"}, {Absent}) /\ r.id \in {Absent}
      BY <1>1, <1>3, <2>2, <3>1 DEF K!Creates
    <3> QED
      BY <3>2
  <2>3. CASE r \in K!Resizes
    <3>1. {"resize"} \in SUBSET K!Commands
      BY DEF K!Commands
    <3>2. Like({"resize"}, {Absent}) /\ r.id \in {Absent}
      BY <1>1, <1>3, <2>3, <3>1 DEF K!Resizes
    <3> QED
      BY <3>2
  <2>4. CASE r \in K!Applies
    BY <1>1, <1>3, <2>4 DEF K!Applies, K!Commands
  <2>5. CASE r \in K!NfsDeletions
    BY <1>1, <1>3, <2>5 DEF K!NfsDeletions, K!Commands
  <2>6. CASE r \in K!Plans
    BY <1>1, <1>3, <2>6 DEF K!Plans, K!Commands
  <2>7. CASE r \in K!Upgrades
    BY <1>1, <1>3, <2>7 DEF K!Upgrades, K!Commands
  <2>8. CASE r \in K!Configs
    BY <1>1, <1>3, <2>8 DEF K!Configs, K!Commands
  <2>9. CASE r \in K!Infos
    BY <1>1, <1>3, <2>9 DEF K!Infos, K!Commands
  <2>10. CASE r \in K!Shares
    BY <1>2, <1>3, <2>10 DEF K!Shares, K!Commands
  <2>11. CASE r \in K!ShareLists
    <3>1. {"share-list"} \in SUBSET K!Commands
      BY DEF K!Commands
    <3>2. Like({"share-list"}, K!AnyRuntime) /\ r.id \in K!NameOrId
      BY <1>1, <1>3, <2>11, <3>1 DEF K!ShareLists
    <3> QED
      BY <3>2
  <2>12. CASE r \in K!Unshares
    BY <1>2, <1>3, <2>12 DEF K!Unshares, K!Commands
  <2> QED
    BY <2>1, <2>2, <2>3, <2>4, <2>5, <2>6, <2>7, <2>8, <2>9, <2>10, <2>11, <2>12 DEF K!AllCommands
<1> HIDE DEF Like
<1> QED
  BY <1>4 DEF ClientAsks, K!NameOrId

\* The world and the commands as they begin.
WorldOf(one, two, acl, server, profile) ==
  /\ {one, two} \subseteq K!Clusters \cup {Absent}
  /\ acl \in K!Acl /\ server \in {"down", "legacy", "full"} /\ profile \in K!Profiles
LEMMA WorldIs ==
  ASSUME NEW one, NEW two, NEW acl, NEW server, NEW profile, WorldOf(one, two, acl, server, profile),
         NEW w, w = K!World(one, two, acl, server, profile)
  PROVE  /\ w \in K!Worlds /\ w.cluster[1] = one /\ w.cluster[2] = two
         /\ \A i \in K!New : w.cluster[i] = Absent
         /\ \A i \in K!Old : w.acl[i] = acl
         /\ w.before = acl /\ w.server = server /\ w.profile = profile
<1> DEFINE c == [i \in K!Ids |-> CASE i = 1 -> one [] i = 2 -> two [] OTHER -> Absent]
           m == [i \in K!Ids |-> IF i \in K!Old THEN acl ELSE K!NoAcl]
<1>1. w = [cluster |-> c, acl |-> m, before |-> acl, server |-> server, profile |-> profile]
  BY DEF K!World
<1>0. /\ one \in K!Clusters \cup {Absent} /\ two \in K!Clusters \cup {Absent}
      /\ acl \in K!Acl /\ server \in {"down", "legacy", "full"} /\ profile \in K!Profiles
  BY DEF WorldOf
<1>2. /\ c \in [K!Ids -> K!Clusters \cup {Absent}] /\ c[1] = one /\ c[2] = two
      /\ \A i \in K!New : c[i] = Absent
  BY <1>0 DEF K!Ids, K!Old, K!New
<1>3. m \in [K!Ids -> K!Acl] /\ \A i \in K!Old : m[i] = acl
  <2>1. K!NoAcl \in K!Acl
    BY DEF K!NoAcl, K!Acl, K!Level
  <2> QED
    BY <1>0, <2>1 DEF K!Ids
<1> HIDE DEF c, m
<1> QED
  BY <1>0, <1>1, <1>2, <1>3 DEF K!Worlds

LEMMA StartedIs ==
  ASSUME NEW r \in K!Requests, NEW l, l = K!Started(r)
  PROVE  l \in K!Locals /\ l.request = r /\ l.raw = FALSE /\ l.alone = TRUE /\ l.session = Absent
<1>1. K!NoAcl \in K!Acl
  BY DEF K!NoAcl, K!Acl, K!Level
<1> QED
  BY <1>1 DEF K!Started, K!Locals

LEMMA NothingIs == K!Nothing \in K!Locals /\ ClientAsks(K!Nothing.request) /\ K!Nothing.alone = TRUE
<1> DEFINE r == K!Typed("info", Absent, Absent, Absent, FALSE, {}, {}, 0)
<1>1. /\ "info" \in K!Commands /\ {} \in SUBSET K!Kinds /\ {} \in SUBSET ClientUsers /\ 0 \in K!Level
  BY DEF K!Commands, K!Level
<1>2. /\ r \in K!Requests /\ r.op = "info" /\ r.id = Absent /\ r.org = Absent /\ r.sysadmin = FALSE
  BY <1>1 DEF K!Typed, K!Requests
<1>3. ClientAsks(r)
  BY <1>2 DEF ClientAsks
<1> HIDE DEF r
<1>4. K!Nothing = K!Started(r)
  BY DEF K!Nothing, r
<1> QED
  BY <1>2, <1>3, <1>4, StartedIs

LEMMA Begun ==
  ASSUME K!TypeOK,
         \A i \in K!New : world.cluster[i] = Absent,
         \A i \in K!Old : world.acl[i] = world.before,
         \A b \in Ops : /\ pc[b] \in {"idle", "filter", "found"}
                        /\ loc[b].alone = TRUE /\ ClientAsks(loc[b].request),
         \A b \in Ops : pc[b] = "found" => ClientLocal(world, "found", loc[b])
  PROVE  ClientInv
<1>1. \A b \in Ops : ClientLocal(world, pc[b], loc[b])
  BY LocalFailed
<1>2. \A b \in Ops : ClientAlone(b)
  BY DEF ClientAlone
<1>3. ClientMade
  BY DEF ClientMade, LiveIn
<1>4. ClientAcl
  BY DEF ClientAcl
<1> QED
  BY <1>1, <1>2, <1>3, <1>4 DEF ClientInv

LEMMA ClusterIs ==
  ASSUME NEW kind \in K!Kinds, NEW org \in K!Orgs, NEW c, c = K!Cluster(kind, org)
  PROVE  c \in K!Clusters /\ c # Absent /\ c.kind = kind /\ c.org = org
<1>1. c \in K!Clusters
  BY DEF K!Cluster, K!Clusters
<1> QED
  BY <1>1, ClientAssumption DEF K!Cluster

\* One command, and the others have not begun.
LEMMA BegunOne ==
  ASSUME K!InitOne
  PROVE  ClientInv
<1>1. PICK r \in K!AllCommands, s \in K!Sessions, one \in [kind : K!Kinds, org : K!Orgs],
           two \in {Absent} \cup [kind : K!Kinds, org : K!Orgs], a \in Ops :
        (r.rights = K!Kinds \/ r.op \in {"delete", "share"}) /\ K!Begins(a, r, s, one, two)
  <2>1. {"own"} \in SUBSET K!Orgs
    BY DEF K!Orgs
  <2> QED
    BY <2>1 DEF K!InitOne
<1>2. r \in K!Requests /\ ClientAsks(r)
  <2>1. r.op \in {"create", "apply"} => r.rights = K!Kinds
    BY <1>1
  <2> QED
    BY <2>1, AllCommandsAsk
<1> DEFINE acl == [K!NoAcl EXCEPT ![K!AnyUser] = 2]
           made(c) == IF c = Absent THEN Absent ELSE K!Cluster(c.kind, c.org)
<1>3. acl \in K!Acl
  <2>1. K!NoAcl \in [ClientUsers -> K!Level] /\ 2 \in K!Level
    BY DEF K!NoAcl, K!Level
  <2> QED
    BY <2>1 DEF K!Acl
<1>4. \A c \in {Absent} \cup [kind : K!Kinds, org : K!Orgs] : made(c) \in K!Clusters \cup {Absent}
  BY ClusterIs
<1>5. s[1] \in {"down", "legacy", "full"} /\ s[2] \in K!Profiles
  <2>1. /\ K!FirstUse \in K!Profiles /\ [running |-> FALSE, version |-> Absent] \in K!Profiles
        /\ [running |-> TRUE, version |-> "full"] \in K!Profiles
    BY DEF K!FirstUse, K!Profiles
  <2>2. CASE s = <<"full", K!FirstUse>>
    BY <2>1, <2>2
  <2>3. CASE s = <<"down", K!FirstUse>>
    BY <2>1, <2>3
  <2>4. CASE s = <<"legacy", K!FirstUse>>
    BY <2>1, <2>4
  <2>5. CASE s = <<"full", [running |-> FALSE, version |-> Absent]>>
    BY <2>1, <2>5
  <2>6. CASE s = <<"legacy", [running |-> TRUE, version |-> "full"]>>
    BY <2>1, <2>6
  <2> QED
    BY <2>2, <2>3, <2>4, <2>5, <2>6 DEF K!Sessions
<1>6. /\ world = K!World(made(one), made(two), acl, s[1], s[2])
      /\ K!Alone(a, "filter", K!Started(r), K!Nothing)
  BY <1>1 DEF K!Begins
<1> HIDE DEF acl, made
<1>7. /\ world \in K!Worlds /\ \A i \in K!New : world.cluster[i] = Absent
      /\ \A i \in K!Old : world.acl[i] = world.before
  <2>1. WorldOf(made(one), made(two), acl, s[1], s[2])
    BY <1>3, <1>4, <1>5 DEF WorldOf
  <2> QED
    BY <1>6, <2>1, WorldIs
<1>8. /\ pc = [b \in Ops |-> IF b = a THEN "filter" ELSE "idle"]
      /\ loc = [b \in Ops |-> IF b = a THEN K!Started(r) ELSE K!Nothing] /\ faults = 0
  BY <1>6 DEF K!Alone
<1>9. ASSUME NEW b \in Ops
      PROVE  loc[b] \in K!Locals /\ ClientAsks(loc[b].request) /\ loc[b].alone = TRUE
  <2>1. CASE b = a
    BY <1>2, <1>8, <2>1, StartedIs
  <2>2. CASE b # a
    BY <1>8, <2>2, NothingIs
  <2> QED
    BY <2>1, <2>2
<1>10. K!TypeOK
  <2>1. loc \in [Ops -> K!Locals] /\ DOMAIN pc = Ops
    BY <1>8, <1>9
  <2> QED
    BY <1>7, <1>8, <2>1, ThreadsAssumption DEF K!TypeOK
<1> QED
  BY <1>7, <1>8, <1>9, <1>10, NoName, Begun

\* Commands that have found their cluster and change its ACL at once.
LEMMA FoundIs ==
  ASSUME NEW w, NEW l, NEW kind \in K!Kinds, NEW i \in K!Old,
         w.cluster[i] # Absent, w.cluster[i].kind = kind, w.cluster[i].org = "own",
         \A j \in K!Old \ {i} : w.cluster[j].kind # kind,
         w.server = "full", w.profile = [running |-> TRUE, version |-> "full"],
         ClientAsks(l.request), l.request.op \in {"share", "unshare"}, l.request.runtime = kind,
         l.request.id = Absent, l.request.org = Absent, ~l.request.sysadmin,
         l.session = "full", l.class = kind, l.org = "own", l.target = i, ~l.raw
  PROVE  ClientLocal(w, "found", l)
<1>1. /\ w.profile.running = TRUE /\ w.profile.version = "full"
      /\ l.request.op \notin {"create", "resize", "nfs", "apply"} \cup {"plan", "upgrade"}
  OBVIOUS
<1>2. ClientSession(w, "found", l)
  BY <1>1, NoName DEF ClientSession, K!Asked, K!SessionOf, K!Hidden
<1>3. ClientClass("found", l)
  BY <1>1, NoName DEF ClientClass, FilterOf, K!TenantOrg, K!Kinds
<1>4. ClientTarget(w, "found", l)
  <2>1. ~Either(l)
    BY <1>1, NoName DEF Either, K!Runtime, K!Kinds
  <2>2. May(w, l, i)
    BY ClientIds DEF May
  <2> QED
    BY <2>1, <2>2, NoName DEF ClientTarget, Chosen, Aimed, ShownIn, K!Kinds
<1> QED
  BY <1>2, <1>3, <1>4 DEF ClientLocal, ClientPcs

LEMMA BegunAcl ==
  ASSUME K!InitAcl, faults = 0
  PROVE  ClientInv
<1>1. PICK acl \in [ClientUsers -> {0, 2}], kind \in K!Kinds :
        /\ world = K!World(K!Cluster("native", "own"), K!Cluster("TKG-S", "own"), acl, "full",
                           [running |-> TRUE, version |-> "full"])
        /\ \E op \in [Ops -> {"share", "unshare"}], users \in [Ops -> SUBSET ClientUsers \ {{}}],
              level \in [Ops -> {1, 3}] : K!Finding(kind, op, users, level)
        /\ pc = [a \in Ops |-> "found"]
  BY DEF K!InitAcl
<1>2. PICK op \in [Ops -> {"share", "unshare"}], users \in [Ops -> SUBSET ClientUsers \ {{}}],
           level \in [Ops -> {1, 3}] : K!Finding(kind, op, users, level)
  BY <1>1
<1> DEFINE one == K!Cluster("native", "own")
           two == K!Cluster("TKG-S", "own")
           profile == [running |-> TRUE, version |-> "full"]
<1>3. /\ one \in K!Clusters /\ one # Absent /\ one.kind = "native" /\ one.org = "own"
      /\ two \in K!Clusters /\ two # Absent /\ two.kind = "TKG-S" /\ two.org = "own"
  BY ClusterIs DEF K!Kinds, K!Orgs
<1>4. acl \in K!Acl /\ profile \in K!Profiles
  BY DEF K!Acl, K!Level, K!Profiles
<1>5. world = K!World(one, two, acl, "full", profile)
  BY <1>1
<1> HIDE DEF one, two
<1>6. /\ world \in K!Worlds /\ world.cluster[1] = one /\ world.cluster[2] = two
      /\ \A i \in K!New : world.cluster[i] = Absent
      /\ \A i \in K!Old : world.acl[i] = world.before
      /\ world.server = "full" /\ world.profile = profile
  <2>1. WorldOf(one, two, acl, "full", profile)
    BY <1>3, <1>4 DEF WorldOf
  <2> QED
    BY <1>5, <2>1, WorldIs
<1>7. ASSUME NEW a \in Ops
      PROVE  /\ loc[a] \in K!Locals /\ ClientAsks(loc[a].request) /\ loc[a].alone = TRUE
             /\ ClientLocal(world, "found", loc[a])
  <2> DEFINE r == K!Typed(op[a], kind, Absent, Absent, FALSE, K!Kinds, users[a], level[a])
             l == K!Started(r)
             i == IF kind = "native" THEN 1 ELSE 2
  <2>1. /\ r \in K!Requests /\ r.op = op[a] /\ r.runtime = kind /\ r.id = Absent /\ r.org = Absent
        /\ r.sysadmin = FALSE /\ r.rights = K!Kinds /\ r.level = level[a]
    BY DEF K!Typed, K!Requests, K!Commands, K!Level
  <2>2. op[a] \in {"share", "unshare"} /\ level[a] \in {1, 3}
    OBVIOUS
  <2> HIDE DEF r
  <2>3. l \in K!Locals /\ l.request = r /\ l.raw = FALSE /\ l.alone = TRUE
    BY <2>1, StartedIs
  <2>4. loc[a] = [l EXCEPT !.session = "full", !.class = kind, !.org = "own", !.target = i]
    BY <1>2 DEF K!Finding, r
  <2>5. i \in K!Old /\ i \in K!Ids
    BY DEF K!Old, K!Ids
  <2>6. /\ world.cluster[i] # Absent /\ world.cluster[i].kind = kind /\ world.cluster[i].org = "own"
        /\ \A j \in K!Old \ {i} : world.cluster[j].kind # kind
    BY <1>3, <1>6 DEF K!Old, K!Kinds
  <2> HIDE DEF l, i
  <2>7. /\ loc[a] \in K!Locals /\ loc[a].request = r /\ loc[a].raw = FALSE /\ loc[a].alone = TRUE
        /\ loc[a].session = "full" /\ loc[a].class = kind /\ loc[a].org = "own" /\ loc[a].target = i
    BY <2>3, <2>4, <2>5 DEF K!Locals, K!Kinds, K!Orgs
  <2>8. ClientAsks(r)
    BY <2>1, <2>2 DEF ClientAsks
  <2>9. ClientLocal(world, "found", loc[a])
    BY <1>6, <2>1, <2>2, <2>5, <2>6, <2>7, <2>8, FoundIs
  <2> QED
    BY <2>7, <2>8, <2>9
<1>8. loc \in [Ops -> K!Locals] /\ DOMAIN pc = Ops /\ \A a \in Ops : pc[a] = "found"
  BY <1>1, <1>2, <1>7 DEF K!Finding
<1>9. K!TypeOK
  BY <1>6, <1>8, ThreadsAssumption DEF K!TypeOK
<1> QED
  BY <1>6, <1>7, <1>8, <1>9, Begun

\* Commands that begin at once.
LEMMA BegunApply ==
  ASSUME K!InitApply, faults = 0
  PROVE  ClientInv
<1>1. PICK one \in K!Clusters \cup {Absent} :
        world = K!World(one, Absent, K!NoAcl, "full", K!FirstUse)
  <2>1. PICK c \in {Absent} \cup {K!Cluster(kind, "own") : kind \in K!Kinds} :
          world = K!World(c, Absent, K!NoAcl, "full", K!FirstUse)
    BY DEF K!InitApply
  <2>2. "own" \in K!Orgs
    BY DEF K!Orgs
  <2>3. c \in K!Clusters \cup {Absent}
    BY <2>2, ClusterIs
  <2> QED
    BY <2>1, <2>3
<1>2. PICK op \in [Ops -> {"apply", "delete", "upgrade"}], runtime \in [Ops -> K!Kinds] :
        loc = [a \in Ops |-> K!Started(
                 K!Typed(op[a], runtime[a], Absent, Absent, FALSE, K!Kinds, {}, 0))]
  BY DEF K!InitApply
<1>3. pc = [a \in Ops |-> "filter"]
  BY DEF K!InitApply
<1>4. K!NoAcl \in K!Acl /\ K!FirstUse \in K!Profiles
  BY DEF K!NoAcl, K!Acl, K!Level, K!FirstUse, K!Profiles
<1>5. /\ world \in K!Worlds /\ \A i \in K!New : world.cluster[i] = Absent
      /\ \A i \in K!Old : world.acl[i] = world.before
  <2>1. WorldOf(one, Absent, K!NoAcl, "full", K!FirstUse)
    BY <1>4 DEF WorldOf
  <2> QED
    BY <1>1, <2>1, WorldIs
<1>6. ASSUME NEW a \in Ops
      PROVE  loc[a] \in K!Locals /\ ClientAsks(loc[a].request) /\ loc[a].alone = TRUE
  <2> DEFINE r == K!Typed(op[a], runtime[a], Absent, Absent, FALSE, K!Kinds, {}, 0)
  <2>1. /\ r \in K!Requests /\ r.op \in {"apply", "delete", "upgrade"} /\ r.runtime \in K!Kinds
        /\ r.id = Absent /\ r.org = Absent /\ r.sysadmin = FALSE /\ r.rights = K!Kinds
    BY DEF K!Typed, K!Requests, K!Commands, K!Level
  <2>2. loc[a] = K!Started(r)
    BY <1>2
  <2> HIDE DEF r
  <2>3. loc[a] \in K!Locals /\ loc[a].request = r /\ loc[a].alone = TRUE
    BY <2>1, <2>2, StartedIs
  <2> QED
    BY <2>1, <2>3 DEF ClientAsks
<1>7. loc \in [Ops -> K!Locals] /\ DOMAIN pc = Ops /\ \A a \in Ops : pc[a] = "filter"
  BY <1>2, <1>3, <1>6
<1>8. K!TypeOK
  BY <1>5, <1>7, ThreadsAssumption DEF K!TypeOK
<1> QED
  BY <1>5, <1>6, <1>7, <1>8, Begun

LEMMA ClientInitInv ==
  ASSUME K!Init
  PROVE  ClientInv
BY BegunOne, BegunAcl, BegunApply DEF K!Init

LEMMA DoneIs ==
  ASSUME ClientInv, NEW a \in Ops, K!Done(a)
  PROVE  LET l == loc[a] IN
         /\ l \in K!Locals /\ ClientClass("done", l) /\ ClientTarget(world, "done", l)
         /\ ClientAsks(l.request) /\ l.org = FilterOf(l.request) /\ l.request \in K!Requests
         /\ l.class \in {"legacy", "native", "TKG-S"}
         /\ l.request.id = Absent => /\ May(world, l, l.target)
                                     /\ l.class = "legacy" \/ world.cluster[l.target].kind = l.class
                                     /\ l.class = "legacy" => world.cluster[l.target].kind = "native"
         /\ l.request.id # Absent => l.target = l.request.id /\ l.target = 1
<1> DEFINE l == loc[a]
<1>1. /\ l \in K!Locals /\ ClientLocal(world, "done", l)
  BY DEF ClientInv, K!TypeOK, K!Done
<1>2. /\ ClientClass("done", l) /\ ClientTarget(world, "done", l) /\ ClientAsks(l.request)
      /\ l.class \in {"legacy", "native", "TKG-S", "mixed", Absent}
      /\ l.request.id \in K!Ids \cup {Absent}
  BY <1>1, RequestParts DEF ClientLocal
<1>3. l.org = FilterOf(l.request) /\ l.class \in {"legacy", "native", "TKG-S"}
  BY <1>2, NoName DEF ClientClass, Chosen, K!Kinds
<1>4. l.request.id = Absent => /\ May(world, l, l.target)
                               /\ l.class = "legacy" \/ world.cluster[l.target].kind = l.class
                               /\ l.class = "legacy" => world.cluster[l.target].kind = "native"
  BY <1>2 DEF ClientTarget, Aimed
<1>5. l.request.id # Absent => l.target = l.request.id /\ l.target = 1
  BY <1>2 DEF ClientTarget, Chosen, ClientAsks
<1> QED
  BY <1>1, <1>2, <1>3, <1>4, <1>5, RequestParts

LEMMA ActsAsAsked ==
  ASSUME ClientInv
  PROVE  K!ActsOnItsCluster
<1> SUFFICES ASSUME NEW a \in Ops, K!Done(a)
             PROVE  LET r == loc[a].request
                        i == loc[a].target
                        c == world.cluster[i]
                    IN  IF K!ByName(a)
                        THEN /\ r.runtime \in {Absent, c.kind} \/ (loc[a].class = "legacy" /\ loc[a].raw)
                             /\ loc[a].session = "TKG-S" => c.kind = "TKG-S" \/ r.op = "nfs"
                             /\ r.sysadmin \/ c.org = "own"
                             /\ r.org \in {Absent, c.org} \/ (r.op = "apply" /\ c.kind = "native")
                        ELSE i = r.id
  BY DEF K!ActsOnItsCluster
<1> DEFINE l == loc[a]
           r == l.request
           c == world.cluster[l.target]
<1>1. /\ ClientClass("done", l) /\ ClientAsks(r) /\ l.org = FilterOf(r)
      /\ l.class \in {"legacy", "native", "TKG-S"}
      /\ r.id = Absent => /\ May(world, l, l.target)
                          /\ l.class = "legacy" \/ c.kind = l.class
                          /\ l.class = "legacy" => c.kind = "native"
      /\ r.id # Absent => l.target = r.id
  BY DoneIs
<1>2. ASSUME r.id = Absent
      PROVE  /\ r.runtime \in {Absent, c.kind} \/ (l.class = "legacy" /\ l.raw)
             /\ l.session = "TKG-S" => c.kind = "TKG-S" \/ r.op = "nfs"
             /\ r.sysadmin \/ c.org = "own"
             /\ r.org \in {Absent, c.org} \/ (r.op = "apply" /\ c.kind = "native")
  <2>1. /\ l.class = "legacy" => r.runtime = Absent \/ l.raw
        /\ l.class \in K!Kinds => r.runtime \in {Absent, l.class}
        /\ l.session = "TKG-S" => l.class = "TKG-S" \/ r.op = "nfs"
        /\ l.class = "legacy" => r.op # "apply"
    BY <1>1 DEF ClientClass, Chosen
  <2>2. (r.sysadmin \/ c.org = "own") /\ l.org \in {Absent, c.org}
    BY <1>1, <1>2 DEF May
  <2>3. r.org = Absent \/ l.org = r.org \/ (r.op = "apply" /\ r.runtime # "TKG-S")
    BY <1>1 DEF FilterOf, K!ApplyOrg, K!CreateOrg, K!TenantOrg
  <2>4. r.op = "apply" => r.runtime \in K!Kinds /\ r.runtime = c.kind
    BY <1>1, <1>2, <2>1, NoName DEF ClientAsks, K!Kinds
  <2>5. r.org \in {Absent, c.org} \/ (r.op = "apply" /\ c.kind = "native")
    BY <2>2, <2>3, <2>4 DEF K!Kinds
  <2> QED
    BY <1>1, <1>2, <2>1, <2>2, <2>5, NoName DEF K!Kinds
<1> HIDE DEF l, r, c
<1>3. K!ByName(a) <=> r.id = Absent
  BY DEF K!ByName, l, r
<1> QED
  BY <1>1, <1>2, <1>3 DEF l, r, c

LEMMA GuessesNone ==
  ASSUME ClientInv
  PROVE  K!NoGuess
<1> SUFFICES ASSUME NEW a \in Ops, K!Done(a), K!ByName(a)
             PROVE  LET l == loc[a]
                        taken == world.cluster[l.target].kind
                        kinds == IF l.session = "full" /\ K!Runtime(l) = Absent THEN K!Kinds
                                 ELSE {taken}
                    IN  \A kind \in kinds : \A j \in (K!Old \ {l.target}) \cap K!Search(l, kind) :
                          l.class = "native" /\ kind = "native" /\ taken = "native"
  BY DEF K!NoGuess
<1> DEFINE l == loc[a]
           taken == world.cluster[l.target].kind
           kinds == IF Either(l) THEN K!Kinds ELSE {taken}
<1>1. /\ ClientClass("done", l) /\ ClientTarget(world, "done", l)
      /\ l.class \in {"legacy", "native", "TKG-S"}
      /\ l.class = "legacy" \/ taken = l.class
      /\ l.request.id = Absent
  BY DoneIs DEF K!ByName
<1>2. /\ l.class # "native" => \A j \in K!Old \ {l.target} : ~ShownIn(world, l, j, taken)
      /\ Either(l) /\ l.class \in K!Kinds => \A kind \in K!Kinds \ {l.class} : NoOld(world, l, kind)
  BY <1>1 DEF ClientTarget, Chosen, Aimed
<1>3. l.class = "legacy" => ~Either(l)
  BY <1>1 DEF ClientClass, Chosen, Either
<1>4. ASSUME NEW kind \in kinds, NEW j \in K!Old \ {l.target}, ShownIn(world, l, j, kind)
      PROVE  l.class = "native" /\ kind = "native" /\ taken = "native"
  <2>1. CASE Either(l)
    BY <1>1, <1>2, <1>3, <1>4, <2>1 DEF NoOld, K!Kinds
  <2>2. CASE ~Either(l)
    BY <1>1, <1>2, <1>4, <2>2
  <2> QED
    BY <2>1, <2>2
<1>5. \A kind, j : j \in K!Search(l, kind) => ShownIn(world, l, j, kind)
  BY SearchIs
<1> QED
  BY <1>4, <1>5 DEF Either

LEMMA CreatesAsAsked ==
  ASSUME ClientInv
  PROVE  K!CreatesOnce
<1>1. ClientMade /\ K!TypeOK
  BY DEF ClientInv
<1>2. ASSUME NEW a \in Ops, K!Done(a), loc[a].target \in K!New,
             world.cluster[loc[a].target].maker = a
      PROVE  K!Search(loc[a], world.cluster[loc[a].target].kind) \cap K!Old = {}
  <2> DEFINE l == loc[a]
             i == l.target
  <2>1. l.org = FilterOf(l.request) /\ (l.request.id = Absent => May(world, l, i))
        /\ (l.request.id # Absent => i = 1)
    BY <1>2, DoneIs
  <2>2. l.request.id = Absent
    BY <1>2, <2>1 DEF K!New
  <2>3. world.cluster[i] # Absent
    BY <2>1, <2>2 DEF May
  <2>4. MadeBy(world, i, l.request)
    BY <1>1, <1>2, <2>3 DEF ClientMade
  <2> DEFINE m == [request |-> l.request, org |-> FilterOf(l.request)]
             kind == world.cluster[i].kind
  <2>5. \A j \in K!Old : ~ShownIn(world, m, j, kind)
    BY <2>4 DEF MadeBy, NoOld
  <2>6. \A j : ShownIn(world, l, j, kind) <=> ShownIn(world, m, j, kind)
    BY <2>1 DEF ShownIn
  <2> HIDE DEF m, kind
  <2>7. \A j \in K!Search(l, kind) : ShownIn(world, l, j, kind)
    BY SearchIs
  <2>8. K!Search(l, kind) \cap K!Old = {}
    BY <2>5, <2>6, <2>7
  <2> QED
    BY <2>8 DEF kind
<1>3. \A i, j \in K!New :
        K!Live(i) /\ K!Live(j) /\ world.cluster[i].maker = world.cluster[j].maker => i = j
  BY <1>1 DEF ClientMade, LiveIn, K!Live
<1> QED
  BY <1>2, <1>3 DEF K!CreatesOnce

LEMMA AclAsAsked ==
  ASSUME ClientInv
  PROVE  K!AclAsAsked
<1>1. ClientAcl /\ \A a \in Ops : ClientAlone(a)
  BY DEF ClientInv
<1>2. ASSUME NEW a \in Ops, K!Done(a), loc[a].request.op \in {"share", "unshare"}
      PROVE  LET r == loc[a].request
                 i == loc[a].target
             IN  /\ \A u \in r.users :
                      \/ world.acl[i][u] = IF r.op = "share" THEN r.level ELSE 0
                      \/ \E b \in Ops \ {a} : u \in loc[b].request.users \/ loc[b].stale
                 /\ r.op = "share" /\ loc[a].alone =>
                      \A u \in r.users : world.before[u] <= r.level
  <2>1. pc[a] = "done"
    BY <1>2 DEF K!Done
  <2>2. \A u \in loc[a].request.users :
          world.acl[loc[a].target][u] = Wanted(loc[a].request) \/ Disturbed(a, u)
    BY <1>1, <1>2, <2>1 DEF ClientAcl
  <2>3. loc[a].request.op = "share" /\ loc[a].alone => NotLower(a)
    BY <1>1, <2>1 DEF ClientAlone
  <2> QED
    BY <2>2, <2>3 DEF Wanted, Disturbed, NotLower
<1>3. \A i \in K!Old, u \in ClientUsers :
        (\A a \in Ops : u \notin loc[a].request.users) => world.acl[i][u] = world.before[u]
  BY <1>1 DEF ClientAcl, UserNamed
<1> QED
  BY <1>2, <1>3 DEF K!AclAsAsked

LEMMA ClientAsked == ClientInv => K!ClientsActAsAsked
BY ActsAsAsked, GuessesNone, CreatesAsAsked, AclAsAsked DEF K!ClientsActAsAsked

-----------------------------------------------------------------------------
(***************************************************************************)
(* The invariants of the services at work, and the theorems.               *)
(***************************************************************************)
SInv ==
  /\ service = "tkgm" => TkgmInv
  /\ service = "native 1.x" => NativeInv
  /\ service = "legacy" => VcdInv
  /\ service = "acl" => AclInv
  /\ service = "expose" => ExposeInv
  /\ service = "ovdc" => OvdcInv
  /\ service = "installer" => InstInv
  /\ service = "templates" => TmplInv
  /\ service = "pks" => PksInv
  /\ service = "client" => ClientInv

\* What the proofs about the services assume.
LEMMA Assumed ==
  MaxFaults \in Nat /\ ExposeAssumption
BY ThreadsAssumption, ResourcesAssumption DEF ExposeAssumption

\* A behaviour is one of one service.
LEMMA InitSInv == Init => SInv
<1> SUFFICES ASSUME Init PROVE SInv
  OBVIOUS
<1>1. /\ service = "tkgm" => T!Init
      /\ service = "native 1.x" => X!Init
      /\ service = "legacy" => L!Init
      /\ service = "acl" => C!Init
      /\ service = "expose" => E!Init
      /\ service = "ovdc" => V!Init
      /\ service = "installer" => I!Init
      /\ service = "templates" => B!Init
      /\ service = "pks" => P!Init
      /\ service = "client" => K!Init
  BY DEF Init
<1>2. service = "legacy" => VcdInv
  BY <1>1, VcdInitInv
<1>3. service = "acl" => AclInv
  BY <1>1, Assumed, AclInitInv
<1>4. service = "expose" => ExposeInv
  BY <1>1, Assumed, ExposeInitInv
<1>5. service = "ovdc" => OvdcInv
  BY <1>1, OvdcInitInv
<1>6. service = "templates" => TmplInv
  BY <1>1, TmplInitInv
<1>7. service = "pks" => PksInv
  BY <1>1, PksInitInv
<1>8. service = "tkgm" => TkgmInv
  BY <1>1, TkgmInitInv
<1>9. service = "native 1.x" => NativeInv
  BY <1>1, NativeInitInv
<1>10. service = "installer" => InstInv
  BY <1>1, InstInitInv
<1>11. service = "client" => ClientInv
  BY <1>1, ClientInitInv
<1> QED
  BY <1>2, <1>3, <1>4, <1>5, <1>6, <1>7, <1>8, <1>9, <1>10, <1>11 DEF SInv

LEMMA OneService ==
  ASSUME [Next]_allVars
  PROVE  /\ service' = service
         /\ service = "tkgm" => [T!Next]_vars
         /\ service = "native 1.x" => [X!Next]_vars
         /\ service = "legacy" => [L!Next]_(L!allVars)
         /\ service = "acl" => [C!Next]_(C!procedureVars)
         /\ service = "expose" => [E!Next]_(E!procedureVars)
         /\ service = "ovdc" => [V!Next]_(V!procedureVars)
         /\ service = "installer" => [I!Next]_(I!procedureVars)
         /\ service = "templates" => [B!Next]_(B!procedureVars)
         /\ service = "pks" => [P!Next]_(P!procedureVars)
         /\ service = "client" => [K!Next]_(K!procedureVars)
BY DEF Next, Rest, allVars, clusterVars, brokerVars, vars, state, L!allVars, L!vars, L!state,
   L!brokerVars, C!procedureVars, E!procedureVars, V!procedureVars,
   I!procedureVars, B!procedureVars, P!procedureVars, K!procedureVars

LEMMA NextSInv ==
  ASSUME SInv, [Next]_allVars
  PROVE  SInv'
<1>1. service' = service
  BY OneService
<1>2. CASE service = "legacy"
  <2>1. VcdInv /\ [L!Next]_(L!allVars)
    BY <1>2, OneService DEF SInv
  <2> QED
    BY <1>1, <1>2, <2>1, VcdNextInv DEF SInv
<1>3. CASE service = "acl"
  <2>1. AclInv /\ [C!Next]_(C!procedureVars)
    BY <1>3, OneService DEF SInv
  <2> QED
    BY <1>1, <1>3, <2>1, Assumed, AclNextInv DEF SInv
<1>4. CASE service = "expose"
  <2>1. ExposeInv /\ [E!Next]_(E!procedureVars)
    BY <1>4, OneService DEF SInv
  <2> QED
    BY <1>1, <1>4, <2>1, Assumed, ExposeNextInv DEF SInv
<1>5. CASE service = "ovdc"
  <2>1. OvdcInv /\ [V!Next]_(V!procedureVars)
    BY <1>5, OneService DEF SInv
  <2> QED
    BY <1>1, <1>5, <2>1, OvdcNextInv DEF SInv
<1>6. CASE service = "templates"
  <2>1. TmplInv /\ [B!Next]_(B!procedureVars)
    BY <1>6, OneService DEF SInv
  <2> QED
    BY <1>1, <1>6, <2>1, TmplNextInv DEF SInv
<1>7. CASE service = "pks"
  <2>1. PksInv /\ [P!Next]_(P!procedureVars)
    BY <1>7, OneService DEF SInv
  <2> QED
    BY <1>1, <1>7, <2>1, PksNextInv DEF SInv
<1>8. CASE service = "tkgm"
  <2>1. TkgmInv /\ [T!Next]_vars
    BY <1>8, OneService DEF SInv
  <2> QED
    BY <1>1, <1>8, <2>1, TkgmNextInv DEF SInv
<1>9. CASE service = "native 1.x"
  <2>1. NativeInv /\ [X!Next]_vars
    BY <1>9, OneService DEF SInv
  <2> QED
    BY <1>1, <1>9, <2>1, NativeNextInv DEF SInv
<1>10. CASE service = "installer"
  <2>1. InstInv /\ [I!Next]_(I!procedureVars)
    BY <1>10, OneService DEF SInv
  <2> QED
    BY <1>1, <1>10, <2>1, InstNextInv DEF SInv
<1>11. CASE service = "client"
  <2>1. ClientInv /\ [K!Next]_(K!procedureVars)
    BY <1>11, OneService DEF SInv
  <2> QED
    BY <1>1, <1>11, <2>1, ClientNextInv DEF SInv
<1> QED
  BY <1>1, <1>2, <1>3, <1>4, <1>5, <1>6, <1>7, <1>8, <1>9, <1>10, <1>11 DEF SInv

LEMMA Invariant == Spec => []SInv
<1>1. SInv /\ [Next]_allVars => SInv'
  BY NextSInv
<1> QED
  BY InitSInv, <1>1, PTL DEF Spec

\* A create that was rolled back, no call failing meanwhile, leaves no entity, no vApp, no
\* token and no rule of its own, whatever kind of cluster it was to be; an update of an
\* ACL that was taken back, no other being at work, leaves the entity shared as before.
THEOREM RollbackIsCompleteHolds == Spec => []RollbackIsComplete
<1>1. SInv => RollbackIsComplete
  <2>1. AclInv => C!RollbackRestores
    BY AclOutcome
  <2> QED
    BY <2>1, TkgmAsked, NativeAsked, VcdAsked DEF SInv, RollbackIsComplete
<1> QED
  BY <1>1, Invariant, PTL

\* A deletion that ends in SUCCESS leaves nothing of the cluster that it was asked for.
THEOREM DeleteIsCompleteHolds == Spec => []DeleteIsComplete
<1>1. SInv => DeleteIsComplete
  BY TkgmAsked, NativeAsked, VcdAsked DEF SInv, DeleteIsComplete
<1> QED
  BY <1>1, Invariant, PTL

\* Between requests, no call having failed, an entity that says its cluster is exposed
\* has its DNAT rule; and an exposure that succeeded has its rule.
THEOREM ExposedHasRuleHolds == Spec => []ExposedHasRule
<1>1. SInv => ExposedHasRule
  BY TkgmAsked, NativeAsked DEF SInv, ExposedHasRule, ExposeInv
<1> QED
  BY <1>1, Invariant, PTL

\* After upgrades that all succeeded no group of nodes is left drained, and all run the
\* same version, however many upgrades overlapped.
THEOREM UpgradeIsCompleteHolds == Spec => []UpgradeIsComplete
<1>1. SInv => UpgradeIsComplete
  BY NativeAsked, VcdAsked DEF SInv, UpgradeIsComplete
<1> QED
  BY <1>1, Invariant, PTL

\* A request whose threads have ended has ended its task, whatever failed in them, and
\* however it met other requests.
THEOREM TaskEndedHolds == Spec => []TaskEnded
<1>1. SInv => TaskEnded
  BY TkgmAsked, NativeAsked, VcdAsked DEF SInv, TaskEnded
<1> QED
  BY <1>1, Invariant, PTL

\* After an update of its ACL that succeeded, and that no other overlapped, a cluster is
\* shared with the users of the organization as requested, by its entity and by its vApp
\* alike; after one that failed each user has the entry of before or the one asked for.
\* However many updates overlap, what all of them ask for a user the user has once one
\* of them has succeeded, unless one is taken back.
THEOREM AclsAgreeHolds == Spec => []AclsAgree
<1>1. SInv => AclsAgree
  BY AclOutcome DEF SInv, AclsAgree
<1> QED
  BY <1>1, Invariant, PTL

\* Two clusters are exposed by different addresses, unless one created its rule while
\* the other was between its look-up and its own.
THEOREM RulesDifferHolds == Spec => []RulesDiffer
<1>1. SInv => RulesDiffer
  BY DEF SInv, RulesDiffer, ExposeInv
<1> QED
  BY <1>1, Invariant, PTL

\* A runtime that was enabled or disabled on a VDC is all that was changed there,
\* unless another request changed the VDC meanwhile.
THEOREM OvdcAsRequestedHolds == Spec => []OvdcAsRequested
<1>1. SInv => OvdcAsRequested
  BY OvdcAsked DEF SInv, OvdcAsRequested
<1> QED
  BY <1>1, Invariant, PTL

\* However requests interleave and calls fail, no VM is left without a policy, or with
\* one that its VDC does not have.
THEOREM VmsKeepPolicyHolds == Spec => []VmsKeepPolicy
<1>1. SInv => VmsKeepPolicy
  BY DEF SInv, VmsKeepPolicy, OvdcInv
<1> QED
  BY <1>1, Invariant, PTL

\* A command that reports success leaves what the server needs, and what it looks for
\* when it starts, however often and wherever the command failed before; and the
\* extension claims the new version only when every cluster of a name of its own has
\* been migrated, or CSE was installed anew over them.
THEOREM InstallConvergesHolds == Spec => []InstallConverges
<1>1. SInv => InstallConverges
  BY InstAsked DEF SInv, InstallConverges
<1> QED
  BY <1>1, Invariant, PTL

\* The server offers templates that carry the tag of their policy, and all that carry
\* their metadata and are of a runtime it serves, in whatever order the catalog lists
\* them.  Of TKG+, when it is disabled, only what is listed right after one
\* that was skipped is offered.  A command that succeeded left its template complete and no
\* temporary vApp.
THEOREM TemplatesAreCompleteHolds == Spec => []TemplatesAreComplete
<1>1. SInv => TemplatesAreComplete
  BY TmplAsked DEF SInv, TemplatesAreComplete
<1> QED
  BY <1>1, Invariant, PTL

\* A cluster of Enterprise PKS whose creation was reported, or that resize and config
\* accept, is isolated by its own groups and rules, whatever was left of an earlier one
\* of its name; and two clusters of an organization have different names.
THEOREM PksIsIsolatedHolds == Spec => []PksIsIsolated
<1>1. SInv => PksIsIsolated
  BY PksIsolated DEF SInv, PksIsIsolated
<1> QED
  BY <1>1, Invariant, PTL

\* A command that reports success acted on the cluster that it was asked for, without a
\* guess between several of its name; it creates a cluster only if it could see none,
\* and one however often it is repeated; an ACL that it changed is as asked, unless
\* another command disturbed it, and nobody else's access has changed.
THEOREM ClientsActAsAskedHolds == Spec => []ClientsActAsAsked
<1>1. SInv => ClientsActAsAsked
  BY ClientAsked DEF SInv, ClientsActAsAsked
<1> QED
  BY <1>1, Invariant, PTL

\* The rollback of a legacy create takes away a vApp of another request only when
\* someone wanted the cluster deleted.
THEOREM OnlyOwnRollbackHolds == Spec => OnlyOwnRollback
<1>1. SInv => (service = "legacy" =>
        \A o \in Ops : pc[o] = "undo" /\ pc'[o] # "undo" /\ vapp # vapp' =>
          owner = o \/ \E p \in Ops : req[p] # Absent /\ req[p].kind = "delete")
  BY DEF SInv, VcdInv, VcdUndoInv, VcdDeletion
<1> QED
  BY <1>1, Invariant, PTL DEF Spec, OnlyOwnRollback
=============================================================================
