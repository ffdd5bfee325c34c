----------------------------- MODULE CommandProofs -----------------------------
(***************************************************************************)
(* The commands: those of the provider, cse install and cse upgrade, and   *)
(* those of the users, vcd cse.                                            *)
(*                                                                         *)
(* cse install and cse upgrade as Services runs them (I), for any clusters *)
(* there were before, any failures and any attempts.  The invariant says   *)
(* what attempts that failed may leave behind (InstLeft), and what a       *)
(* command at work has yet to do: every part it must leave is there or     *)
(* among the stages to come (InstMade), which come in an order that does   *)
(* not undo it (InstStages), and every cluster it has to migrate is        *)
(* migrated, at work or to come (InstListed, InstMoving).                  *)
(***************************************************************************)
EXTENDS Services, SequenceTheorems, TLAPS

InstTarget == I!Source("target", FALSE)
InstSteps == I!Parts \cup {"mqtt", "amqp", "update-mqtt", "update-amqp", "unregister", "drop-amqp",
                          "drop-filters", "sizing", "list-clusters", "clusters"}
InstWorlds == [mqtt : I!Descriptions \cup {Absent}, amqp : I!Descriptions \cup {Absent},
               parts : SUBSET I!Parts, rdes : SUBSET I!Rdes,
               tag : [LegacyClusters -> 0..MaxRdes],
               template : [LegacyClusters -> {"known", "unknown"}], plan : Seq(InstSteps)]

\* The stages that are still to come, and their order.
Coming(p)             == {p[i] : i \in DOMAIN p}
Then(p, from, y)       == \A i \in DOMAIN p : p[i] \in from => \E j \in DOMAIN p : i < j /\ p[j] = y
NeverAfter(p, from, to) == \A i, j \in DOMAIN p : i < j /\ p[i] \in from => p[j] \notin to

\* A cluster that the upgrade promises to migrate, and one that is migrated.
Promised(w, c) == /\ w.template[c] = "known"
                  /\ \A d \in LegacyClusters \ {c} : NameOf[d] # NameOf[c]
Moved(w, c)    == \E r \in w.rdes : r.id = w.tag[c] /\ r.vapp = c /\ r.type = "target" /\ r.resolved

\* RDEs have different ids, the one a vApp's metadata names exists, and unless names
\* are shared it is resolved and the vApp's own.
InstRdes(w) ==
  /\ \A r, s \in w.rdes : r.id = s.id => r = s
  /\ \A r \in w.rdes : r.vapp # Absent => r.name = NameOf[r.vapp]
  /\ \A c \in LegacyClusters : w.tag[c] # 0 => \E r \in w.rdes : r.id = w.tag[c]
  /\ \A c \in LegacyClusters : Promised(w, c) =>
       \A r \in w.rdes : r.id = w.tag[c] => r.vapp = c /\ r.resolved

\* What attempts that failed leave behind, at any point.
InstLeft(w, l) ==
  /\ InstRdes(w)
  /\ w.mqtt # Absent \/ w.amqp # Absent => "catalog" \in w.parts
  /\ "entity-type" \in w.parts => "schema" \in w.parts \/ w.mqtt = I!Source("3.1.0", FALSE)
  /\ w.mqtt = InstTarget \/ w.amqp = InstTarget \/ l.source = InstTarget =>
       l.installed \/ \A c \in LegacyClusters : Promised(w, c) => Moved(w, c)

InstAcl(w, l, p) ==
  "entity-type" \in w.parts /\ ~l.torn =>
    "type-ACL" \in w.parts \/ (p = "run" /\ w.plan # <<>> /\ Head(w.plan) = "type-ACL")

\* The parts a command must leave, which are there or still to come.
InstNeeds(l) ==
  (IF l.mode.legacy THEN {} ELSE {"interfaces", "behaviors", "overrides", "behavior-ACLs", "role-rights", "vdc-policies"})
  \cup (IF l.kind = "install" THEN {"catalog"} ELSE {})
  \cup (IF l.kind = "install" /\ ~I!should_use_mqtt_protocol(l.mode)
        THEN {"exchange", "deploy-right", "pks-right"} ELSE {})
  \cup (IF l.kind = "upgrade" /\ l.mode.legacy THEN {"exchange"} ELSE {})

InstStages(w, l) ==
  LET s == Coming(w.plan) IN
  /\ l.mode.legacy => s \cap {"mqtt", "update-mqtt", "drop-amqp", "entity-type"} = {}
  /\ ~l.mode.legacy => "update-amqp" \notin s
  /\ l.kind = "install" => s \cap {"update-mqtt", "update-amqp", "drop-amqp"} = {}
  /\ l.kind = "install" /\ I!should_use_mqtt_protocol(l.mode) => "amqp" \notin s
  /\ l.kind = "install" /\ ~I!should_use_mqtt_protocol(l.mode) => "mqtt" \notin s
  /\ l.kind = "upgrade" => "amqp" \notin s
  /\ Then(w.plan, {"unregister", "drop-filters"}, "filters")
  /\ Then(w.plan, {"list-clusters"}, "clusters")
  /\ NeverAfter(w.plan, {"update-mqtt"}, {"entity-type", "list-clusters", "clusters"})
  /\ NeverAfter(w.plan, {"mqtt", "amqp"}, IF l.kind = "install" THEN {"catalog"} ELSE {})

InstMade(w, l) ==
  LET s == Coming(w.plan) IN
  /\ \A p \in InstNeeds(l) : p \in w.parts \cup s
  /\ ~l.mode.legacy => "entity-type" \in s \/ {"entity-type", "schema"} \subseteq w.parts
  /\ ~l.mode.legacy /\ "entity-type" \in s /\ w.mqtt = I!Source("3.1.0", FALSE) =>
       l.kind = "upgrade" /\ l.source.version = "3.1.0"
  /\ "filters" \in w.parts \/ s \cap {"filters", "amqp"} # {}
  /\ l.kind = "upgrade" => "catalog" \in w.parts
  /\ CASE l.kind = "upgrade" /\ ~l.mode.legacy -> w.mqtt = InstTarget \/ "update-mqtt" \in s
       [] l.kind = "install" /\ I!should_use_mqtt_protocol(l.mode) ->
            w.mqtt = InstTarget \/ (w.mqtt = Absent /\ "mqtt" \in s)
       [] OTHER -> \/ w.amqp = I!Source("target", l.mode.legacy)
                   \/ s \cap {"amqp", "update-amqp"} # {}

InstListed(w, l) ==
  l.kind = "upgrade" /\ ~l.mode.legacy /\ "list-clusters" \notin Coming(w.plan) =>
    \A c \in LegacyClusters : Promised(w, c) =>
      Moved(w, c) \/ ("clusters" \in Coming(w.plan) /\ (c \in l.left \/ c = l.cluster))

InstMoving(w, l) ==
  LET c == l.cluster IN
  c # Absent =>
    /\ c \in LegacyClusters
    /\ l.at = "upgrade" => l.rde = w.tag[c] /\ \E r \in w.rdes : r.id = l.rde
    /\ l.at = "link" => \E r \in w.rdes : r.id = l.rde /\ r.name = NameOf[c] /\ r.type = "target"
    /\ l.at = "resolve" =>
         \E r \in w.rdes : r.id = l.rde /\ r.vapp = c /\ r.type = "target"
    /\ l.at = "tag" =>
         \E r \in w.rdes : r.id = l.rde /\
           (Promised(w, c) => r.vapp = c /\ r.type = "target" /\ r.resolved)

InstRun(w, l) == InstStages(w, l) /\ InstMade(w, l) /\ InstListed(w, l) /\ InstMoving(w, l)

InstPath(a) ==
  /\ pc[a] \in {"idle", "check", "run", "failed", "done"}
  /\ pc[a] = "check" => loc[a].cluster = Absent
  /\ pc[a] = "done" => world.plan = <<>>
  /\ pc[a] # "idle" => InstLeft(world, loc[a]) /\ InstAcl(world, loc[a], pc[a])
  /\ pc[a] \in {"run", "done"} => InstRun(world, loc[a])

InstInv ==
  /\ I!TypeOK /\ world \in InstWorlds /\ loc \in [Ops -> I!Locals]
  /\ \A a, b \in Ops : pc[a] # "idle" /\ pc[b] # "idle" => a = b
  /\ \A a \in Ops : InstPath(a)

LEMMA PlansJoined ==
  ASSUME NEW s \in Seq(InstSteps), NEW t \in Seq(InstSteps)
  PROVE  /\ s \o t \in Seq(InstSteps) /\ Coming(s \o t) = Coming(s) \cup Coming(t)
         /\ \A from, y : Then(t, from, y) /\ (Then(s, from, y) \/ y \in Coming(t)) =>
              Then(s \o t, from, y)
         /\ \A from, to : NeverAfter(s, from, to) /\ NeverAfter(t, from, to) /\
                          (Coming(s) \cap from = {} \/ Coming(t) \cap to = {}) =>
              NeverAfter(s \o t, from, to)
<1> DEFINE p == s \o t
<1>1. /\ p \in Seq(InstSteps) /\ Len(p) = Len(s) + Len(t)
      /\ \A i \in 1..Len(s) : p[i] = s[i]
      /\ \A i \in 1..Len(t) : p[Len(s) + i] = t[i]
      /\ \A i \in Len(s) + 1 .. Len(s) + Len(t) : p[i] = t[i - Len(s)]
  OBVIOUS
<1>2. /\ DOMAIN p = 1..Len(s) + Len(t) /\ DOMAIN s = 1..Len(s) /\ DOMAIN t = 1..Len(t)
      /\ Len(s) \in Nat /\ Len(t) \in Nat
  BY <1>1
<1> HIDE DEF p
<1>3. \A i \in DOMAIN p : \/ i \in DOMAIN s /\ p[i] = s[i]
                          \/ i > Len(s) /\ i - Len(s) \in DOMAIN t /\ p[i] = t[i - Len(s)]
  BY <1>1, <1>2
<1>4. /\ \A i \in DOMAIN s : i \in DOMAIN p /\ p[i] = s[i]
      /\ \A i \in DOMAIN t : Len(s) + i \in DOMAIN p /\ p[Len(s) + i] = t[i]
  BY <1>1, <1>2
<1>5. Coming(p) = Coming(s) \cup Coming(t)
  <2>1. Coming(p) \subseteq Coming(s) \cup Coming(t)
    BY <1>3 DEF Coming
  <2>2. Coming(s) \subseteq Coming(p) /\ Coming(t) \subseteq Coming(p)
    BY <1>4 DEF Coming
  <2> QED
    BY <2>1, <2>2
<1>6. ASSUME NEW from, NEW y, Then(t, from, y), Then(s, from, y) \/ y \in Coming(t)
      PROVE  Then(p, from, y)
  <2> SUFFICES ASSUME NEW i \in DOMAIN p, p[i] \in from
               PROVE  \E j \in DOMAIN p : i < j /\ p[j] = y
    BY DEF Then
  <2>1. CASE i \in DOMAIN s /\ p[i] = s[i] /\ Then(s, from, y)
    <3>1. PICK j \in DOMAIN s : i < j /\ s[j] = y
      BY <2>1 DEF Then
    <3> QED
      BY <3>1, <1>4
  <2>2. CASE i \in DOMAIN s /\ y \in Coming(t)
    <3>1. PICK j \in DOMAIN t : t[j] = y
      BY <2>2 DEF Coming
    <3>2. Len(s) + j \in DOMAIN p /\ p[Len(s) + j] = y /\ i < Len(s) + j
      BY <3>1, <2>2, <1>2, <1>4
    <3> QED
      BY <3>2
  <2>3. CASE i > Len(s) /\ i - Len(s) \in DOMAIN t /\ p[i] = t[i - Len(s)]
    <3> DEFINE k == i - Len(s)
    <3>0. k \in DOMAIN t /\ t[k] \in from
      BY <2>3
    <3> HIDE DEF k
    <3>1. PICK j \in DOMAIN t : k < j /\ t[j] = y
      BY <1>6, <3>0 DEF Then
    <3>2. Len(s) + j \in DOMAIN p /\ p[Len(s) + j] = y /\ i < Len(s) + j
      BY <3>1, <1>2, <1>4, <2>3 DEF k
    <3> QED
      BY <3>2
  <2> QED
    BY <1>3, <1>6, <2>1, <2>2, <2>3
<1>7. ASSUME NEW from, NEW to, NeverAfter(s, from, to), NeverAfter(t, from, to),
             Coming(s) \cap from = {} \/ Coming(t) \cap to = {}
      PROVE  NeverAfter(p, from, to)
  <2> SUFFICES ASSUME NEW i \in DOMAIN p, NEW j \in DOMAIN p, i < j, p[i] \in from, p[j] \in to
               PROVE  FALSE
    BY DEF NeverAfter
  <2>1. CASE i \in DOMAIN s /\ p[i] = s[i] /\ j \in DOMAIN s /\ p[j] = s[j]
    BY <1>7, <2>1 DEF NeverAfter
  <2>2. CASE i \in DOMAIN s /\ p[i] = s[i] /\ j - Len(s) \in DOMAIN t /\ p[j] = t[j - Len(s)]
    BY <1>7, <2>2 DEF Coming
  <2>3. CASE i > Len(s) /\ i - Len(s) \in DOMAIN t /\ p[i] = t[i - Len(s)]
    <3>1. j - Len(s) \in DOMAIN t /\ p[j] = t[j - Len(s)] /\ i - Len(s) < j - Len(s)
      BY <1>2, <1>3, <2>3
    <3> QED
      BY <1>7, <2>3, <3>1 DEF NeverAfter
  <2> QED
    BY <1>3, <2>1, <2>2, <2>3
<1> QED
  BY <1>1, <1>5, <1>6, <1>7 DEF p

LEMMA PlanAhead ==
  ASSUME NEW s \in Seq(InstSteps), s # <<>>
  PROVE  /\ Tail(s) \in Seq(InstSteps) /\ Head(s) \in InstSteps
         /\ Coming(s) = {Head(s)} \cup Coming(Tail(s))
         /\ \A from, y : Then(s, from, y) =>
              Then(Tail(s), from, y) /\ (Head(s) \in from => y \in Coming(Tail(s)))
         /\ \A from, to : NeverAfter(s, from, to) =>
              /\ NeverAfter(Tail(s), from, to)
              /\ Head(s) \in from => Coming(Tail(s)) \cap to = {}
<1> DEFINE t == Tail(s)
<1>1. /\ t \in Seq(InstSteps) /\ Len(s) = Len(t) + 1 /\ Head(s) = s[1] /\ Head(s) \in InstSteps
      /\ \A i \in 1..Len(t) : t[i] = s[i + 1]
      /\ DOMAIN s = 1..Len(s) /\ DOMAIN t = 1..Len(t) /\ Len(t) \in Nat
  OBVIOUS
<1> HIDE DEF t
<1>2. /\ \A i \in DOMAIN t : i + 1 \in DOMAIN s /\ t[i] = s[i + 1]
      /\ \A i \in DOMAIN s : i = 1 \/ (i - 1 \in DOMAIN t /\ s[i] = t[i - 1])
      /\ 1 \in DOMAIN s
  BY <1>1
<1>3. Coming(s) = {Head(s)} \cup Coming(t)
  <2>1. Coming(t) \subseteq Coming(s) /\ Head(s) \in Coming(s)
    BY <1>1, <1>2 DEF Coming
  <2>2. Coming(s) \subseteq {Head(s)} \cup Coming(t)
    BY <1>1, <1>2 DEF Coming
  <2> QED
    BY <2>1, <2>2
<1>4. ASSUME NEW from, NEW y, Then(s, from, y)
      PROVE  Then(t, from, y) /\ (Head(s) \in from => y \in Coming(t))
  <2>1. ASSUME NEW i \in DOMAIN t, t[i] \in from
        PROVE  \E j \in DOMAIN t : i < j /\ t[j] = y
    <3>1. PICK j \in DOMAIN s : i + 1 < j /\ s[j] = y
      BY <1>2, <1>4, <2>1 DEF Then
    <3>2. j - 1 \in DOMAIN t /\ t[j - 1] = y /\ i < j - 1
      BY <1>1, <1>2, <3>1
    <3> QED
      BY <3>2
  <2>2. ASSUME Head(s) \in from
        PROVE  y \in Coming(t)
    <3>1. PICK j \in DOMAIN s : 1 < j /\ s[j] = y
      BY <1>1, <1>2, <1>4, <2>2 DEF Then
    <3>2. j - 1 \in DOMAIN t /\ t[j - 1] = y
      BY <1>1, <1>2, <3>1
    <3> QED
      BY <3>2 DEF Coming
  <2> QED
    BY <2>1, <2>2 DEF Then
<1>5. ASSUME NEW from, NEW to, NeverAfter(s, from, to)
      PROVE  NeverAfter(t, from, to) /\ (Head(s) \in from => Coming(t) \cap to = {})
  <2>1. ASSUME NEW i \in DOMAIN t, NEW j \in DOMAIN t, i < j, t[i] \in from
        PROVE  t[j] \notin to
    <3>1. i + 1 \in DOMAIN s /\ j + 1 \in DOMAIN s /\ i + 1 < j + 1
      BY <1>1, <1>2, <2>1
    <3> QED
      BY <1>2, <1>5, <2>1, <3>1 DEF NeverAfter
  <2>2. ASSUME Head(s) \in from, NEW j \in DOMAIN t
        PROVE  t[j] \notin to
    <3>1. j + 1 \in DOMAIN s /\ 1 < j + 1
      BY <1>1, <1>2
    <3> QED
      BY <1>1, <1>2, <1>5, <2>2, <3>1 DEF NeverAfter
  <2> QED
    BY <2>1, <2>2 DEF NeverAfter, Coming
<1> QED
  BY <1>1, <1>3, <1>4, <1>5 DEF t

\* A part of a plan in which nothing has to be ordered.
LEMMA PlanPart ==
  ASSUME NEW s \in Seq(InstSteps)
  PROVE  /\ \A from, y : Coming(s) \cap from = {} => Then(s, from, y)
         /\ \A from, to : Coming(s) \cap from = {} \/ Coming(s) \cap to = {} =>
              NeverAfter(s, from, to)
BY DEF Coming, Then, NeverAfter

LEMMA PlanCounted ==
  ASSUME NEW p
  PROVE  /\ DOMAIN p = 1..1 => Coming(p) = {p[1]}
         /\ DOMAIN p = 1..2 => Coming(p) = {p[1], p[2]}
         /\ DOMAIN p = 1..4 => Coming(p) = {p[1], p[2], p[3], p[4]}
         /\ DOMAIN p = 1..6 => Coming(p) = {p[1], p[2], p[3], p[4], p[5], p[6]}
<1>1. /\ 1..1 = {1} /\ 1..2 = {1, 2} /\ 1..4 = {1, 2, 3, 4} /\ 1..6 = {1, 2, 3, 4, 5, 6}
  OBVIOUS
<1> QED
  BY <1>1 DEF Coming

\* The stages of the parts of the plans.
UpgradeLegacy == <<"exchange", "update-amqp", "drop-filters", "filters">>
UpgradeEnd == <<"sizing", "list-clusters", "clusters", "update-mqtt", "drop-filters", "filters">>
LEMMA PlanParts ==
  /\ {I!Schema, I!Policies, I!MqttOn, I!_process_existing_templates, I!AssignToVdcs,
      <<"catalog">>, <<"type-ACL">>, <<"unregister", "drop-amqp">>, UpgradeLegacy,
      <<"exchange", "amqp", "deploy-right", "pks-right">>, <<>>, UpgradeEnd} \subseteq Seq(InstSteps)
  /\ Coming(I!Schema) = {"interfaces", "behaviors", "entity-type", "overrides", "behavior-ACLs",
                         "role-rights"}
  /\ Coming(I!Policies) = {"pvdc-policy", "vdc-policies"} /\ Coming(I!MqttOn) = {"mqtt", "filters"}
  /\ Coming(I!_process_existing_templates) = {"template-metadata", "template-policies"}
  /\ Coming(I!AssignToVdcs) = {"policies-on-VDCs", "bundle-published"}
  /\ Coming(<<"catalog">>) = {"catalog"} /\ Coming(<<"type-ACL">>) = {"type-ACL"}
  /\ Coming(<<>>) = {} /\ Coming(<<"unregister", "drop-amqp">>) = {"unregister", "drop-amqp"}
  /\ Coming(UpgradeLegacy) = {"exchange", "update-amqp", "drop-filters", "filters"}
  /\ Then(UpgradeLegacy, {"unregister", "drop-filters"}, "filters")
  /\ Coming(<<"exchange", "amqp", "deploy-right", "pks-right">>) =
       {"exchange", "amqp", "deploy-right", "pks-right"}
  /\ Coming(UpgradeEnd) = {"sizing", "list-clusters", "clusters", "update-mqtt", "drop-filters", "filters"}
  /\ Then(UpgradeEnd, {"unregister", "drop-filters"}, "filters")
  /\ Then(UpgradeEnd, {"list-clusters"}, "clusters")
  /\ NeverAfter(UpgradeEnd, {"update-mqtt"}, {"entity-type", "list-clusters", "clusters"})
<1>0. {"interfaces", "behaviors", "entity-type", "overrides", "behavior-ACLs", "role-rights",
       "pvdc-policy", "vdc-policies", "mqtt", "filters", "template-metadata", "template-policies",
       "policies-on-VDCs", "bundle-published", "catalog", "type-ACL", "unregister", "drop-amqp",
       "exchange", "update-amqp", "amqp", "deploy-right", "pks-right", "sizing", "list-clusters",
       "clusters", "update-mqtt", "drop-filters"} \subseteq InstSteps
  BY DEF InstSteps, I!Parts, I!Ensured, I!Written
<1>1. I!Schema \in Seq(InstSteps) /\ Coming(I!Schema) = {"interfaces", "behaviors", "entity-type", "overrides", "behavior-ACLs", "role-rights"}
  <2> DEFINE p == I!Schema
  <2>1. p \in Seq(InstSteps)
    BY <1>0 DEF I!Schema
  <2>2. DOMAIN p = 1..6 /\ p[1] = "interfaces" /\ p[2] = "behaviors" /\ p[3] = "entity-type" /\ p[4] = "overrides" /\ p[5] = "behavior-ACLs" /\ p[6] = "role-rights"
    BY DEF I!Schema
  <2> HIDE DEF p
  <2>3. Coming(p) = {p[1], p[2], p[3], p[4], p[5], p[6]}
    BY <2>2, PlanCounted
  <2> QED
    BY <2>1, <2>2, <2>3 DEF p
<1>2. I!Policies \in Seq(InstSteps) /\ Coming(I!Policies) = {"pvdc-policy", "vdc-policies"}
  <2> DEFINE p == I!Policies
  <2>1. p \in Seq(InstSteps)
    BY <1>0 DEF I!Policies
  <2>2. DOMAIN p = 1..2 /\ p[1] = "pvdc-policy" /\ p[2] = "vdc-policies"
    BY DEF I!Policies
  <2> HIDE DEF p
  <2>3. Coming(p) = {p[1], p[2]}
    BY <2>2, PlanCounted
  <2> QED
    BY <2>1, <2>2, <2>3 DEF p
<1>3. I!MqttOn \in Seq(InstSteps) /\ Coming(I!MqttOn) = {"mqtt", "filters"}
  <2> DEFINE p == I!MqttOn
  <2>1. p \in Seq(InstSteps)
    BY <1>0 DEF I!MqttOn
  <2>2. DOMAIN p = 1..2 /\ p[1] = "mqtt" /\ p[2] = "filters"
    BY DEF I!MqttOn
  <2> HIDE DEF p
  <2>3. Coming(p) = {p[1], p[2]}
    BY <2>2, PlanCounted
  <2> QED
    BY <2>1, <2>2, <2>3 DEF p
<1>4. I!_process_existing_templates \in Seq(InstSteps) /\ Coming(I!_process_existing_templates) = {"template-metadata", "template-policies"}
  <2> DEFINE p == I!_process_existing_templates
  <2>1. p \in Seq(InstSteps)
    BY <1>0 DEF I!_process_existing_templates
  <2>2. DOMAIN p = 1..2 /\ p[1] = "template-metadata" /\ p[2] = "template-policies"
    BY DEF I!_process_existing_templates
  <2> HIDE DEF p
  <2>3. Coming(p) = {p[1], p[2]}
    BY <2>2, PlanCounted
  <2> QED
    BY <2>1, <2>2, <2>3 DEF p
<1>5. I!AssignToVdcs \in Seq(InstSteps) /\ Coming(I!AssignToVdcs) = {"policies-on-VDCs", "bundle-published"}
  <2> DEFINE p == I!AssignToVdcs
  <2>1. p \in Seq(InstSteps)
    BY <1>0 DEF I!AssignToVdcs
  <2>2. DOMAIN p = 1..2 /\ p[1] = "policies-on-VDCs" /\ p[2] = "bundle-published"
    BY DEF I!AssignToVdcs
  <2> HIDE DEF p
  <2>3. Coming(p) = {p[1], p[2]}
    BY <2>2, PlanCounted
  <2> QED
    BY <2>1, <2>2, <2>3 DEF p
<1>6. <<"catalog">> \in Seq(InstSteps) /\ Coming(<<"catalog">>) = {"catalog"}
  <2> DEFINE p == <<"catalog">>
  <2>1. p \in Seq(InstSteps)
    BY <1>0
  <2>2. DOMAIN p = 1..1 /\ p[1] = "catalog"
    BY SMT
  <2> HIDE DEF p
  <2>3. Coming(p) = {p[1]}
    BY <2>2, PlanCounted
  <2> QED
    BY <2>1, <2>2, <2>3 DEF p
<1>7. <<"type-ACL">> \in Seq(InstSteps) /\ Coming(<<"type-ACL">>) = {"type-ACL"}
  <2> DEFINE p == <<"type-ACL">>
  <2>1. p \in Seq(InstSteps)
    BY <1>0
  <2>2. DOMAIN p = 1..1 /\ p[1] = "type-ACL"
    BY SMT
  <2> HIDE DEF p
  <2>3. Coming(p) = {p[1]}
    BY <2>2, PlanCounted
  <2> QED
    BY <2>1, <2>2, <2>3 DEF p
<1>9. <<"unregister", "drop-amqp">> \in Seq(InstSteps) /\ Coming(<<"unregister", "drop-amqp">>) = {"unregister", "drop-amqp"}
  <2> DEFINE p == <<"unregister", "drop-amqp">>
  <2>1. p \in Seq(InstSteps)
    BY <1>0
  <2>2. DOMAIN p = 1..2 /\ p[1] = "unregister" /\ p[2] = "drop-amqp"
    BY SMT
  <2> HIDE DEF p
  <2>3. Coming(p) = {p[1], p[2]}
    BY <2>2, PlanCounted
  <2> QED
    BY <2>1, <2>2, <2>3 DEF p
<1>10. /\ UpgradeLegacy \in Seq(InstSteps)
       /\ Coming(UpgradeLegacy) = {"exchange", "update-amqp", "drop-filters", "filters"}
       /\ Then(UpgradeLegacy, {"unregister", "drop-filters"}, "filters")
  <2> DEFINE p == UpgradeLegacy
  <2>1. p \in Seq(InstSteps)
    BY <1>0 DEF UpgradeLegacy
  <2>2. /\ DOMAIN p = 1..4 /\ p[1] = "exchange" /\ p[2] = "update-amqp"
        /\ p[3] = "drop-filters" /\ p[4] = "filters"
    BY DEF UpgradeLegacy
  <2> HIDE DEF p
  <2>3. Coming(p) = {p[1], p[2], p[3], p[4]}
    BY <2>2, PlanCounted
  <2>4. Then(p, {"unregister", "drop-filters"}, "filters")
    BY <2>2 DEF Then
  <2> QED
    BY <2>1, <2>2, <2>3, <2>4 DEF p
<1>11. <<"exchange", "amqp", "deploy-right", "pks-right">> \in Seq(InstSteps) /\ Coming(<<"exchange", "amqp", "deploy-right", "pks-right">>) = {"exchange", "amqp", "deploy-right", "pks-right"}
  <2> DEFINE p == <<"exchange", "amqp", "deploy-right", "pks-right">>
  <2>1. p \in Seq(InstSteps)
    BY <1>0
  <2>2. DOMAIN p = 1..4 /\ p[1] = "exchange" /\ p[2] = "amqp" /\ p[3] = "deploy-right" /\ p[4] = "pks-right"
    BY SMT
  <2> HIDE DEF p
  <2>3. Coming(p) = {p[1], p[2], p[3], p[4]}
    BY <2>2, PlanCounted
  <2> QED
    BY <2>1, <2>2, <2>3 DEF p
<1>12. UpgradeEnd \in Seq(InstSteps) /\ Coming(UpgradeEnd) = {"sizing", "list-clusters", "clusters", "update-mqtt", "drop-filters", "filters"}
  <2> DEFINE p == UpgradeEnd
  <2>1. p \in Seq(InstSteps)
    BY <1>0 DEF UpgradeEnd
  <2>2. DOMAIN p = 1..6 /\ p[1] = "sizing" /\ p[2] = "list-clusters" /\ p[3] = "clusters" /\ p[4] = "update-mqtt" /\ p[5] = "drop-filters" /\ p[6] = "filters"
    BY DEF UpgradeEnd
  <2> HIDE DEF p
  <2>3. Coming(p) = {p[1], p[2], p[3], p[4], p[5], p[6]}
    BY <2>2, PlanCounted
  <2> QED
    BY <2>1, <2>2, <2>3 DEF p
<1>13. <<>> \in Seq(InstSteps) /\ Coming(<<>>) = {}
  BY DEF Coming
<1>8. /\ Then(UpgradeEnd, {"unregister", "drop-filters"}, "filters")
      /\ Then(UpgradeEnd, {"list-clusters"}, "clusters")
      /\ NeverAfter(UpgradeEnd, {"update-mqtt"}, {"entity-type", "list-clusters", "clusters"})
  <2>1. /\ DOMAIN UpgradeEnd = {1, 2, 3, 4, 5, 6}
        /\ UpgradeEnd[1] = "sizing" /\ UpgradeEnd[2] = "list-clusters" /\ UpgradeEnd[3] = "clusters"
        /\ UpgradeEnd[4] = "update-mqtt" /\ UpgradeEnd[5] = "drop-filters" /\ UpgradeEnd[6] = "filters"
    <3>1. 1..6 = {1, 2, 3, 4, 5, 6}
      OBVIOUS
    <3> QED
      BY <3>1 DEF UpgradeEnd
  <2>2. Then(UpgradeEnd, {"unregister", "drop-filters"}, "filters")
    BY <2>1 DEF Then
  <2>3. Then(UpgradeEnd, {"list-clusters"}, "clusters")
    BY <2>1 DEF Then
  <2>4. NeverAfter(UpgradeEnd, {"update-mqtt"}, {"entity-type", "list-clusters", "clusters"})
    BY <2>1 DEF NeverAfter
  <2> QED
    BY <2>2, <2>3, <2>4
<1> QED
  BY <1>1, <1>2, <1>3, <1>4, <1>5, <1>6, <1>7, <1>8, <1>9, <1>10, <1>11, <1>12, <1>13

InstSchema == {"interfaces", "behaviors", "entity-type", "overrides", "behavior-ACLs",
               "role-rights", "pvdc-policy", "vdc-policies"}

\* The stages of an installation, and their order.
LEMMA InstallPlanIs ==
  ASSUME NEW mode \in [legacy : BOOLEAN, mqtt : BOOLEAN]
  PROVE  LET p == I!InstallPlan(mode)
         IN  /\ p \in Seq(InstSteps)
             /\ Coming(p) =
                  (IF mode.legacy THEN {} ELSE InstSchema) \cup {"catalog"} \cup
                  (IF I!should_use_mqtt_protocol(mode) THEN {"mqtt", "filters"}
                   ELSE {"exchange", "amqp", "deploy-right", "pks-right"})
             /\ NeverAfter(p, {"mqtt", "amqp"}, {"catalog"})
<1> DEFINE s == IF mode.legacy THEN <<>> ELSE I!Schema \o I!Policies
           t == IF I!should_use_mqtt_protocol(mode) THEN I!MqttOn
                ELSE <<"exchange", "amqp", "deploy-right", "pks-right">>
<1>1. s \in Seq(InstSteps) /\ Coming(s) = IF mode.legacy THEN {} ELSE InstSchema
  <2>1. /\ I!Schema \o I!Policies \in Seq(InstSteps)
        /\ Coming(I!Schema \o I!Policies) = Coming(I!Schema) \cup Coming(I!Policies)
    BY PlanParts, PlansJoined
  <2> QED
    BY <2>1, PlanParts DEF InstSchema
<1>2. /\ t \in Seq(InstSteps)
      /\ Coming(t) = IF I!should_use_mqtt_protocol(mode) THEN {"mqtt", "filters"}
                     ELSE {"exchange", "amqp", "deploy-right", "pks-right"}
  BY PlanParts
<1>3. I!InstallPlan(mode) = (s \o <<"catalog">>) \o t
  BY DEF I!InstallPlan
<1>4. <<"catalog">> \in Seq(InstSteps) /\ Coming(<<"catalog">>) = {"catalog"}
  BY PlanParts
<1> DEFINE u == s \o <<"catalog">>
<1> HIDE DEF s, t
<1>5. u \in Seq(InstSteps) /\ Coming(u) = Coming(s) \cup {"catalog"}
  BY <1>1, <1>4, PlansJoined
<1> HIDE DEF u
<1>6. u \o t \in Seq(InstSteps) /\ Coming(u \o t) = Coming(u) \cup Coming(t)
  BY <1>2, <1>5, PlansJoined
<1>7. NeverAfter(u \o t, {"mqtt", "amqp"}, {"catalog"})
  <2>1. Coming(u) \cap {"mqtt", "amqp"} = {} /\ Coming(t) \cap {"catalog"} = {}
    BY <1>1, <1>2, <1>5 DEF InstSchema
  <2>2. NeverAfter(u, {"mqtt", "amqp"}, {"catalog"}) /\ NeverAfter(t, {"mqtt", "amqp"}, {"catalog"})
    BY <1>2, <1>5, <2>1, PlanPart
  <2> QED
    BY <1>2, <1>5, <2>1, <2>2, PlansJoined
<1> QED
  BY <1>1, <1>2, <1>3, <1>5, <1>6, <1>7 DEF u

InstMigrate == {"template-metadata", "template-policies", "policies-on-VDCs", "bundle-published",
                "sizing", "list-clusters", "clusters", "update-mqtt", "drop-filters", "filters"}

\* The stages of an upgrade, and their order.
LEMMA UpgradePlanIs ==
  ASSUME NEW mode \in [legacy : BOOLEAN, mqtt : BOOLEAN], NEW type
  PROVE  LET p == I!UpgradePlan(mode, type)
         IN  /\ p \in Seq(InstSteps)
             /\ Coming(p) =
                  (IF type = "AMQP" /\ ~mode.legacy THEN {"unregister", "drop-amqp", "mqtt", "filters"}
                   ELSE {}) \cup
                  (IF mode.legacy THEN {"exchange", "update-amqp", "drop-filters", "filters"}
                   ELSE InstSchema \cup InstMigrate)
             /\ Then(p, {"unregister", "drop-filters"}, "filters")
             /\ Then(p, {"list-clusters"}, "clusters")
             /\ NeverAfter(p, {"update-mqtt"}, {"entity-type", "list-clusters", "clusters"})
<1> DEFINE off == <<"unregister", "drop-amqp">>
           s == IF type = "AMQP" /\ ~mode.legacy THEN off \o I!MqttOn ELSE <<>>
           m == I!Policies \o I!Schema \o I!_process_existing_templates \o I!AssignToVdcs
           t == IF mode.legacy THEN UpgradeLegacy ELSE m \o UpgradeEnd
           undo  == {"unregister", "drop-filters"}
           after == {"entity-type", "list-clusters", "clusters"}
           Fit(p) == /\ Then(p, undo, "filters") /\ Then(p, {"list-clusters"}, "clusters")
                     /\ NeverAfter(p, {"update-mqtt"}, after)
<1>1. I!UpgradePlan(mode, type) = s \o t
  BY DEF I!UpgradePlan, UpgradeEnd, UpgradeLegacy
<1>2. /\ s \in Seq(InstSteps) /\ Fit(s)
      /\ Coming(s) = IF type = "AMQP" /\ ~mode.legacy
                     THEN {"unregister", "drop-amqp", "mqtt", "filters"} ELSE {}
  <2>1. /\ off \in Seq(InstSteps) /\ Coming(off) = {"unregister", "drop-amqp"}
        /\ I!MqttOn \in Seq(InstSteps) /\ Coming(I!MqttOn) = {"mqtt", "filters"}
        /\ <<>> \in Seq(InstSteps) /\ Coming(<<>>) = {}
    BY PlanParts
  <2> HIDE DEF off
  <2>2. Fit(<<>>) /\ Fit(I!MqttOn)
    BY <2>1, PlanPart
  <2>3. Then(off, {"list-clusters"}, "clusters") /\ NeverAfter(off, {"update-mqtt"}, after)
    BY <2>1, PlanPart
  <2>4. /\ off \o I!MqttOn \in Seq(InstSteps) /\ Fit(off \o I!MqttOn)
        /\ Coming(off \o I!MqttOn) = Coming(off) \cup Coming(I!MqttOn)
    <3>1. "filters" \in Coming(I!MqttOn) /\ Coming(off) \cap {"update-mqtt"} = {}
      BY <2>1
    <3> HIDE DEF undo, after
    <3> QED
      BY <2>1, <2>2, <2>3, <3>1, PlansJoined
  <2> HIDE DEF Fit
  <2> QED
    BY <2>1, <2>2, <2>4
<1>3. /\ m \in Seq(InstSteps)
      /\ Coming(m) = InstSchema \cup {"template-metadata", "template-policies", "policies-on-VDCs",
                                      "bundle-published"}
  <2> DEFINE m1 == I!Policies \o I!Schema
             m2 == m1 \o I!_process_existing_templates
  <2>1. m1 \in Seq(InstSteps) /\ Coming(m1) = Coming(I!Policies) \cup Coming(I!Schema)
    BY PlanParts, PlansJoined
  <2> HIDE DEF m1
  <2>2. /\ m2 \in Seq(InstSteps)
        /\ Coming(m2) = Coming(m1) \cup Coming(I!_process_existing_templates)
    BY <2>1, PlanParts, PlansJoined
  <2> HIDE DEF m2
  <2>3. /\ m2 \o I!AssignToVdcs \in Seq(InstSteps)
        /\ Coming(m2 \o I!AssignToVdcs) = Coming(m2) \cup Coming(I!AssignToVdcs)
    BY <2>2, PlanParts, PlansJoined
  <2>4. m = m2 \o I!AssignToVdcs
    BY DEF m2, m1
  <2>5. Coming(m) = {"pvdc-policy", "vdc-policies"} \cup
                    {"interfaces", "behaviors", "entity-type", "overrides", "behavior-ACLs",
                     "role-rights"} \cup {"template-metadata", "template-policies"} \cup
                    {"policies-on-VDCs", "bundle-published"}
    BY <2>1, <2>2, <2>3, <2>4, PlanParts
  <2> HIDE DEF m
  <2> QED
    BY <2>3, <2>4, <2>5 DEF InstSchema
<1>4. /\ t \in Seq(InstSteps) /\ Fit(t)
      /\ Coming(t) = IF mode.legacy THEN {"exchange", "update-amqp", "drop-filters", "filters"}
                     ELSE InstSchema \cup InstMigrate
  <2>1. /\ UpgradeLegacy \in Seq(InstSteps)
        /\ Coming(UpgradeLegacy) = {"exchange", "update-amqp", "drop-filters", "filters"}
        /\ Then(UpgradeLegacy, undo, "filters")
    BY PlanParts
  <2>2. Fit(UpgradeLegacy)
    BY <2>1, PlanPart
  <2>3. UpgradeEnd \in Seq(InstSteps) /\ Fit(UpgradeEnd)
    BY PlanParts
  <2>4. Coming(UpgradeEnd) = {"sizing", "list-clusters", "clusters", "update-mqtt", "drop-filters",
                              "filters"}
    BY PlanParts
  <2> HIDE DEF m
  <2>5. Fit(m) /\ Coming(m) \cap {"update-mqtt"} = {}
    <3>1. Coming(m) \cap {"update-mqtt"} = {} /\ Coming(m) \cap undo = {}
          /\ Coming(m) \cap {"list-clusters"} = {}
      BY <1>3 DEF InstSchema
    <3> QED
      BY <1>3, <3>1, PlanPart
  <2>6. /\ m \o UpgradeEnd \in Seq(InstSteps) /\ Fit(m \o UpgradeEnd)
        /\ Coming(m \o UpgradeEnd) = Coming(m) \cup Coming(UpgradeEnd)
    <3> HIDE DEF undo, after
    <3> QED
      BY <1>3, <2>3, <2>5, PlansJoined
  <2>7. Coming(m) \cup Coming(UpgradeEnd) = InstSchema \cup InstMigrate
    BY <1>3, <2>4 DEF InstMigrate
  <2> HIDE DEF Fit
  <2> QED
    BY <2>1, <2>2, <2>6, <2>7
<1> HIDE DEF s, t
<1>5. /\ s \o t \in Seq(InstSteps) /\ Coming(s \o t) = Coming(s) \cup Coming(t)
      /\ Fit(s \o t)
  <2>1. Coming(s) \cap {"update-mqtt"} = {}
    BY <1>2
  <2> HIDE DEF undo, after
  <2> QED
    BY <1>2, <1>4, <2>1, PlansJoined
<1> QED
  BY <1>1, <1>2, <1>4, <1>5

\* A step of the command at work: the other actors are idle.
LEMMA InstKept ==
  ASSUME InstInv, NEW a \in Ops, pc[a] # "idle",
         pc' = pc \/ pc' = [pc EXCEPT ![a] = pc'[a]], faults' \in 0..MaxFaults,
         world' \in InstWorlds, loc' \in [Ops -> I!Locals],
         InstPath(a)'
  PROVE  InstInv'
<1>1. DOMAIN pc' = Ops /\ \A b \in Ops \ {a} : pc'[b] = pc[b] /\ pc'[b] = "idle"
  BY DEF InstInv, I!TypeOK
<1>2. I!TypeOK'
  BY <1>1 DEF I!TypeOK, InstWorlds
<1>3. \A b \in Ops \ {a} : InstPath(b)'
  BY <1>1 DEF InstPath
<1> QED
  BY <1>1, <1>2, <1>3 DEF InstInv

\* The world without the stage at its head.
LEMMA InstDone ==
  ASSUME NEW w \in InstWorlds, w.plan # <<>>
  PROVE  LET v == I!Done(w)
         IN  /\ v \in InstWorlds /\ v.plan = Tail(w.plan)
             /\ v.mqtt = w.mqtt /\ v.amqp = w.amqp /\ v.parts = w.parts /\ v.rdes = w.rdes
             /\ v.tag = w.tag /\ v.template = w.template
<1>1. Tail(w.plan) \in Seq(InstSteps)
  BY PlanAhead DEF InstWorlds
<1> QED
  BY <1>1 DEF I!Done, InstWorlds

\* What carrying out a stage does, or trying to.
LEMMA InstCarried ==
  ASSUME InstInv, NEW a \in Ops, NEW s, NEW w \in InstWorlds, w.plan = world.plan,
         I!At(a, s), I!Carry(a, w)
  PROVE  /\ pc[a] = "run" /\ world.plan # <<>> /\ Head(world.plan) = s
         /\ pc' = [pc EXCEPT ![a] = pc'[a]] /\ faults' \in 0..MaxFaults
         /\ \/ pc'[a] = "run" /\ world' = I!Done(w)
            \/ pc'[a] = "failed" /\ world' \in {world, I!Done(w)}
<1>1. DOMAIN pc = Ops /\ faults \in 0..MaxFaults /\ MaxFaults \in Nat
  BY ThreadsAssumption DEF InstInv, I!TypeOK
<1>2. pc[a] = "run" /\ world.plan # <<>> /\ Head(world.plan) = s
  BY DEF I!At
<1>3. \/ world' = I!Done(w) /\ I!Goto(a, "run") /\ UNCHANGED faults
      \/ world' \in {world, I!Done(w)} /\ I!Goto(a, "failed") /\ I!Fault
  BY DEF I!Carry, I!Call
<1>4. CASE world' = I!Done(w) /\ I!Goto(a, "run") /\ UNCHANGED faults
  BY <1>1, <1>2, <1>4 DEF I!Goto
<1>5. CASE world' \in {world, I!Done(w)} /\ I!Goto(a, "failed") /\ I!Fault
  BY <1>1, <1>2, <1>5 DEF I!Goto, I!Fault
<1> QED
  BY <1>3, <1>4, <1>5

\* What is known of the clusters does not depend on the other records.
LEMMA InstSame ==
  ASSUME NEW w, NEW v, v.rdes = w.rdes, v.tag = w.tag, v.template = w.template
  PROVE  /\ InstRdes(w) => InstRdes(v)
         /\ \A c : (Promised(v, c) <=> Promised(w, c)) /\ (Moved(v, c) <=> Moved(w, c))
         /\ \A l : InstMoving(w, l) => InstMoving(v, l)
BY DEF InstRdes, Promised, Moved, InstMoving

LEMMA InstStagesNext ==
  ASSUME NEW w \in InstWorlds, NEW v, NEW l, w.plan # <<>>, v.plan = Tail(w.plan), InstStages(w, l)
  PROVE  /\ InstStages(v, l) /\ Coming(w.plan) = {Head(w.plan)} \cup Coming(v.plan)
         /\ Head(w.plan) \in {"unregister", "drop-filters"} => "filters" \in Coming(v.plan)
         /\ Head(w.plan) = "list-clusters" => "clusters" \in Coming(v.plan)
         /\ Head(w.plan) = "update-mqtt" =>
              Coming(v.plan) \cap {"entity-type", "list-clusters", "clusters"} = {}
         /\ Head(w.plan) \in {"mqtt", "amqp"} /\ l.kind = "install" => "catalog" \notin Coming(v.plan)
<1>1. w.plan \in Seq(InstSteps)
  BY DEF InstWorlds
<1>2. Coming(w.plan) = {Head(w.plan)} \cup Coming(v.plan)
  BY <1>1, PlanAhead
<1>3. /\ Then(v.plan, {"unregister", "drop-filters"}, "filters")
      /\ Then(v.plan, {"list-clusters"}, "clusters")
      /\ NeverAfter(v.plan, {"update-mqtt"}, {"entity-type", "list-clusters", "clusters"})
      /\ NeverAfter(v.plan, {"mqtt", "amqp"}, IF l.kind = "install" THEN {"catalog"} ELSE {})
      /\ Head(w.plan) \in {"unregister", "drop-filters"} => "filters" \in Coming(v.plan)
      /\ Head(w.plan) = "list-clusters" => "clusters" \in Coming(v.plan)
      /\ Head(w.plan) = "update-mqtt" =>
           Coming(v.plan) \cap {"entity-type", "list-clusters", "clusters"} = {}
      /\ Head(w.plan) \in {"mqtt", "amqp"} /\ l.kind = "install" => "catalog" \notin Coming(v.plan)
  BY <1>1, PlanAhead DEF InstStages
<1>4. InstStages(v, l)
  BY <1>2, <1>3 DEF InstStages
<1> QED
  BY <1>2, <1>3, <1>4

\* A stage that leaves the clusters alone.
LEMMA InstStage ==
  ASSUME InstInv, NEW a \in Ops, NEW s, s \notin {"list-clusters", "clusters"},
         NEW w \in InstWorlds, I!At(a, s), I!Carry(a, w),
         w.plan = world.plan, w.rdes = world.rdes, w.tag = world.tag, w.template = world.template,
         NEW l \in I!Locals, loc' = [loc EXCEPT ![a] = l], l.mode = loc[a].mode,
         l.kind = loc[a].kind, l.left = loc[a].left, l.cluster = loc[a].cluster,
         l.at = loc[a].at, l.rde = loc[a].rde, l.source = loc[a].source,
         loc[a].installed => l.installed,
         InstLeft(w, l), InstAcl(world', l, pc'[a]),
         pc'[a] = "run" => InstMade(I!Done(w), l)
  PROVE  InstInv'
<1> DEFINE v == I!Done(w)
<1>1. /\ pc[a] = "run" /\ world.plan # <<>> /\ Head(world.plan) = s
      /\ pc' = [pc EXCEPT ![a] = pc'[a]] /\ faults' \in 0..MaxFaults
      /\ \/ pc'[a] = "run" /\ world' = v
         \/ pc'[a] = "failed" /\ world' \in {world, v}
  BY InstCarried
<1>2. /\ v \in InstWorlds /\ v.plan = Tail(world.plan)
      /\ v.mqtt = w.mqtt /\ v.amqp = w.amqp /\ v.parts = w.parts /\ v.rdes = world.rdes
      /\ v.tag = world.tag /\ v.template = world.template
  BY <1>1, InstDone
<1> HIDE DEF v
<1>3. loc' \in [Ops -> I!Locals] /\ loc'[a] = l /\ world \in InstWorlds
  BY DEF InstInv
<1>4. InstPath(a) /\ InstLeft(world, loc[a]) /\ InstRun(world, loc[a])
  BY <1>1 DEF InstInv, InstPath
<1>5. InstLeft(world, l)
  BY <1>4 DEF InstLeft
<1>6. InstLeft(v, l)
  <2>1. /\ InstRdes(v)
        /\ \A c : (Promised(v, c) <=> Promised(w, c)) /\ (Moved(v, c) <=> Moved(w, c))
    BY <1>2, <1>4, InstSame DEF InstLeft
  <2> QED
    BY <1>2, <2>1 DEF InstLeft
<1>7. ASSUME pc'[a] = "run"
      PROVE  InstRun(v, l)
  <2>1. InstStages(world, l)
    BY <1>4 DEF InstRun, InstStages
  <2>2. InstStages(v, l) /\ Coming(world.plan) = {s} \cup Coming(v.plan)
    BY <1>1, <1>2, <1>3, <2>1, InstStagesNext
  <2>3. InstListed(v, l)
    <3>1. InstListed(world, l)
      BY <1>4 DEF InstRun, InstListed
    <3>2. \A c : (Promised(v, c) <=> Promised(world, c)) /\ (Moved(v, c) <=> Moved(world, c))
      BY <1>2, InstSame
    <3> QED
      BY <2>2, <3>1, <3>2 DEF InstListed
  <2>4. InstMoving(v, l)
    <3>1. InstMoving(world, l)
      BY <1>4 DEF InstRun, InstMoving
    <3> QED
      BY <1>2, <3>1, InstSame
  <2> QED
    BY <1>7, <2>2, <2>3, <2>4 DEF InstRun, v
<1>8. InstPath(a)'
  BY <1>1, <1>3, <1>5, <1>6, <1>7 DEF InstPath
<1> QED
  BY <1>1, <1>2, <1>3, <1>8, InstKept

\* Worlds with other parts, or other extensions.
LEMMA InstWith ==
  ASSUME NEW w \in InstWorlds
  PROVE  /\ \A P1 \in SUBSET I!Parts :
              LET v == [w EXCEPT !.parts = P1]
              IN  /\ v \in InstWorlds /\ v.parts = P1 /\ v.plan = w.plan /\ v.mqtt = w.mqtt
                  /\ v.amqp = w.amqp /\ v.rdes = w.rdes /\ v.tag = w.tag /\ v.template = w.template
         /\ \A d \in I!Descriptions \cup {Absent} :
              LET v == [w EXCEPT !.mqtt = d]
              IN  /\ v \in InstWorlds /\ v.parts = w.parts /\ v.plan = w.plan /\ v.mqtt = d
                  /\ v.amqp = w.amqp /\ v.rdes = w.rdes /\ v.tag = w.tag /\ v.template = w.template
         /\ \A d \in I!Descriptions \cup {Absent} :
              LET v == [w EXCEPT !.amqp = d]
              IN  /\ v \in InstWorlds /\ v.parts = w.parts /\ v.plan = w.plan /\ v.mqtt = w.mqtt
                  /\ v.amqp = d /\ v.rdes = w.rdes /\ v.tag = w.tag /\ v.template = w.template
BY DEF InstWorlds

\* What the invariant says of a command that carries out a stage.
LEMMA InstAt ==
  ASSUME InstInv, NEW a \in Ops, NEW s, I!At(a, s)
  PROVE  /\ world \in InstWorlds /\ loc[a] \in I!Locals /\ pc[a] = "run"
         /\ world.plan # <<>> /\ Head(world.plan) = s /\ s \in Coming(world.plan)
         /\ InstLeft(world, loc[a]) /\ InstRun(world, loc[a])
         /\ s # "type-ACL" /\ "entity-type" \in world.parts /\ ~loc[a].torn =>
              "type-ACL" \in world.parts
<1>1. world \in InstWorlds /\ loc[a] \in I!Locals /\ pc[a] = "run"
  BY DEF InstInv, I!At
<1>2. world.plan # <<>> /\ Head(world.plan) = s /\ s \in Coming(world.plan)
  BY <1>1, PlanAhead DEF I!At, InstWorlds
<1>3. InstLeft(world, loc[a]) /\ InstRun(world, loc[a]) /\ InstAcl(world, loc[a], pc[a])
  BY <1>1 DEF InstInv, InstPath
<1> QED
  BY <1>1, <1>2, <1>3 DEF InstAcl

\* A stage that leaves the local variables and the entity type alone.
LEMMA InstSimple ==
  ASSUME InstInv, NEW a \in Ops, NEW s, s \notin {"list-clusters", "clusters", "type-ACL"},
         NEW w \in InstWorlds, I!At(a, s), I!Carry(a, w),
         w.plan = world.plan, w.rdes = world.rdes, w.tag = world.tag, w.template = world.template,
         NEW l \in I!Locals, loc' = [loc EXCEPT ![a] = l], l.mode = loc[a].mode,
         l.kind = loc[a].kind, l.left = loc[a].left, l.cluster = loc[a].cluster,
         l.at = loc[a].at, l.rde = loc[a].rde, l.source = loc[a].source,
         l.torn = loc[a].torn, loc[a].installed => l.installed,
         "entity-type" \in w.parts <=> "entity-type" \in world.parts,
         "type-ACL" \in w.parts <=> "type-ACL" \in world.parts,
         InstLeft(w, l), InstMade(I!Done(w), l)
  PROVE  InstInv'
<1>1. I!Done(w).parts = w.parts /\ world' \in {world, I!Done(w)}
  BY InstDone, InstAt, InstCarried
<1>2. InstAcl(world', l, pc'[a])
  <2>1. "entity-type" \in world'.parts /\ ~l.torn => "type-ACL" \in world'.parts
    BY <1>1, InstAt
  <2> QED
    BY <2>1 DEF InstAcl
<1> QED
  BY <1>2, InstStage

LEMMA InstEnsure ==
  ASSUME InstInv, NEW a \in Ops, NEW part \in I!Ensured \cup I!Written \cup {"filters"},
         I!Ensure(a, part)
  PROVE  InstInv'
<1> DEFINE w == I!With(part)
           v == I!Done(w)
           l == loc[a]
<1>1. I!At(a, part) /\ I!Carry(a, w) /\ loc' = loc
  BY DEF I!Ensure
<1>2. /\ world \in InstWorlds /\ l \in I!Locals /\ InstLeft(world, l) /\ InstRun(world, l)
      /\ world.plan # <<>> /\ Head(world.plan) = part
  BY <1>1, InstAt
<1>3. /\ w \in InstWorlds /\ w.parts = world.parts \cup {part} /\ w.plan = world.plan
      /\ w.mqtt = world.mqtt /\ w.amqp = world.amqp /\ w.rdes = world.rdes /\ w.tag = world.tag
      /\ w.template = world.template
  <2>1. world.parts \cup {part} \in SUBSET I!Parts
    BY <1>2 DEF InstWorlds, I!Parts
  <2> QED
    BY <1>2, <2>1, InstWith DEF I!With
<1>4. part \notin {"list-clusters", "clusters", "type-ACL", "entity-type", "schema", "mqtt",
                   "amqp", "update-mqtt", "update-amqp", "unregister", "drop-filters"}
  BY DEF I!Ensured, I!Written
<1>5. /\ v.plan = Tail(world.plan) /\ v.parts = world.parts \cup {part}
      /\ v.mqtt = world.mqtt /\ v.amqp = world.amqp
  BY <1>2, <1>3, InstDone
<1> HIDE DEF w, v
<1>6. InstStages(v, l) /\ Coming(world.plan) = {part} \cup Coming(v.plan)
  BY <1>2, <1>5, InstStagesNext DEF InstRun
<1>7. InstMade(v, l)
  BY <1>2, <1>4, <1>5, <1>6 DEF InstMade, InstRun
<1>8. InstLeft(w, l)
  <2>1. /\ InstRdes(w)
        /\ \A c : (Promised(w, c) <=> Promised(world, c)) /\ (Moved(w, c) <=> Moved(world, c))
    BY <1>2, <1>3, InstSame DEF InstLeft
  <2> QED
    BY <1>2, <1>3, <1>4, <2>1 DEF InstLeft
<1>9. loc' = [loc EXCEPT ![a] = l]
  BY <1>1 DEF InstInv
<1> QED
  BY <1>1, <1>2, <1>3, <1>4, <1>7, <1>8, <1>9, InstSimple DEF v

LEMMA InstEnsured ==
  ASSUME InstInv, NEW a \in Ops, I!EnsurePart(a) \/ I!SetupFilters(a)
  PROVE  InstInv'
<1>1. \E part \in I!Ensured \cup I!Written \cup {"filters"} : I!Ensure(a, part)
  <2>1. CASE \E part \in I!Ensured : I!Ensure(a, part)
    BY <2>1
  <2>2. CASE \E part \in I!Written : I!Ensure(a, part)
    BY <2>2
  <2>3. CASE I!SetupFilters(a)
    BY <2>3 DEF I!SetupFilters, I!Ensure
  <2> QED
    BY <2>1, <2>2, <2>3
    DEF I!EnsurePart, I!_register_interfaces, I!_register_behaviors, I!_override_behaviors,
        I!_set_acls_on_behaviors, I!_update_user_role, I!_setup_pvdc_policy,
        I!_setup_vdc_policies, I!create_and_share_catalog, I!_create_amqp_exchange,
        I!_register_deploy_right, I!_register_pks_right, I!_update_metadata_of_templates,
        I!_assign_to_templates, I!_assign_to_vdcs, I!_publish_right_bundle, I!Ensured, I!Written
<1> QED
  BY <1>1, InstEnsure

\* What is known of a stage that leaves the clusters alone, and of what follows it.
LEMMA InstStageAt ==
  ASSUME InstInv, NEW a \in Ops, NEW s, I!At(a, s), NEW w \in InstWorlds,
         w.plan = world.plan, w.rdes = world.rdes, w.tag = world.tag, w.template = world.template
  PROVE  LET v == I!Done(w)
             l == loc[a]
         IN  /\ l \in I!Locals /\ s \in Coming(world.plan)
             /\ InstLeft(world, l) /\ InstStages(world, l) /\ InstMade(world, l)
             /\ InstListed(world, l)
             /\ v \in InstWorlds /\ v.plan = Tail(world.plan) /\ v.parts = w.parts
             /\ v.mqtt = w.mqtt /\ v.amqp = w.amqp
             /\ Coming(world.plan) = {s} \cup Coming(v.plan)
             /\ s \in {"unregister", "drop-filters"} => "filters" \in Coming(v.plan)
             /\ s = "update-mqtt" =>
                  Coming(v.plan) \cap {"entity-type", "list-clusters", "clusters"} = {}
             /\ s \in {"mqtt", "amqp"} /\ l.kind = "install" => "catalog" \notin Coming(v.plan)
             /\ InstRdes(w)
             /\ \A c : (Promised(w, c) <=> Promised(world, c)) /\ (Moved(w, c) <=> Moved(world, c))
<1> DEFINE v == I!Done(w)
<1>1. /\ loc[a] \in I!Locals /\ s \in Coming(world.plan) /\ world.plan # <<>> /\ Head(world.plan) = s
      /\ InstLeft(world, loc[a]) /\ InstRun(world, loc[a]) /\ world \in InstWorlds
  BY InstAt
<1>2. InstStages(world, loc[a]) /\ InstMade(world, loc[a]) /\ InstListed(world, loc[a])
  BY <1>1 DEF InstRun
<1>3. /\ v \in InstWorlds /\ v.plan = Tail(world.plan) /\ v.parts = w.parts
      /\ v.mqtt = w.mqtt /\ v.amqp = w.amqp
  BY <1>1, InstDone
<1> HIDE DEF v
<1>4. /\ Coming(world.plan) = {s} \cup Coming(v.plan)
      /\ s \in {"unregister", "drop-filters"} => "filters" \in Coming(v.plan)
      /\ s = "update-mqtt" =>
           Coming(v.plan) \cap {"entity-type", "list-clusters", "clusters"} = {}
      /\ s \in {"mqtt", "amqp"} /\ loc[a].kind = "install" => "catalog" \notin Coming(v.plan)
  BY <1>1, <1>2, <1>3, InstStagesNext
<1>5. /\ InstRdes(w)
      /\ \A c : (Promised(w, c) <=> Promised(world, c)) /\ (Moved(w, c) <=> Moved(world, c))
  BY <1>1, InstSame DEF InstLeft
<1> QED
  BY <1>1, <1>2, <1>3, <1>4, <1>5 DEF v

LEMMA InstDescriptions ==
  /\ InstTarget \in I!Descriptions /\ I!Source("target", TRUE) \in I!Descriptions
  /\ InstTarget # I!Source("3.1.0", FALSE) /\ InstTarget # I!Source("target", TRUE)
  /\ Absent \notin I!Descriptions /\ I!Source("3.1.0", FALSE) \in I!Descriptions
<1>1. Absent \notin I!Descriptions
  BY InstallerAssumption
<1>2. InstTarget # I!Source("3.1.0", FALSE) /\ InstTarget # I!Source("target", TRUE)
  BY DEF InstTarget, I!Source
<1> QED
  BY <1>1, <1>2 DEF InstTarget, I!Source, I!Descriptions, I!Versions

LEMMA InstNoSizing ==
  ASSUME InstInv, NEW a \in Ops, I!RemoveSizing(a)
  PROVE  InstInv'
<1> DEFINE v == I!Done(world)
           l == loc[a]
<1>1. I!At(a, "sizing") /\ I!Carry(a, world) /\ loc' = loc /\ world \in InstWorlds
  BY DEF I!RemoveSizing, InstInv
<1>2. /\ l \in I!Locals /\ InstLeft(world, l) /\ InstMade(world, l)
      /\ v.parts = world.parts /\ v.mqtt = world.mqtt /\ v.amqp = world.amqp
      /\ Coming(world.plan) = {"sizing"} \cup Coming(v.plan)
  BY <1>1, InstStageAt
<1> HIDE DEF v
<1>3. InstMade(v, l)
  <2>1. "sizing" \notin InstNeeds(l)
    BY DEF InstNeeds
  <2> QED
    BY <1>2, <2>1 DEF InstMade
<1>4. loc' = [loc EXCEPT ![a] = l]
  BY <1>1 DEF InstInv
<1> QED
  BY <1>1, <1>2, <1>3, <1>4, InstSimple DEF v

LEMMA InstNoFilters ==
  ASSUME InstInv, NEW a \in Ops, I!DropFilters(a) \/ I!Unregister(a)
  PROVE  InstInv'
<1> DEFINE w == [world EXCEPT !.parts = world.parts \ {"filters"}]
           v == I!Done(w)
           l == loc[a]
<1>1. PICK s \in {"drop-filters", "unregister"} : I!At(a, s) /\ I!Carry(a, w) /\ loc' = loc
  BY DEF I!DropFilters, I!Unregister
<1>2. /\ w \in InstWorlds /\ w.parts = world.parts \ {"filters"} /\ w.plan = world.plan
      /\ w.mqtt = world.mqtt /\ w.amqp = world.amqp /\ w.rdes = world.rdes /\ w.tag = world.tag
      /\ w.template = world.template
  <2>1. world \in InstWorlds /\ world.parts \ {"filters"} \in SUBSET I!Parts
    BY DEF InstInv, InstWorlds
  <2> QED
    BY <2>1, InstWith
<1> HIDE DEF w
<1>3. /\ l \in I!Locals /\ InstLeft(world, l) /\ InstMade(world, l)
      /\ v.parts = w.parts /\ v.mqtt = w.mqtt /\ v.amqp = w.amqp
      /\ Coming(world.plan) = {s} \cup Coming(v.plan) /\ "filters" \in Coming(v.plan)
      /\ InstRdes(w)
      /\ \A c : (Promised(w, c) <=> Promised(world, c)) /\ (Moved(w, c) <=> Moved(world, c))
  BY <1>1, <1>2, InstStageAt
<1> HIDE DEF v
<1>4. InstMade(v, l)
  <2>1. s \notin InstNeeds(l) /\ "filters" \notin InstNeeds(l)
    BY <1>1 DEF InstNeeds
  <2> QED
    BY <1>1, <1>2, <1>3, <2>1 DEF InstMade
<1>5. InstLeft(w, l)
  BY <1>2, <1>3 DEF InstLeft
<1>6. loc' = [loc EXCEPT ![a] = l]
  BY <1>1 DEF InstInv
<1> QED
  BY <1>1, <1>2, <1>3, <1>4, <1>5, <1>6, InstSimple DEF v

LEMMA InstNoAmqp ==
  ASSUME InstInv, NEW a \in Ops, I!DropAmqp(a)
  PROVE  InstInv'
<1> DEFINE w == [world EXCEPT !.amqp = Absent]
           v == I!Done(w)
           l == loc[a]
<1>1. I!At(a, "drop-amqp") /\ I!Carry(a, w) /\ loc' = loc
  BY DEF I!DropAmqp
<1>2. /\ w \in InstWorlds /\ w.parts = world.parts /\ w.plan = world.plan
      /\ w.mqtt = world.mqtt /\ w.amqp = Absent /\ w.rdes = world.rdes /\ w.tag = world.tag
      /\ w.template = world.template
  BY InstWith DEF InstInv
<1> HIDE DEF w
<1>3. /\ l \in I!Locals /\ InstLeft(world, l) /\ InstMade(world, l) /\ InstStages(world, l)
      /\ v.parts = w.parts /\ v.mqtt = w.mqtt /\ v.amqp = w.amqp
      /\ "drop-amqp" \in Coming(world.plan)
      /\ Coming(world.plan) = {"drop-amqp"} \cup Coming(v.plan)
      /\ InstRdes(w)
      /\ \A c : (Promised(w, c) <=> Promised(world, c)) /\ (Moved(w, c) <=> Moved(world, c))
  BY <1>1, <1>2, InstStageAt
<1> HIDE DEF v
<1>4. ~l.mode.legacy /\ l.kind = "upgrade"
  BY <1>3 DEF InstStages, I!Locals
<1>5. InstMade(v, l)
  <2>1. "drop-amqp" \notin InstNeeds(l)
    BY DEF InstNeeds
  <2> QED
    BY <1>2, <1>3, <1>4, <2>1 DEF InstMade
<1>6. InstLeft(w, l)
  <2>1. Absent # InstTarget
    BY InstallerAssumption, InstDescriptions
  <2> QED
    BY <1>2, <1>3, <2>1 DEF InstLeft
<1>7. loc' = [loc EXCEPT ![a] = l]
  BY <1>1 DEF InstInv
<1> QED
  BY <1>1, <1>2, <1>3, <1>5, <1>6, <1>7, InstSimple DEF v

LEMMA InstDescribed ==
  ASSUME InstInv, NEW a \in Ops, I!UpdateMqtt(a)
  PROVE  InstInv'
<1> DEFINE w == [world EXCEPT !.mqtt = I!Source("target", FALSE)]
           v == I!Done(w)
           l == loc[a]
<1>1. I!At(a, "update-mqtt") /\ I!Carry(a, w) /\ loc' = loc
  BY DEF I!UpdateMqtt
<1>2. /\ w \in InstWorlds /\ w.parts = world.parts /\ w.plan = world.plan
      /\ w.mqtt = InstTarget /\ w.amqp = world.amqp /\ w.rdes = world.rdes /\ w.tag = world.tag
      /\ w.template = world.template
  <2>1. world \in InstWorlds
    BY DEF InstInv
  <2>2. InstTarget \in I!Descriptions \cup {Absent} /\ w = [world EXCEPT !.mqtt = InstTarget]
    BY InstDescriptions DEF InstTarget
  <2> HIDE DEF w
  <2> QED
    BY <2>1, <2>2, InstWith
<1> HIDE DEF w
<1>3. /\ l \in I!Locals /\ InstLeft(world, l) /\ InstMade(world, l) /\ InstStages(world, l)
      /\ InstListed(world, l)
      /\ v.parts = w.parts /\ v.mqtt = w.mqtt /\ v.amqp = w.amqp
      /\ Coming(world.plan) = {"update-mqtt"} \cup Coming(v.plan)
      /\ Coming(v.plan) \cap {"entity-type", "list-clusters", "clusters"} = {}
      /\ InstRdes(w)
      /\ \A c : (Promised(w, c) <=> Promised(world, c)) /\ (Moved(w, c) <=> Moved(world, c))
  BY <1>1, <1>2, InstStageAt
<1> HIDE DEF v
<1>4. ~l.mode.legacy /\ l.kind = "upgrade"
  BY <1>3 DEF InstStages, I!Locals
<1>5. "schema" \in world.parts /\ "catalog" \in world.parts
  BY <1>3, <1>4 DEF InstMade
<1>6. InstMade(v, l)
  <2>1. "update-mqtt" \notin InstNeeds(l)
    BY DEF InstNeeds
  <2> QED
    BY <1>2, <1>3, <1>4, <2>1 DEF InstMade
<1>7. InstLeft(w, l)
  <2>1. \A c \in LegacyClusters : Promised(w, c) => Moved(w, c)
    BY <1>3, <1>4 DEF InstListed
  <2> QED
    BY <1>2, <1>3, <1>5, <2>1 DEF InstLeft
<1>8. loc' = [loc EXCEPT ![a] = l]
  BY <1>1 DEF InstInv
<1> QED
  BY <1>1, <1>2, <1>3, <1>6, <1>7, <1>8, InstSimple DEF v

LEMMA InstExtended ==
  ASSUME InstInv, NEW a \in Ops, I!SetupExtension(a)
  PROVE  InstInv'
<1> DEFINE l == loc[a]
           d == IF l.kind = "install" THEN InstTarget ELSE l.source
           w == IF world.mqtt = Absent THEN [world EXCEPT !.mqtt = d] ELSE world
           v == I!Done(w)
           k == [l EXCEPT !.installed = @ \/ l.kind = "install"]
<1>1. I!At(a, "mqtt") /\ I!Carry(a, w) /\ loc' = [loc EXCEPT ![a] = k]
  BY DEF I!SetupExtension, I!Set, InstTarget
<1>2. /\ world \in InstWorlds /\ l \in I!Locals
  BY DEF InstInv
<1>3. /\ w \in InstWorlds /\ w.parts = world.parts /\ w.plan = world.plan
      /\ w.mqtt = (IF world.mqtt = Absent THEN d ELSE world.mqtt)
      /\ w.amqp = world.amqp /\ w.rdes = world.rdes /\ w.tag = world.tag
      /\ w.template = world.template
  <2>1. d \in I!Descriptions
    BY <1>2, InstDescriptions DEF I!Locals
  <2> QED
    BY <1>2, <2>1, InstWith
<1> HIDE DEF w
<1>4. /\ InstLeft(world, l) /\ InstMade(world, l) /\ InstStages(world, l)
      /\ v.parts = w.parts /\ v.mqtt = w.mqtt /\ v.amqp = w.amqp
      /\ "mqtt" \in Coming(world.plan)
      /\ Coming(world.plan) = {"mqtt"} \cup Coming(v.plan)
      /\ l.kind = "install" => "catalog" \notin Coming(v.plan)
      /\ InstRdes(w)
      /\ \A c : (Promised(w, c) <=> Promised(world, c)) /\ (Moved(w, c) <=> Moved(world, c))
  BY <1>1, <1>3, InstStageAt
<1> HIDE DEF v
<1>5. /\ k \in I!Locals /\ k.mode = l.mode /\ k.kind = l.kind /\ k.left = l.left
      /\ k.cluster = l.cluster /\ k.at = l.at /\ k.rde = l.rde /\ k.source = l.source
      /\ k.torn = l.torn /\ (k.installed <=> l.installed \/ l.kind = "install")
  BY <1>2 DEF I!Locals
<1> HIDE DEF k
<1>6. /\ ~l.mode.legacy /\ l.kind \in {"install", "upgrade"}
      /\ l.kind = "install" => I!should_use_mqtt_protocol(l.mode)
  BY <1>2, <1>4 DEF InstStages, I!Locals
<1>7. "catalog" \in world.parts
  <2>1. CASE l.kind = "upgrade"
    BY <1>4, <2>1 DEF InstMade
  <2>2. CASE l.kind = "install"
    <3>1. "catalog" \in world.parts \cup Coming(world.plan)
      BY <1>4, <2>2 DEF InstMade, InstNeeds
    <3> QED
      BY <1>4, <2>2, <3>1
  <2> QED
    BY <1>6, <2>1, <2>2
<1>8. InstMade(v, k)
  <2>1. InstNeeds(k) = InstNeeds(l) /\ "mqtt" \notin InstNeeds(l)
    BY <1>5 DEF InstNeeds
  <2>2. /\ \A p \in InstNeeds(k) : p \in v.parts \cup Coming(v.plan)
        /\ "entity-type" \in Coming(v.plan) \/ {"entity-type", "schema"} \subseteq v.parts
        /\ "filters" \in v.parts \/ Coming(v.plan) \cap {"filters", "amqp"} # {}
        /\ k.kind = "upgrade" => "catalog" \in v.parts
    BY <1>3, <1>4, <1>5, <1>6, <2>1 DEF InstMade
  <2>3. "entity-type" \in Coming(v.plan) /\ v.mqtt = I!Source("3.1.0", FALSE) =>
          k.kind = "upgrade" /\ k.source.version = "3.1.0"
    <3>1. CASE world.mqtt # Absent
      BY <1>3, <1>4, <1>5, <1>6, <3>1 DEF InstMade
    <3>2. CASE world.mqtt = Absent
      BY <1>3, <1>4, <1>5, <1>6, <3>2, InstDescriptions DEF I!Source
    <3> QED
      BY <3>1, <3>2
  <2>4. CASE l.kind = "upgrade"
    <3>1. v.mqtt = InstTarget \/ "update-mqtt" \in Coming(v.plan)
      <4>1. world.mqtt = InstTarget \/ "update-mqtt" \in Coming(world.plan)
        BY <1>4, <1>6, <2>4 DEF InstMade
      <4> QED
        BY <1>3, <1>4, <4>1, InstDescriptions
    <3> QED
      BY <1>5, <1>6, <2>2, <2>3, <2>4, <3>1 DEF InstMade
  <2>5. CASE l.kind = "install"
    <3>1. v.mqtt = InstTarget
      <4>1. world.mqtt = InstTarget \/ world.mqtt = Absent
        BY <1>4, <1>6, <2>5 DEF InstMade
      <4> QED
        BY <1>3, <1>4, <2>5, <4>1
    <3> QED
      BY <1>5, <1>6, <2>2, <2>3, <2>5, <3>1 DEF InstMade
  <2> QED
    BY <1>6, <2>4, <2>5
<1>9. InstLeft(w, k)
  <2>1. "entity-type" \in w.parts => "schema" \in w.parts \/ w.mqtt = I!Source("3.1.0", FALSE)
    <3>1. I!Source("3.1.0", FALSE) # Absent
      BY InstDescriptions
    <3> QED
      BY <1>3, <1>4, <3>1 DEF InstLeft
  <2>2. w.mqtt = InstTarget \/ w.amqp = InstTarget \/ k.source = InstTarget =>
          k.installed \/ \A c \in LegacyClusters : Promised(w, c) => Moved(w, c)
    <3>1. CASE l.kind = "install"
      BY <1>5, <3>1
    <3>2. CASE l.kind = "upgrade"
      <4>1. w.mqtt = InstTarget => world.mqtt = InstTarget \/ l.source = InstTarget
        BY <1>3, <3>2
      <4> QED
        BY <1>3, <1>4, <1>5, <4>1 DEF InstLeft
    <3> QED
      BY <1>6, <3>1, <3>2
  <2> QED
    BY <1>3, <1>4, <1>7, <2>1, <2>2 DEF InstLeft
<1> QED
  BY <1>1, <1>3, <1>4, <1>5, <1>8, <1>9, InstSimple DEF v

LEMMA InstAmqpRegistered ==
  ASSUME InstInv, NEW a \in Ops, I!RegisterAmqp(a)
  PROVE  InstInv'
<1> DEFINE l == loc[a]
           d == I!Source("target", l.mode.legacy)
           w == [I!With("filters") EXCEPT !.amqp = d]
           v == I!Done(w)
           k == [l EXCEPT !.installed = TRUE]
           s == "amqp"
<1>1. I!At(a, s) /\ I!Carry(a, w) /\ loc' = [loc EXCEPT ![a] = k]
  BY DEF I!RegisterAmqp, I!Set
<1>2. /\ world \in InstWorlds /\ l \in I!Locals
  BY DEF InstInv
<1>3. /\ w \in InstWorlds /\ w.parts = world.parts \cup {"filters"} /\ w.plan = world.plan
      /\ w.mqtt = world.mqtt /\ w.amqp = d /\ w.rdes = world.rdes /\ w.tag = world.tag
      /\ w.template = world.template
  <2>1. world.parts \cup {"filters"} \in SUBSET I!Parts
    BY <1>2 DEF InstWorlds, I!Parts
  <2>2. d \in I!Descriptions
    BY <1>2 DEF I!Locals, I!Source, I!Descriptions, I!Versions
  <2> DEFINE u == [world EXCEPT !.parts = world.parts \cup {"filters"}]
  <2>3. /\ u \in InstWorlds /\ u.parts = world.parts \cup {"filters"} /\ u.plan = world.plan
        /\ u.mqtt = world.mqtt /\ u.amqp = world.amqp /\ u.rdes = world.rdes
        /\ u.tag = world.tag /\ u.template = world.template
    BY <1>2, <2>1, InstWith
  <2>4. w = [u EXCEPT !.amqp = d]
    BY DEF I!With
  <2> HIDE DEF u, d, w
  <2> QED
    BY <2>2, <2>3, <2>4, InstWith
<1> HIDE DEF w
<1>4. /\ InstLeft(world, l) /\ InstMade(world, l) /\ InstStages(world, l)
      /\ v.parts = w.parts /\ v.mqtt = w.mqtt /\ v.amqp = w.amqp
      /\ s \in Coming(world.plan)
      /\ Coming(world.plan) = {s} \cup Coming(v.plan)
      /\ l.kind = "install" => "catalog" \notin Coming(v.plan)
      /\ InstRdes(w)
      /\ \A c : (Promised(w, c) <=> Promised(world, c)) /\ (Moved(w, c) <=> Moved(world, c))
  BY <1>1, <1>3, InstStageAt
<1> HIDE DEF v
<1>5. /\ k \in I!Locals /\ k.mode = l.mode /\ k.kind = l.kind /\ k.left = l.left
      /\ k.cluster = l.cluster /\ k.at = l.at /\ k.rde = l.rde /\ k.source = l.source
      /\ k.torn = l.torn /\ k.installed
  BY <1>2 DEF I!Locals
<1> HIDE DEF k
<1>6. l.kind = "install" /\ ~I!should_use_mqtt_protocol(l.mode) /\ l.mode.legacy \in BOOLEAN
  BY <1>1, <1>2, <1>4 DEF InstStages, I!Locals
<1>7. "catalog" \in world.parts
  <2>1. "catalog" \in world.parts \cup Coming(world.plan)
    BY <1>4, <1>6 DEF InstMade, InstNeeds
  <2> QED
    BY <1>4, <1>6, <2>1
<1>8. InstMade(v, k)
  <2>1. InstNeeds(k) = InstNeeds(l) /\ s \notin InstNeeds(l)
    BY <1>1, <1>5 DEF InstNeeds
  <2>2. /\ \A p \in InstNeeds(k) : p \in v.parts \cup Coming(v.plan)
        /\ ~k.mode.legacy => "entity-type" \in Coming(v.plan) \/ {"entity-type", "schema"} \subseteq v.parts
        /\ "filters" \in v.parts
        /\ k.kind = "upgrade" => "catalog" \in v.parts
    BY <1>1, <1>3, <1>4, <1>5, <2>1 DEF InstMade
  <2>3. ~k.mode.legacy /\ "entity-type" \in Coming(v.plan) /\ v.mqtt = I!Source("3.1.0", FALSE) =>
          k.kind = "upgrade" /\ k.source.version = "3.1.0"
    BY <1>1, <1>3, <1>4, <1>5 DEF InstMade
  <2>4. v.amqp = I!Source("target", k.mode.legacy)
    BY <1>3, <1>4, <1>5
  <2>5. /\ ~(k.kind = "upgrade" /\ ~k.mode.legacy)
        /\ ~(k.kind = "install" /\ I!should_use_mqtt_protocol(k.mode))
    BY <1>1, <1>5, <1>6
  <2> QED
    BY <2>2, <2>3, <2>4, <2>5 DEF InstMade
<1>9. InstLeft(w, k)
  BY <1>3, <1>4, <1>5, <1>7 DEF InstLeft
<1>10. s \notin {"list-clusters", "clusters", "type-ACL"}
  BY <1>1
<1>11. /\ "entity-type" \in w.parts <=> "entity-type" \in world.parts
       /\ "type-ACL" \in w.parts <=> "type-ACL" \in world.parts
  BY <1>3
<1>12. I!Carry(a, w) /\ I!At(a, s)
  BY <1>1 DEF w
<1> QED
  BY <1>1, <1>3, <1>4, <1>5, <1>8, <1>9, <1>10, <1>11, <1>12, InstSimple DEF v

LEMMA InstAmqpUpdated ==
  ASSUME InstInv, NEW a \in Ops, I!UpdateAmqp(a)
  PROVE  InstInv'
<1> DEFINE l == loc[a]
           d == I!Source("target", l.mode.legacy)
           w == [world EXCEPT !.amqp = d]
           v == I!Done(w)
           s == "update-amqp"
<1>1. I!At(a, s) /\ I!Carry(a, w) /\ loc' = loc
  BY DEF I!UpdateAmqp
<1>2. /\ world \in InstWorlds /\ l \in I!Locals
  BY DEF InstInv
<1>3. /\ w \in InstWorlds /\ w.parts = world.parts /\ w.plan = world.plan
      /\ w.mqtt = world.mqtt /\ w.amqp = d /\ w.rdes = world.rdes /\ w.tag = world.tag
      /\ w.template = world.template
  <2>1. d \in I!Descriptions
    BY <1>2 DEF I!Locals, I!Source, I!Descriptions, I!Versions
  <2> HIDE DEF d
  <2> QED
    BY <1>2, <2>1, InstWith
<1> HIDE DEF w
<1>4. /\ InstLeft(world, l) /\ InstMade(world, l) /\ InstStages(world, l)
      /\ v.parts = w.parts /\ v.mqtt = w.mqtt /\ v.amqp = w.amqp
      /\ s \in Coming(world.plan)
      /\ Coming(world.plan) = {s} \cup Coming(v.plan)
      /\ InstRdes(w)
      /\ \A c : (Promised(w, c) <=> Promised(world, c)) /\ (Moved(w, c) <=> Moved(world, c))
  BY <1>1, <1>3, InstStageAt
<1> HIDE DEF v
<1>5. l.kind = "upgrade" /\ l.mode.legacy
  BY <1>2, <1>4 DEF InstStages, I!Locals
<1>6. InstMade(v, l)
  <2>1. s \notin InstNeeds(l)
    BY DEF InstNeeds
  <2>2. /\ \A p \in InstNeeds(l) : p \in v.parts \cup Coming(v.plan)
        /\ "filters" \in v.parts \/ Coming(v.plan) \cap {"filters", "amqp"} # {}
        /\ "catalog" \in v.parts
    BY <1>3, <1>4, <1>5, <2>1 DEF InstMade
  <2>3. v.amqp = I!Source("target", l.mode.legacy)
    BY <1>3, <1>4
  <2> QED
    BY <1>5, <2>2, <2>3 DEF InstMade
<1>7. InstLeft(w, l)
  <2>1. w.amqp # InstTarget
    BY <1>3, <1>5, InstDescriptions
  <2>2. "catalog" \in world.parts
    BY <1>4, <1>5 DEF InstMade
  <2> QED
    BY <1>3, <1>4, <2>1, <2>2 DEF InstLeft
<1>8. loc' = [loc EXCEPT ![a] = l]
  BY <1>1 DEF InstInv
<1>9. I!Carry(a, w) /\ I!At(a, s)
  BY <1>1 DEF w
<1> QED
  BY <1>2, <1>3, <1>6, <1>7, <1>8, <1>9, InstSimple DEF v

\* The ACL of the entity type: only the attempt that created the type sets it.
LEMMA InstShared ==
  ASSUME InstInv, NEW a \in Ops, I!TypeAcl(a)
  PROVE  InstInv'
<1> DEFINE l == loc[a]
           w == I!With("type-ACL")
           v == I!Done(w)
           k == [l EXCEPT !.torn = @ \/ pc'[a] = "failed"]
<1>1. I!At(a, "type-ACL") /\ I!Carry(a, w) /\ loc' = [loc EXCEPT ![a] = k]
  BY DEF I!TypeAcl, I!Set
<1>2. world \in InstWorlds /\ l \in I!Locals
  BY DEF InstInv
<1>3. /\ w \in InstWorlds /\ w.parts = world.parts \cup {"type-ACL"} /\ w.plan = world.plan
      /\ w.mqtt = world.mqtt /\ w.amqp = world.amqp /\ w.rdes = world.rdes /\ w.tag = world.tag
      /\ w.template = world.template
  <2>1. world.parts \cup {"type-ACL"} \in SUBSET I!Parts
    BY <1>2 DEF InstWorlds, I!Parts
  <2> QED
    BY <1>2, <2>1, InstWith DEF I!With
<1> HIDE DEF w
<1>4. /\ InstLeft(world, l) /\ InstMade(world, l)
      /\ v.parts = w.parts /\ v.mqtt = w.mqtt /\ v.amqp = w.amqp
      /\ Coming(world.plan) = {"type-ACL"} \cup Coming(v.plan)
      /\ InstRdes(w)
      /\ \A c : (Promised(w, c) <=> Promised(world, c)) /\ (Moved(w, c) <=> Moved(world, c))
  BY <1>1, <1>3, InstStageAt
<1>5. /\ pc'[a] = "run" => world' = v
      /\ pc'[a] \in {"run", "failed"}
  BY <1>1, <1>3, InstCarried
<1> HIDE DEF v
<1>6. /\ k \in I!Locals /\ k.mode = l.mode /\ k.kind = l.kind /\ k.left = l.left
      /\ k.cluster = l.cluster /\ k.at = l.at /\ k.rde = l.rde /\ k.source = l.source
      /\ k.installed = l.installed /\ (pc'[a] = "failed" => k.torn)
  BY <1>2 DEF I!Locals
<1> HIDE DEF k
<1>7. InstMade(v, k)
  <2>1. InstNeeds(k) = InstNeeds(l) /\ "type-ACL" \notin InstNeeds(l)
    BY <1>6 DEF InstNeeds
  <2> QED
    BY <1>3, <1>4, <1>6, <2>1 DEF InstMade
<1>8. InstLeft(w, k)
  BY <1>3, <1>4, <1>6 DEF InstLeft
<1>9. InstAcl(world', k, pc'[a])
  BY <1>3, <1>4, <1>5, <1>6 DEF InstAcl
<1> QED
  BY <1>1, <1>3, <1>6, <1>7, <1>8, <1>9, InstStage DEF v

\* A type that exists is updated, unless it is of the new version.
LEMMA InstTypeUpdated ==
  ASSUME InstInv, NEW a \in Ops, I!RegisterEntityType(a), "entity-type" \in world.parts
  PROVE  InstInv'
<1> DEFINE l == loc[a]
           w == IF I!updates(a) THEN I!With("schema") ELSE world
           v == I!Done(w)
<1>1. I!At(a, "entity-type") /\ I!Carry(a, w) /\ loc' = loc
  BY DEF I!RegisterEntityType
<1>2. world \in InstWorlds /\ l \in I!Locals
  BY DEF InstInv
<1>3. /\ w \in InstWorlds /\ w.plan = world.plan
      /\ w.parts = (IF I!updates(a) THEN world.parts \cup {"schema"} ELSE world.parts)
      /\ w.mqtt = world.mqtt /\ w.amqp = world.amqp /\ w.rdes = world.rdes /\ w.tag = world.tag
      /\ w.template = world.template
  <2>1. world.parts \cup {"schema"} \in SUBSET I!Parts
    BY <1>2 DEF InstWorlds, I!Parts
  <2> QED
    BY <1>2, <2>1, InstWith DEF I!With
<1> HIDE DEF w
<1>4. /\ InstLeft(world, l) /\ InstMade(world, l) /\ InstStages(world, l)
      /\ v.parts = w.parts /\ v.mqtt = w.mqtt /\ v.amqp = w.amqp
      /\ "entity-type" \in Coming(world.plan)
      /\ Coming(world.plan) = {"entity-type"} \cup Coming(v.plan)
      /\ InstRdes(w)
      /\ \A c : (Promised(w, c) <=> Promised(world, c)) /\ (Moved(w, c) <=> Moved(world, c))
  BY <1>1, <1>3, InstStageAt
<1> HIDE DEF v
<1>5. ~l.mode.legacy
  BY <1>4 DEF InstStages
<1>6. "schema" \in w.parts
  <2>1. CASE I!updates(a)
    BY <1>3, <2>1
  <2>2. CASE ~I!updates(a)
    <3>1. world.mqtt # I!Source("3.1.0", FALSE)
      BY <1>4, <1>5, <2>2 DEF InstMade, I!updates
    <3> QED
      BY <1>3, <1>4, <2>2, <3>1 DEF InstLeft
  <2> QED
    BY <2>1, <2>2
<1>7. InstMade(v, l)
  <2>1. "entity-type" \notin InstNeeds(l)
    BY DEF InstNeeds
  <2>2. /\ \A p \in InstNeeds(l) : p \in v.parts \cup Coming(v.plan)
        /\ {"entity-type", "schema"} \subseteq v.parts
        /\ "filters" \in v.parts \/ Coming(v.plan) \cap {"filters", "amqp"} # {}
        /\ l.kind = "upgrade" => "catalog" \in v.parts
    BY <1>3, <1>4, <1>6, <2>1 DEF InstMade
  <2>3. /\ "mqtt" \in Coming(v.plan) <=> "mqtt" \in Coming(world.plan)
        /\ "update-mqtt" \in Coming(v.plan) <=> "update-mqtt" \in Coming(world.plan)
        /\ (Coming(v.plan) \cap {"amqp", "update-amqp"} = {}) <=>
             (Coming(world.plan) \cap {"amqp", "update-amqp"} = {})
        /\ "entity-type" \in Coming(v.plan) => "entity-type" \in Coming(world.plan)
    BY <1>4
  <2> QED
    BY <1>3, <1>4, <1>5, <2>2, <2>3 DEF InstMade
<1>8. InstLeft(w, l)
  <2>1. w.mqtt # Absent \/ w.amqp # Absent => "catalog" \in w.parts
    BY <1>3, <1>4 DEF InstLeft
  <2>2. w.mqtt = InstTarget \/ w.amqp = InstTarget \/ l.source = InstTarget =>
          l.installed \/ \A c \in LegacyClusters : Promised(w, c) => Moved(w, c)
    BY <1>3, <1>4 DEF InstLeft
  <2> QED
    BY <1>4, <1>6, <2>1, <2>2 DEF InstLeft
<1>9. loc' = [loc EXCEPT ![a] = l]
  BY <1>1 DEF InstInv
<1>10. /\ "entity-type" \in w.parts <=> "entity-type" \in world.parts
       /\ "type-ACL" \in w.parts <=> "type-ACL" \in world.parts
  BY <1>3
<1>11. I!Carry(a, w)
  BY <1>1 DEF w
<1> QED
  BY <1>1, <1>2, <1>3, <1>7, <1>8, <1>9, <1>10, <1>11, InstSimple DEF v

\* A type that is created; its ACL comes next.
LEMMA InstTypeCreated ==
  ASSUME InstInv, NEW a \in Ops, I!RegisterEntityType(a), "entity-type" \notin world.parts
  PROVE  InstInv'
<1> DEFINE l == loc[a]
           w == [world EXCEPT !.parts = world.parts \cup {"entity-type", "schema"}]
           v == I!Done(w)
           u == [v EXCEPT !.plan = <<"type-ACL">> \o v.plan]
           k == [l EXCEPT !.torn = "entity-type" \in world'.parts]
<1>0. /\ I!At(a, "entity-type")
      /\ \/ world' = u /\ I!Goto(a, "run") /\ UNCHANGED <<faults, loc>>
         \/ /\ world' \in {world, w} /\ I!Goto(a, "failed") /\ I!Fault
            /\ loc' = [loc EXCEPT ![a] = k]
  BY DEF I!RegisterEntityType, I!Set
<1>1. /\ world \in InstWorlds /\ l \in I!Locals /\ InstLeft(world, l) /\ InstRun(world, l)
      /\ pc[a] = "run"
  BY <1>0, InstAt
<1>2. /\ w \in InstWorlds /\ w.parts = world.parts \cup {"entity-type", "schema"}
      /\ w.plan = world.plan
      /\ w.mqtt = world.mqtt /\ w.amqp = world.amqp /\ w.rdes = world.rdes /\ w.tag = world.tag
      /\ w.template = world.template
  <2>1. world.parts \cup {"entity-type", "schema"} \in SUBSET I!Parts
    BY <1>1 DEF InstWorlds, I!Parts
  <2> QED
    BY <1>1, <2>1, InstWith
<1> HIDE DEF w
<1>3. /\ InstMade(world, l) /\ InstStages(world, l) /\ InstListed(world, l)
      /\ v \in InstWorlds /\ v.parts = w.parts /\ v.mqtt = w.mqtt /\ v.amqp = w.amqp
      /\ v.plan = Tail(world.plan)
      /\ Coming(world.plan) = {"entity-type"} \cup Coming(v.plan)
      /\ InstRdes(w)
      /\ \A c : (Promised(w, c) <=> Promised(world, c)) /\ (Moved(w, c) <=> Moved(world, c))
  BY <1>0, <1>2, InstStageAt
<1>4. v.rdes = world.rdes /\ v.tag = world.tag /\ v.template = world.template
  <2>1. world.plan # <<>>
    BY <1>0 DEF I!At
  <2> QED
    BY <1>2, <2>1, InstDone
<1>5. InstLeft(w, l)
  BY <1>1, <1>2, <1>3 DEF InstLeft
<1>6. /\ DOMAIN pc = Ops /\ faults \in 0..MaxFaults /\ MaxFaults \in Nat
      /\ loc \in [Ops -> I!Locals]
  BY ThreadsAssumption DEF InstInv, I!TypeOK
<1> HIDE DEF v
<1>7. CASE world' = u /\ I!Goto(a, "run") /\ UNCHANGED <<faults, loc>>
  <2> DEFINE p == <<"type-ACL">> \o v.plan
  <2>1. v.plan \in Seq(InstSteps)
    BY <1>3 DEF InstWorlds
  <2>2. /\ p \in Seq(InstSteps) /\ Coming(p) = {"type-ACL"} \cup Coming(v.plan)
        /\ p # <<>> /\ Head(p) = "type-ACL"
    <3>1. <<"type-ACL">> \in Seq(InstSteps) /\ Coming(<<"type-ACL">>) = {"type-ACL"}
      BY PlanParts
    <3>2. p # <<>> /\ Head(p) = "type-ACL"
      BY <2>1
    <3>3. p \in Seq(InstSteps) /\ Coming(p) = Coming(<<"type-ACL">>) \cup Coming(v.plan)
      BY <2>1, <3>1, PlansJoined
    <3> HIDE DEF p
    <3> QED
      BY <3>1, <3>2, <3>3
  <2>3. InstStages(v, l)
    BY <1>0, <1>1, <1>3, InstStagesNext DEF I!At
  <2>4. /\ Then(p, {"unregister", "drop-filters"}, "filters")
        /\ Then(p, {"list-clusters"}, "clusters")
        /\ NeverAfter(p, {"update-mqtt"}, {"entity-type", "list-clusters", "clusters"})
        /\ NeverAfter(p, {"mqtt", "amqp"}, IF l.kind = "install" THEN {"catalog"} ELSE {})
    <3> DEFINE q == <<"type-ACL">>
    <3>1. q \in Seq(InstSteps) /\ Coming(q) = {"type-ACL"}
      BY PlanParts
    <3> HIDE DEF q
    <3>2. /\ Then(q, {"unregister", "drop-filters"}, "filters")
          /\ Then(q, {"list-clusters"}, "clusters")
          /\ NeverAfter(q, {"update-mqtt"}, {"entity-type", "list-clusters", "clusters"})
          /\ NeverAfter(q, {"mqtt", "amqp"}, IF l.kind = "install" THEN {"catalog"} ELSE {})
          /\ Coming(q) \cap {"update-mqtt"} = {} /\ Coming(q) \cap {"mqtt", "amqp"} = {}
      <4>1. /\ Coming(q) \cap {"update-mqtt"} = {} /\ Coming(q) \cap {"mqtt", "amqp"} = {}
            /\ Coming(q) \cap {"unregister", "drop-filters"} = {}
            /\ Coming(q) \cap {"list-clusters"} = {}
        BY <3>1
      <4> QED
        BY <3>1, <4>1, PlanPart
    <3>3. /\ Then(v.plan, {"unregister", "drop-filters"}, "filters")
          /\ Then(v.plan, {"list-clusters"}, "clusters")
          /\ NeverAfter(v.plan, {"update-mqtt"}, {"entity-type", "list-clusters", "clusters"})
          /\ NeverAfter(v.plan, {"mqtt", "amqp"}, IF l.kind = "install" THEN {"catalog"} ELSE {})
      BY <2>3 DEF InstStages
    <3>4. p = q \o v.plan
      BY DEF q
    <3> HIDE DEF p
    <3> QED
      BY <2>1, <3>1, <3>2, <3>3, <3>4, PlansJoined
  <2> HIDE DEF p
  <2>5. /\ u \in InstWorlds /\ u.plan = p /\ u.parts = v.parts /\ u.mqtt = v.mqtt
        /\ u.amqp = v.amqp /\ u.rdes = world.rdes /\ u.tag = world.tag
        /\ u.template = world.template
    BY <1>3, <1>4, <2>2 DEF InstWorlds, p
  <2> HIDE DEF u
  <2>6. InstStages(u, l)
    BY <2>2, <2>3, <2>4, <2>5 DEF InstStages
  <2>7. InstMade(u, l)
    <3>0. {"entity-type", "schema"} \subseteq u.parts /\ world.parts \subseteq u.parts
      BY <1>2, <1>3, <2>5
    <3>1. "entity-type" \notin InstNeeds(l) /\ Coming(u.plan) = {"type-ACL"} \cup Coming(v.plan)
      BY <2>2, <2>5 DEF InstNeeds
    <3>2. /\ \A x \in InstNeeds(l) : x \in u.parts \cup Coming(u.plan)
          /\ "filters" \in u.parts \/ Coming(u.plan) \cap {"filters", "amqp"} # {}
          /\ l.kind = "upgrade" => "catalog" \in u.parts
      BY <1>3, <3>0, <3>1 DEF InstMade
    <3>3. /\ "mqtt" \in Coming(u.plan) <=> "mqtt" \in Coming(world.plan)
          /\ "update-mqtt" \in Coming(u.plan) <=> "update-mqtt" \in Coming(world.plan)
          /\ (Coming(u.plan) \cap {"amqp", "update-amqp"} = {}) <=>
               (Coming(world.plan) \cap {"amqp", "update-amqp"} = {})
          /\ "entity-type" \in Coming(u.plan) => "entity-type" \in Coming(world.plan)
      BY <1>3, <3>1
    <3>4. u.mqtt = world.mqtt /\ u.amqp = world.amqp
      BY <1>2, <1>3, <2>5
    <3> QED
      BY <1>3, <3>0, <3>2, <3>3, <3>4 DEF InstMade
  <2>8. InstListed(u, l)
    <3>1. \A c : (Promised(u, c) <=> Promised(world, c)) /\ (Moved(u, c) <=> Moved(world, c))
      BY <2>5, InstSame
    <3>2. /\ "list-clusters" \in Coming(u.plan) <=> "list-clusters" \in Coming(world.plan)
          /\ "clusters" \in Coming(u.plan) <=> "clusters" \in Coming(world.plan)
      BY <1>3, <2>2, <2>5
    <3> QED
      BY <1>3, <3>1, <3>2 DEF InstListed
  <2>9. InstMoving(u, l)
    BY <1>1, <2>5, InstSame DEF InstRun
  <2>10. InstLeft(u, l)
    <3>1. /\ InstRdes(u)
          /\ \A c : (Promised(u, c) <=> Promised(w, c)) /\ (Moved(u, c) <=> Moved(w, c))
      BY <1>2, <1>3, <2>5, InstSame
    <3> QED
      BY <1>3, <1>5, <2>5, <3>1 DEF InstLeft
  <2>11. InstAcl(u, l, "run")
    BY <2>2, <2>5 DEF InstAcl
  <2>12. /\ pc' = [pc EXCEPT ![a] = "run"] /\ pc'[a] = "run" /\ loc' = loc
         /\ faults' = faults /\ world' = u
    BY <1>6, <1>7 DEF I!Goto
  <2>13. InstPath(a)'
    BY <2>6, <2>7, <2>8, <2>9, <2>10, <2>11, <2>12 DEF InstPath, InstRun
  <2> QED
    BY <1>1, <1>6, <2>5, <2>12, <2>13, InstKept
<1>8. CASE /\ world' \in {world, w} /\ I!Goto(a, "failed") /\ I!Fault
           /\ loc' = [loc EXCEPT ![a] = k]
  <2>1. /\ k \in I!Locals /\ k.source = l.source /\ k.installed = l.installed
        /\ ("entity-type" \in world'.parts => k.torn)
    <3>1. \A t \in BOOLEAN :
            LET j == [l EXCEPT !.torn = t]
            IN  j \in I!Locals /\ j.source = l.source /\ j.installed = l.installed /\ j.torn = t
      BY <1>1 DEF I!Locals
    <3>2. ("entity-type" \in world'.parts) \in BOOLEAN
      OBVIOUS
    <3> QED
      BY <3>1, <3>2
  <2>2. InstLeft(world, k) /\ InstLeft(w, k)
    BY <1>1, <1>5, <2>1 DEF InstLeft
  <2>3. /\ pc' = [pc EXCEPT ![a] = "failed"] /\ pc'[a] = "failed" /\ loc'[a] = k
        /\ faults' \in 0..MaxFaults /\ loc' \in [Ops -> I!Locals] /\ world' \in InstWorlds
    <3>1. k \in I!Locals /\ loc' = [loc EXCEPT ![a] = k]
      BY <1>8, <2>1
    <3> HIDE DEF k
    <3> QED
      BY <1>1, <1>2, <1>6, <1>8, <3>1 DEF I!Goto, I!Fault
  <2> HIDE DEF k
  <2>4. InstAcl(world', k, "failed") /\ InstLeft(world', k)
    BY <1>8, <2>1, <2>2 DEF InstAcl
  <2>5. InstPath(a)'
    BY <2>3, <2>4 DEF InstPath
  <2> QED
    BY <1>1, <2>3, <2>5, InstKept
<1> QED
  BY <1>0, <1>7, <1>8 DEF w, v

\* A step on the clusters, in the stage that processes them.
LEMMA InstWork ==
  ASSUME InstInv, NEW a \in Ops, I!At(a, "clusters"),
         NEW w \in InstWorlds, w.plan = world.plan, w.parts = world.parts, w.mqtt = world.mqtt,
         w.amqp = world.amqp, w.template = world.template,
         NEW k \in I!Locals, loc' = [loc EXCEPT ![a] = k], k.mode = loc[a].mode,
         k.kind = loc[a].kind, k.source = loc[a].source, k.torn = loc[a].torn,
         k.installed = loc[a].installed,
         I!Call(a, w, "run", "failed") \/ (w = world /\ I!Advance(a)),
         InstRdes(w), InstMoving(w, k),
         \A c \in LegacyClusters : Promised(world, c) /\ Moved(world, c) => Moved(w, c),
         \A c \in LegacyClusters : Promised(world, c) /\ (c \in loc[a].left \/ c = loc[a].cluster) =>
           Moved(w, c) \/ c \in k.left \/ c = k.cluster
  PROVE  InstInv'
<1> DEFINE l == loc[a]
<1>1. /\ world \in InstWorlds /\ l \in I!Locals /\ InstLeft(world, l) /\ InstRun(world, l)
      /\ pc[a] = "run" /\ "clusters" \in Coming(world.plan)
      /\ "entity-type" \in world.parts /\ ~l.torn => "type-ACL" \in world.parts
  BY InstAt
<1>2. /\ DOMAIN pc = Ops /\ faults \in 0..MaxFaults /\ MaxFaults \in Nat
      /\ loc \in [Ops -> I!Locals]
  BY ThreadsAssumption DEF InstInv, I!TypeOK
<1>3. /\ pc' = [pc EXCEPT ![a] = pc'[a]] /\ faults' \in 0..MaxFaults
      /\ \/ pc'[a] = "run" /\ world' = w
         \/ pc'[a] = "failed" /\ world' \in {world, w}
  <2>1. \/ world' = w /\ I!Goto(a, "run") /\ UNCHANGED faults
        \/ world' \in {world, w} /\ I!Goto(a, "failed") /\ I!Fault
    BY DEF I!Call, I!Advance, I!Query
  <2>2. CASE world' = w /\ I!Goto(a, "run") /\ UNCHANGED faults
    BY <1>2, <2>2 DEF I!Goto
  <2>3. CASE world' \in {world, w} /\ I!Goto(a, "failed") /\ I!Fault
    BY <1>2, <2>3 DEF I!Goto, I!Fault
  <2> QED
    BY <2>1, <2>2, <2>3
<1>4. \A c : Promised(w, c) <=> Promised(world, c)
  BY DEF Promised
<1>5. InstLeft(world, k) /\ InstLeft(w, k)
  BY <1>1, <1>4 DEF InstLeft
<1>6. InstRun(w, k)
  <2>1. InstStages(w, k) /\ InstMade(w, k)
    <3>1. InstNeeds(k) = InstNeeds(l)
      BY DEF InstNeeds
    <3> QED
      BY <1>1, <3>1 DEF InstRun, InstStages, InstMade
  <2>2. InstListed(w, k)
    BY <1>1, <1>4 DEF InstRun, InstListed
  <2> QED
    BY <2>1, <2>2 DEF InstRun
<1>7. loc' \in [Ops -> I!Locals] /\ loc'[a] = k /\ world' \in InstWorlds
  BY <1>1, <1>2, <1>3
<1>8. InstAcl(world', k, pc'[a])
  BY <1>1, <1>3 DEF InstAcl
<1>9. InstPath(a)'
  BY <1>3, <1>5, <1>6, <1>7, <1>8 DEF InstPath
<1> QED
  BY <1>1, <1>3, <1>7, <1>9, InstKept

\* What is known of the clusters in their stage.
LEMMA InstWorking ==
  ASSUME InstInv, NEW a \in Ops, I!At(a, "clusters")
  PROVE  /\ world \in InstWorlds /\ loc[a] \in I!Locals
         /\ InstRdes(world) /\ InstMoving(world, loc[a])
         /\ loc[a].left \subseteq LegacyClusters
         /\ loc[a].cluster # Absent => loc[a].cluster \in LegacyClusters
         /\ Absent \notin LegacyClusters /\ MaxRdes \in Nat
<1>1. /\ world \in InstWorlds /\ loc[a] \in I!Locals
      /\ InstRdes(world) /\ InstMoving(world, loc[a])
  BY InstAt DEF InstLeft, InstRun
<1> QED
  BY <1>1, InstallerAssumption DEF I!Locals

\* RDEs that are rewritten one by one.
LEMMA InstRewritten ==
  ASSUME world \in InstWorlds, InstRdes(world), NEW g \in [world.rdes -> I!Rdes],
         \A r \in world.rdes :
           /\ g[r].id = r.id
           /\ g[r].vapp # Absent => g[r].name = NameOf[g[r].vapp]
           /\ r.type = "target" => g[r].type = "target"
           /\ \A d \in LegacyClusters :
                Promised(world, d) /\ world.tag[d] = r.id => g[r].vapp = d /\ g[r].resolved
  PROVE  LET w == [world EXCEPT !.rdes = {g[r] : r \in world.rdes}]
         IN  /\ w \in InstWorlds /\ w.plan = world.plan /\ w.parts = world.parts
             /\ w.mqtt = world.mqtt /\ w.amqp = world.amqp /\ w.template = world.template
             /\ w.tag = world.tag /\ w.rdes = {g[r] : r \in world.rdes}
             /\ InstRdes(w)
             /\ \A d \in LegacyClusters : Promised(world, d) /\ Moved(world, d) => Moved(w, d)
<1> DEFINE s == {g[r] : r \in world.rdes}
           w == [world EXCEPT !.rdes = s]
<1>1. /\ s \subseteq I!Rdes
      /\ \A r \in world.rdes : g[r] \in s
      /\ \A q \in s : \E r \in world.rdes : q = g[r]
  OBVIOUS
<1> HIDE DEF s
<1>2. /\ w \in InstWorlds /\ w.plan = world.plan /\ w.parts = world.parts
      /\ w.mqtt = world.mqtt /\ w.amqp = world.amqp /\ w.template = world.template
      /\ w.tag = world.tag /\ w.rdes = s
  BY <1>1 DEF InstWorlds
<1> HIDE DEF w
<1>3. \A c : Promised(w, c) <=> Promised(world, c)
  BY <1>2 DEF Promised
<1>4. InstRdes(w)
  <2>1. \A q, r \in w.rdes : q.id = r.id => q = r
    BY <1>1, <1>2 DEF InstRdes
  <2>2. \A q \in w.rdes : q.vapp # Absent => q.name = NameOf[q.vapp]
    BY <1>1, <1>2
  <2>3. \A c \in LegacyClusters : w.tag[c] # 0 => \E q \in w.rdes : q.id = w.tag[c]
    <3> SUFFICES ASSUME NEW c \in LegacyClusters, world.tag[c] # 0
                 PROVE  \E q \in s : q.id = world.tag[c]
      BY <1>2
    <3>1. PICK r \in world.rdes : r.id = world.tag[c]
      BY DEF InstRdes
    <3> QED
      BY <1>1, <3>1
  <2>4. \A c \in LegacyClusters : Promised(w, c) =>
          \A q \in w.rdes : q.id = w.tag[c] => q.vapp = c /\ q.resolved
    <3> SUFFICES ASSUME NEW c \in LegacyClusters, Promised(world, c), NEW q \in s,
                        q.id = world.tag[c]
                 PROVE  q.vapp = c /\ q.resolved
      BY <1>2, <1>3
    <3>1. PICK r \in world.rdes : q = g[r]
      BY <1>1
    <3> QED
      BY <3>1
  <2> QED
    BY <2>1, <2>2, <2>3, <2>4 DEF InstRdes
<1>5. ASSUME NEW d \in LegacyClusters, Promised(world, d), Moved(world, d)
      PROVE  Moved(w, d)
  <2>1. PICK r \in world.rdes : r.id = world.tag[d] /\ r.type = "target"
    BY <1>5 DEF Moved
  <2>2. g[r] \in s /\ g[r].id = world.tag[d] /\ g[r].type = "target" /\ g[r].vapp = d /\ g[r].resolved
    BY <1>1, <1>5, <2>1
  <2> QED
    BY <1>2, <2>2 DEF Moved
<1> QED
  BY <1>2, <1>4, <1>5 DEF s, w

LEMMA InstNext ==
  ASSUME InstInv, NEW a \in Ops, I!NextCluster(a)
  PROVE  InstInv'
<1> DEFINE l == loc[a]
           skip(c) == [l EXCEPT !.left = @ \ {c}]
           work(c, at) == [l EXCEPT !.left = @ \ {c}, !.cluster = c, !.rde = world.tag[c],
                                    !.at = at]
<1>1. I!At(a, "clusters") /\ l.cluster = Absent
  BY DEF I!NextCluster
<1>2. /\ world \in InstWorlds /\ l \in I!Locals /\ InstRdes(world) /\ InstMoving(world, l)
      /\ l.left \subseteq LegacyClusters /\ Absent \notin LegacyClusters
  BY <1>1, InstWorking
<1>3. PICK c \in l.left :
        /\ I!Advance(a)
        /\ \/ ~Promised(world, c) /\ loc' = [loc EXCEPT ![a] = skip(c)]
           \/ /\ \E r \in world.rdes : r.id = world.tag[c]
              /\ loc' = [loc EXCEPT ![a] = work(c, "upgrade")]
           \/ loc' = [loc EXCEPT ![a] = work(c, "create")]
  BY DEF I!NextCluster, I!Set, Promised
<1>4. c \in LegacyClusters /\ c # Absent /\ world.tag[c] \in 0..MaxRdes
  BY <1>2 DEF InstWorlds
<1>5. CASE ~Promised(world, c) /\ loc' = [loc EXCEPT ![a] = skip(c)]
  <2> DEFINE k == skip(c)
  <2>1. /\ k \in I!Locals /\ k.mode = l.mode /\ k.kind = l.kind /\ k.source = l.source
        /\ k.torn = l.torn /\ k.installed = l.installed /\ k.cluster = Absent
        /\ k.left = l.left \ {c}
    BY <1>1, <1>2 DEF I!Locals
  <2>2. loc' = [loc EXCEPT ![a] = k]
    BY <1>5
  <2> HIDE DEF k
  <2>3. InstMoving(world, k)
    BY <2>1 DEF InstMoving
  <2>4. \A d \in LegacyClusters : Promised(world, d) /\ (d \in l.left \/ d = l.cluster) =>
          Moved(world, d) \/ d \in k.left \/ d = k.cluster
    BY <1>1, <1>5, <2>1
  <2>5. I!Call(a, world, "run", "failed") \/ (world = world /\ I!Advance(a))
    BY <1>3
  <2> QED
    BY <1>1, <1>2, <2>1, <2>2, <2>3, <2>4, <2>5, InstWork
<1>6. ASSUME NEW at \in {"upgrade", "create"}, loc' = [loc EXCEPT ![a] = work(c, at)],
             at = "upgrade" => \E r \in world.rdes : r.id = world.tag[c]
      PROVE  InstInv'
  <2> DEFINE k == work(c, at)
  <2>1. /\ k \in I!Locals /\ k.mode = l.mode /\ k.kind = l.kind /\ k.source = l.source
        /\ k.torn = l.torn /\ k.installed = l.installed /\ k.cluster = c
        /\ k.left = l.left \ {c} /\ k.at = at /\ k.rde = world.tag[c]
    BY <1>1, <1>2, <1>4 DEF I!Locals
  <2>2. loc' = [loc EXCEPT ![a] = k]
    BY <1>6
  <2> HIDE DEF k
  <2>3. InstMoving(world, k)
    BY <1>4, <1>6, <2>1 DEF InstMoving
  <2>4. \A d \in LegacyClusters : Promised(world, d) /\ (d \in l.left \/ d = l.cluster) =>
          Moved(world, d) \/ d \in k.left \/ d = k.cluster
    BY <1>1, <1>2, <2>1
  <2>5. I!Call(a, world, "run", "failed") \/ (world = world /\ I!Advance(a))
    BY <1>3
  <2> QED
    BY <1>1, <1>2, <2>1, <2>2, <2>3, <2>4, <2>5, InstWork
<1> QED
  BY <1>3, <1>5, <1>6

LEMMA InstFound ==
  ASSUME InstInv, NEW a \in Ops, I!FindByName(a)
  PROVE  InstInv'
<1> DEFINE l == loc[a]
<1>1. I!At(a, "clusters") /\ l.cluster # Absent
  BY DEF I!FindByName, I!Working
<1>2. /\ world \in InstWorlds /\ l \in I!Locals /\ InstRdes(world) /\ InstMoving(world, l)
      /\ l.cluster \in LegacyClusters /\ MaxRdes \in Nat
  BY <1>1, InstWorking
<1>3. PICK r \in world.rdes :
        /\ r.name = NameOf[l.cluster] /\ r.type = "target" /\ I!Advance(a)
        /\ loc' = [loc EXCEPT ![a] = [l EXCEPT !.rde = r.id, !.at = "link"]]
  BY DEF I!FindByName, I!Set
<1> DEFINE k == [l EXCEPT !.rde = r.id, !.at = "link"]
<1>4. r.id \in 0..MaxRdes
  BY <1>2 DEF InstWorlds, I!Rdes
<1>5. /\ k \in I!Locals /\ k.mode = l.mode /\ k.kind = l.kind /\ k.source = l.source
      /\ k.torn = l.torn /\ k.installed = l.installed /\ k.cluster = l.cluster
      /\ k.left = l.left /\ k.at = "link" /\ k.rde = r.id
  BY <1>2, <1>4 DEF I!Locals
<1>6. loc' = [loc EXCEPT ![a] = k]
  BY <1>3
<1> HIDE DEF k
<1>7. InstMoving(world, k)
  BY <1>2, <1>3, <1>5 DEF InstMoving
<1>8. \A d \in LegacyClusters : Promised(world, d) /\ (d \in l.left \/ d = l.cluster) =>
        Moved(world, d) \/ d \in k.left \/ d = k.cluster
  BY <1>5
<1>9. I!Call(a, world, "run", "failed") \/ (world = world /\ I!Advance(a))
  BY <1>3
<1> QED
  BY <1>1, <1>2, <1>5, <1>6, <1>7, <1>8, <1>9, InstWork

LEMMA InstCreated ==
  ASSUME InstInv, NEW a \in Ops, I!CreateRde(a)
  PROVE  InstInv'
<1> DEFINE l == loc[a]
           k == [l EXCEPT !.at = "by-name"]
           new(id) == [id |-> id, name |-> NameOf[l.cluster], type |-> "target",
                       vapp |-> Absent, resolved |-> FALSE]
<1>1. I!At(a, "clusters") /\ l.cluster # Absent
  BY DEF I!CreateRde, I!Working
<1>2. /\ world \in InstWorlds /\ l \in I!Locals /\ InstRdes(world) /\ InstMoving(world, l)
      /\ l.cluster \in LegacyClusters /\ MaxRdes \in Nat
  BY <1>1, InstWorking
<1>3. PICK id \in 1..MaxRdes :
        /\ \A r \in world.rdes : r.id # id
        /\ I!Call(a, [world EXCEPT !.rdes = @ \cup {new(id)}], "run", "failed")
        /\ loc' = [loc EXCEPT ![a] = k]
  BY DEF I!CreateRde, I!Change, I!Set
<1> DEFINE w == [world EXCEPT !.rdes = @ \cup {new(id)}]
<1>4. /\ new(id) \in I!Rdes /\ new(id).id = id /\ new(id).vapp = Absent
  BY <1>2 DEF I!Rdes
<1>5. /\ w \in InstWorlds /\ w.plan = world.plan /\ w.parts = world.parts
      /\ w.mqtt = world.mqtt /\ w.amqp = world.amqp /\ w.template = world.template
      /\ w.tag = world.tag /\ w.rdes = world.rdes \cup {new(id)}
  <2> HIDE DEF new
  <2> QED
    BY <1>2, <1>4 DEF InstWorlds
<1>6. I!Call(a, w, "run", "failed")
  BY <1>3
<1> HIDE DEF w, new
<1>7. /\ k \in I!Locals /\ k.mode = l.mode /\ k.kind = l.kind /\ k.source = l.source
      /\ k.torn = l.torn /\ k.installed = l.installed /\ k.cluster = l.cluster
      /\ k.left = l.left /\ k.at = "by-name"
  BY <1>2 DEF I!Locals
<1>8. loc' = [loc EXCEPT ![a] = k]
  BY <1>3
<1> HIDE DEF k
<1>9. \A c \in LegacyClusters : w.tag[c] # id
  BY <1>2, <1>3, <1>5 DEF InstRdes
<1>10. InstRdes(w)
  BY <1>2, <1>3, <1>4, <1>5, <1>9 DEF InstRdes, Promised
<1>11. \A c \in LegacyClusters : Promised(world, c) /\ Moved(world, c) => Moved(w, c)
  BY <1>5 DEF Moved
<1>12. InstMoving(w, k)
  BY <1>2, <1>7 DEF InstMoving
<1> QED
  BY <1>1, <1>5, <1>6, <1>7, <1>8, <1>10, <1>11, <1>12, InstWork

\* RDEs with one field changed.
LEMMA InstRde ==
  ASSUME NEW r \in I!Rdes
  PROVE  /\ \A c \in LegacyClusters :
              LET q == [r EXCEPT !.vapp = c]
              IN  /\ q \in I!Rdes /\ q.id = r.id /\ q.name = r.name /\ q.type = r.type
                  /\ q.resolved = r.resolved /\ q.vapp = c
         /\ LET q == [r EXCEPT !.resolved = TRUE]
            IN  /\ q \in I!Rdes /\ q.id = r.id /\ q.name = r.name /\ q.type = r.type
                /\ q.vapp = r.vapp /\ q.resolved = TRUE
         /\ LET q == [r EXCEPT !.type = "target"]
            IN  /\ q \in I!Rdes /\ q.id = r.id /\ q.name = r.name /\ q.type = "target"
                /\ q.vapp = r.vapp /\ q.resolved = r.resolved
<1>1. \A c \in LegacyClusters :
        LET q == [r EXCEPT !.vapp = c]
        IN  /\ q \in I!Rdes /\ q.id = r.id /\ q.name = r.name /\ q.type = r.type
            /\ q.resolved = r.resolved /\ q.vapp = c
  BY DEF I!Rdes
<1>2. LET q == [r EXCEPT !.resolved = TRUE]
      IN  /\ q \in I!Rdes /\ q.id = r.id /\ q.name = r.name /\ q.type = r.type
          /\ q.vapp = r.vapp /\ q.resolved = TRUE
  BY DEF I!Rdes
<1>3. LET q == [r EXCEPT !.type = "target"]
      IN  /\ q \in I!Rdes /\ q.id = r.id /\ q.name = r.name /\ q.type = "target"
          /\ q.vapp = r.vapp /\ q.resolved = r.resolved
  BY DEF I!Rdes
<1> QED
  BY <1>1, <1>2, <1>3

\* The vApp an RDE names is not overwritten where no other cluster has the name.
LEMMA InstLinked ==
  ASSUME InstInv, NEW a \in Ops, I!LinkRde(a)
  PROVE  InstInv'
<1> DEFINE l == loc[a]
           k == [l EXCEPT !.at = "resolve"]
           g == [r \in world.rdes |-> IF r.id = l.rde THEN [r EXCEPT !.vapp = l.cluster] ELSE r]
           w == [world EXCEPT !.rdes = {g[r] : r \in world.rdes}]
<1>1. I!At(a, "clusters") /\ l.cluster # Absent /\ l.at = "link"
  BY DEF I!LinkRde, I!Working
<1>2. /\ world \in InstWorlds /\ l \in I!Locals /\ InstRdes(world) /\ InstMoving(world, l)
      /\ l.cluster \in LegacyClusters /\ Absent \notin LegacyClusters
  BY <1>1, InstWorking
<1>3. I!Call(a, w, "run", "failed") /\ loc' = [loc EXCEPT ![a] = k]
  <2>1. {IF r.id = l.rde THEN [r EXCEPT !.vapp = l.cluster] ELSE r : r \in world.rdes} =
          {g[r] : r \in world.rdes}
    OBVIOUS
  <2> HIDE DEF g
  <2> QED
    BY <2>1 DEF I!LinkRde, I!Change, I!Rewrite, I!Set
<1>4. PICK s \in world.rdes : s.id = l.rde /\ s.name = NameOf[l.cluster] /\ s.type = "target"
  BY <1>1, <1>2 DEF InstMoving
<1>5. \A r \in world.rdes :
        /\ r \in I!Rdes /\ g[r] \in I!Rdes
        /\ g[r].id = r.id /\ g[r].name = r.name /\ g[r].type = r.type
        /\ g[r].resolved = r.resolved
        /\ g[r].vapp = IF r.id = l.rde THEN l.cluster ELSE r.vapp
  <2>1. \A r \in world.rdes : r \in I!Rdes
    BY <1>2 DEF InstWorlds
  <2> TAKE r \in world.rdes
  <2>2. r \in I!Rdes
    BY <2>1
  <2>3. CASE r.id = l.rde
    <3> DEFINE q == [r EXCEPT !.vapp = l.cluster]
    <3>1. g[r] = q
      BY <2>3
    <3>2. /\ q \in I!Rdes /\ q.id = r.id /\ q.name = r.name /\ q.type = r.type
          /\ q.resolved = r.resolved /\ q.vapp = l.cluster
      BY <1>2, <2>2, InstRde
    <3> HIDE DEF g, q
    <3> QED
      BY <2>2, <2>3, <3>1, <3>2
  <2>4. CASE r.id # l.rde
    <3>1. g[r] = r
      BY <2>4
    <3> HIDE DEF g
    <3> QED
      BY <2>2, <2>4, <3>1
  <2> QED
    BY <2>3, <2>4
<1>6. g \in [world.rdes -> I!Rdes]
  BY <1>5
<1> HIDE DEF g
<1>7. ASSUME NEW r \in world.rdes
      PROVE  /\ g[r].id = r.id
             /\ g[r].vapp # Absent => g[r].name = NameOf[g[r].vapp]
             /\ r.type = "target" => g[r].type = "target"
             /\ \A d \in LegacyClusters :
                  Promised(world, d) /\ world.tag[d] = r.id => g[r].vapp = d /\ g[r].resolved
  <2>1. r.id = l.rde => r = s
    BY <1>2, <1>4 DEF InstRdes
  <2>2. g[r].vapp # Absent => g[r].name = NameOf[g[r].vapp]
    BY <1>2, <1>4, <1>5, <2>1 DEF InstRdes
  <2>3. ASSUME NEW d \in LegacyClusters, Promised(world, d), world.tag[d] = r.id
        PROVE  g[r].vapp = d /\ g[r].resolved
    <3>1. r.vapp = d /\ r.resolved
      BY <1>2, <2>3 DEF InstRdes
    <3>2. r.name = NameOf[d]
      BY <1>2, <3>1 DEF InstRdes
    <3>3. r.id = l.rde => l.cluster = d
      BY <1>2, <1>4, <2>1, <2>3, <3>2 DEF Promised
    <3> QED
      BY <1>5, <3>1, <3>3
  <2> QED
    BY <1>5, <2>2, <2>3
<1>8. /\ w \in InstWorlds /\ w.plan = world.plan /\ w.parts = world.parts
      /\ w.mqtt = world.mqtt /\ w.amqp = world.amqp /\ w.template = world.template
      /\ w.tag = world.tag /\ w.rdes = {g[r] : r \in world.rdes}
      /\ InstRdes(w)
      /\ \A d \in LegacyClusters : Promised(world, d) /\ Moved(world, d) => Moved(w, d)
  BY <1>2, <1>6, <1>7, InstRewritten
<1> HIDE DEF w
<1>9. /\ k \in I!Locals /\ k.mode = l.mode /\ k.kind = l.kind /\ k.source = l.source
      /\ k.torn = l.torn /\ k.installed = l.installed /\ k.cluster = l.cluster
      /\ k.left = l.left /\ k.at = "resolve" /\ k.rde = l.rde
  BY <1>2 DEF I!Locals
<1>10. loc' = [loc EXCEPT ![a] = k]
  BY <1>3
<1> HIDE DEF k
<1>11. InstMoving(w, k)
  <2>1. g[s] \in w.rdes /\ g[s].id = k.rde /\ g[s].vapp = k.cluster /\ g[s].type = "target"
    BY <1>4, <1>5, <1>8, <1>9
  <2> QED
    BY <1>2, <1>9, <2>1 DEF InstMoving
<1>12. \A d \in LegacyClusters : Promised(world, d) /\ (d \in l.left \/ d = l.cluster) =>
         Moved(w, d) \/ d \in k.left \/ d = k.cluster
  BY <1>9
<1>13. I!Call(a, w, "run", "failed")
  BY <1>3 DEF w
<1> QED
  BY <1>1, <1>8, <1>9, <1>10, <1>11, <1>12, <1>13, InstWork

LEMMA InstResolved ==
  ASSUME InstInv, NEW a \in Ops, I!ResolveRde(a)
  PROVE  InstInv'
<1> DEFINE l == loc[a]
           k == [l EXCEPT !.at = "tag"]
           g == [r \in world.rdes |-> IF r.id = l.rde THEN [r EXCEPT !.resolved = TRUE] ELSE r]
           w == [world EXCEPT !.rdes = {g[r] : r \in world.rdes}]
<1>1. I!At(a, "clusters") /\ l.cluster # Absent /\ l.at = "resolve"
  BY DEF I!ResolveRde, I!Working
<1>2. /\ world \in InstWorlds /\ l \in I!Locals /\ InstRdes(world) /\ InstMoving(world, l)
      /\ l.cluster \in LegacyClusters /\ Absent \notin LegacyClusters
  BY <1>1, InstWorking
<1>3. I!Call(a, w, "run", "failed") /\ loc' = [loc EXCEPT ![a] = k]
  <2>1. {IF r.id = l.rde THEN [r EXCEPT !.resolved = TRUE] ELSE r : r \in world.rdes} =
          {g[r] : r \in world.rdes}
    OBVIOUS
  <2> HIDE DEF g
  <2> QED
    BY <2>1 DEF I!ResolveRde, I!Change, I!Rewrite, I!Set
<1>4. PICK s \in world.rdes : s.id = l.rde /\ s.vapp = l.cluster /\ s.type = "target"
  BY <1>1, <1>2 DEF InstMoving
<1>5. \A r \in world.rdes :
        /\ r \in I!Rdes /\ g[r] \in I!Rdes
        /\ g[r].id = r.id /\ g[r].name = r.name /\ g[r].type = r.type
        /\ g[r].vapp = r.vapp
        /\ (r.id = l.rde => g[r].resolved) /\ (r.resolved => g[r].resolved)
  <2>1. \A r \in world.rdes : r \in I!Rdes
    BY <1>2 DEF InstWorlds
  <2> TAKE r \in world.rdes
  <2>2. r \in I!Rdes
    BY <2>1
  <2>3. CASE r.id = l.rde
    <3> DEFINE q == [r EXCEPT !.resolved = TRUE]
    <3>1. g[r] = q
      BY <2>3
    <3>2. /\ q \in I!Rdes /\ q.id = r.id /\ q.name = r.name /\ q.type = r.type
          /\ q.vapp = r.vapp /\ q.resolved = TRUE
      BY <1>2, <2>2, InstRde
    <3> HIDE DEF g, q
    <3> QED
      BY <2>2, <2>3, <3>1, <3>2
  <2>4. CASE r.id # l.rde
    <3>1. g[r] = r
      BY <2>4
    <3> HIDE DEF g
    <3> QED
      BY <2>2, <2>4, <3>1
  <2> QED
    BY <2>3, <2>4
<1>6. g \in [world.rdes -> I!Rdes]
  BY <1>5
<1> HIDE DEF g
<1>7. ASSUME NEW r \in world.rdes
      PROVE  /\ g[r].id = r.id
             /\ g[r].vapp # Absent => g[r].name = NameOf[g[r].vapp]
             /\ r.type = "target" => g[r].type = "target"
             /\ \A d \in LegacyClusters :
                  Promised(world, d) /\ world.tag[d] = r.id => g[r].vapp = d /\ g[r].resolved
  BY <1>2, <1>5 DEF InstRdes
<1>8. /\ w \in InstWorlds /\ w.plan = world.plan /\ w.parts = world.parts
      /\ w.mqtt = world.mqtt /\ w.amqp = world.amqp /\ w.template = world.template
      /\ w.tag = world.tag /\ w.rdes = {g[r] : r \in world.rdes}
      /\ InstRdes(w)
      /\ \A d \in LegacyClusters : Promised(world, d) /\ Moved(world, d) => Moved(w, d)
  BY <1>2, <1>6, <1>7, InstRewritten
<1> HIDE DEF w
<1>9. /\ k \in I!Locals /\ k.mode = l.mode /\ k.kind = l.kind /\ k.source = l.source
      /\ k.torn = l.torn /\ k.installed = l.installed /\ k.cluster = l.cluster
      /\ k.left = l.left /\ k.at = "tag" /\ k.rde = l.rde
  BY <1>2 DEF I!Locals
<1>10. loc' = [loc EXCEPT ![a] = k]
  BY <1>3
<1> HIDE DEF k
<1>11. InstMoving(w, k)
  <2>1. /\ g[s] \in w.rdes /\ g[s].id = k.rde /\ g[s].vapp = k.cluster /\ g[s].type = "target"
        /\ g[s].resolved
    BY <1>4, <1>5, <1>8, <1>9
  <2> QED
    BY <1>2, <1>9, <2>1 DEF InstMoving
<1>12. \A d \in LegacyClusters : Promised(world, d) /\ (d \in l.left \/ d = l.cluster) =>
         Moved(w, d) \/ d \in k.left \/ d = k.cluster
  BY <1>9
<1>13. I!Call(a, w, "run", "failed")
  BY <1>3 DEF w
<1> QED
  BY <1>1, <1>8, <1>9, <1>10, <1>11, <1>12, <1>13, InstWork

LEMMA InstUpgraded ==
  ASSUME InstInv, NEW a \in Ops, I!UpgradeRde(a)
  PROVE  InstInv'
<1> DEFINE l == loc[a]
           k == [l EXCEPT !.at = "tag"]
           g == [r \in world.rdes |-> IF r.id = l.rde THEN [r EXCEPT !.type = "target"] ELSE r]
           w == [world EXCEPT !.rdes = {g[r] : r \in world.rdes}]
<1>1. I!At(a, "clusters") /\ l.cluster # Absent /\ l.at = "upgrade"
  BY DEF I!UpgradeRde, I!Working
<1>2. /\ world \in InstWorlds /\ l \in I!Locals /\ InstRdes(world) /\ InstMoving(world, l)
      /\ l.cluster \in LegacyClusters /\ Absent \notin LegacyClusters
  BY <1>1, InstWorking
<1>3. I!Call(a, w, "run", "failed") /\ loc' = [loc EXCEPT ![a] = k]
  <2>1. {IF r.id = l.rde THEN [r EXCEPT !.type = "target"] ELSE r : r \in world.rdes} =
          {g[r] : r \in world.rdes}
    OBVIOUS
  <2> HIDE DEF g
  <2> QED
    BY <2>1 DEF I!UpgradeRde, I!Change, I!Rewrite, I!Set
<1>4. PICK s \in world.rdes : s.id = l.rde /\ l.rde = world.tag[l.cluster]
  BY <1>1, <1>2 DEF InstMoving
<1>5. \A r \in world.rdes :
        /\ r \in I!Rdes /\ g[r] \in I!Rdes
        /\ g[r].id = r.id /\ g[r].name = r.name /\ g[r].vapp = r.vapp
        /\ g[r].resolved = r.resolved
        /\ (r.id = l.rde => g[r].type = "target") /\ (r.type = "target" => g[r].type = "target")
  <2>1. \A r \in world.rdes : r \in I!Rdes
    BY <1>2 DEF InstWorlds
  <2> TAKE r \in world.rdes
  <2>2. r \in I!Rdes
    BY <2>1
  <2>3. CASE r.id = l.rde
    <3> DEFINE q == [r EXCEPT !.type = "target"]
    <3>1. g[r] = q
      BY <2>3
    <3>2. /\ q \in I!Rdes /\ q.id = r.id /\ q.name = r.name /\ q.type = "target"
          /\ q.vapp = r.vapp /\ q.resolved = r.resolved
      BY <1>2, <2>2, InstRde
    <3> HIDE DEF g, q
    <3> QED
      BY <2>2, <2>3, <3>1, <3>2
  <2>4. CASE r.id # l.rde
    <3>1. g[r] = r
      BY <2>4
    <3> HIDE DEF g
    <3> QED
      BY <2>2, <2>4, <3>1
  <2> QED
    BY <2>3, <2>4
<1>6. g \in [world.rdes -> I!Rdes]
  BY <1>5
<1> HIDE DEF g
<1>7. ASSUME NEW r \in world.rdes
      PROVE  /\ g[r].id = r.id
             /\ g[r].vapp # Absent => g[r].name = NameOf[g[r].vapp]
             /\ r.type = "target" => g[r].type = "target"
             /\ \A d \in LegacyClusters :
                  Promised(world, d) /\ world.tag[d] = r.id => g[r].vapp = d /\ g[r].resolved
  BY <1>2, <1>5 DEF InstRdes
<1>8. /\ w \in InstWorlds /\ w.plan = world.plan /\ w.parts = world.parts
      /\ w.mqtt = world.mqtt /\ w.amqp = world.amqp /\ w.template = world.template
      /\ w.tag = world.tag /\ w.rdes = {g[r] : r \in world.rdes}
      /\ InstRdes(w)
      /\ \A d \in LegacyClusters : Promised(world, d) /\ Moved(world, d) => Moved(w, d)
  BY <1>2, <1>6, <1>7, InstRewritten
<1> HIDE DEF w
<1>9. /\ k \in I!Locals /\ k.mode = l.mode /\ k.kind = l.kind /\ k.source = l.source
      /\ k.torn = l.torn /\ k.installed = l.installed /\ k.cluster = l.cluster
      /\ k.left = l.left /\ k.at = "tag" /\ k.rde = l.rde
  BY <1>2 DEF I!Locals
<1>10. loc' = [loc EXCEPT ![a] = k]
  BY <1>3
<1> HIDE DEF k
<1>11. InstMoving(w, k)
  <2>1. /\ g[s] \in w.rdes /\ g[s].id = k.rde /\ g[s].type = "target"
        /\ g[s].id = w.tag[k.cluster]
    BY <1>4, <1>5, <1>8, <1>9
  <2>2. Promised(w, k.cluster) => g[s].vapp = k.cluster /\ g[s].resolved
    BY <1>2, <1>8, <1>9, <2>1 DEF InstRdes
  <2> QED
    BY <1>2, <1>9, <2>1, <2>2 DEF InstMoving
<1>12. \A d \in LegacyClusters : Promised(world, d) /\ (d \in l.left \/ d = l.cluster) =>
         Moved(w, d) \/ d \in k.left \/ d = k.cluster
  BY <1>9
<1>13. I!Call(a, w, "run", "failed")
  BY <1>3 DEF w
<1> QED
  BY <1>1, <1>8, <1>9, <1>10, <1>11, <1>12, <1>13, InstWork

\* The metadata of the vApp is written last.
LEMMA InstTagged ==
  ASSUME InstInv, NEW a \in Ops, I!TagVapp(a)
  PROVE  InstInv'
<1> DEFINE l == loc[a]
           c == l.cluster
           k == [l EXCEPT !.cluster = Absent, !.at = "find"]
           w == [world EXCEPT !.tag = [world.tag EXCEPT ![c] = l.rde]]
<1>1. /\ I!At(a, "clusters") /\ c # Absent /\ l.at = "tag"
      /\ I!Call(a, w, "run", "failed") /\ loc' = [loc EXCEPT ![a] = k]
  BY DEF I!TagVapp, I!Working, I!Set
<1>2. /\ world \in InstWorlds /\ l \in I!Locals /\ InstRdes(world) /\ InstMoving(world, l)
      /\ c \in LegacyClusters /\ Absent \notin LegacyClusters
  BY <1>1, InstWorking
<1>3. /\ world.tag \in [LegacyClusters -> 0..MaxRdes] /\ l.rde \in 0..MaxRdes
  BY <1>2 DEF InstWorlds, I!Locals
<1>4. /\ w \in InstWorlds /\ w.plan = world.plan /\ w.parts = world.parts
      /\ w.mqtt = world.mqtt /\ w.amqp = world.amqp /\ w.template = world.template
      /\ w.rdes = world.rdes /\ w.tag[c] = l.rde
      /\ \A d \in LegacyClusters \ {c} : w.tag[d] = world.tag[d]
  <2> DEFINE t == [world.tag EXCEPT ![c] = l.rde]
  <2>1. /\ t \in [LegacyClusters -> 0..MaxRdes] /\ t[c] = l.rde
        /\ \A d \in LegacyClusters \ {c} : t[d] = world.tag[d]
    BY <1>2, <1>3
  <2> HIDE DEF t
  <2> QED
    BY <1>2, <2>1 DEF InstWorlds
<1> HIDE DEF w
<1>5. \A d : Promised(w, d) <=> Promised(world, d)
  BY <1>4 DEF Promised
<1>6. PICK s \in world.rdes :
        s.id = l.rde /\ (Promised(world, c) => s.vapp = c /\ s.type = "target" /\ s.resolved)
  BY <1>1, <1>2 DEF InstMoving
<1>7. Promised(world, c) => Moved(w, c)
  BY <1>4, <1>6 DEF Moved
<1>8. \A d \in LegacyClusters \ {c} : Moved(world, d) => Moved(w, d)
  BY <1>4 DEF Moved
<1>9. InstRdes(w)
  <2>1. \A d \in LegacyClusters : w.tag[d] # 0 => \E r \in w.rdes : r.id = w.tag[d]
    BY <1>2, <1>4, <1>6 DEF InstRdes
  <2>2. \A d \in LegacyClusters : Promised(w, d) =>
          \A r \in w.rdes : r.id = w.tag[d] => r.vapp = d /\ r.resolved
    <3> SUFFICES ASSUME NEW d \in LegacyClusters, Promised(world, d), NEW r \in world.rdes,
                        r.id = w.tag[d]
                 PROVE  r.vapp = d /\ r.resolved
      BY <1>4, <1>5
    <3>1. CASE d = c
      <4>1. r = s
        BY <1>2, <1>4, <1>6, <3>1 DEF InstRdes
      <4> QED
        BY <1>6, <3>1, <4>1
    <3>2. CASE d # c
      BY <1>2, <1>4, <3>2 DEF InstRdes
    <3> QED
      BY <3>1, <3>2
  <2> QED
    BY <1>2, <1>4, <2>1, <2>2 DEF InstRdes
<1>10. /\ k \in I!Locals /\ k.mode = l.mode /\ k.kind = l.kind /\ k.source = l.source
       /\ k.torn = l.torn /\ k.installed = l.installed /\ k.cluster = Absent
       /\ k.left = l.left
  BY <1>2 DEF I!Locals
<1>11. loc' = [loc EXCEPT ![a] = k]
  BY <1>1
<1> HIDE DEF k
<1>12. InstMoving(w, k)
  BY <1>10 DEF InstMoving
<1>13. /\ \A d \in LegacyClusters : Promised(world, d) /\ Moved(world, d) => Moved(w, d)
       /\ \A d \in LegacyClusters : Promised(world, d) /\ (d \in l.left \/ d = l.cluster) =>
            Moved(w, d) \/ d \in k.left \/ d = k.cluster
  BY <1>7, <1>8, <1>10
<1>14. I!Call(a, w, "run", "failed")
  BY <1>1 DEF w
<1> QED
  BY <1>1, <1>4, <1>9, <1>10, <1>11, <1>12, <1>13, <1>14, InstWork

LEMMA InstNoneLeft ==
  ASSUME InstInv, NEW a \in Ops, I!ClustersDone(a)
  PROVE  InstInv'
<1> DEFINE l == loc[a]
           v == I!Done(world)
<1>1. /\ I!At(a, "clusters") /\ l.cluster = Absent /\ l.left = {}
      /\ world' = v /\ pc' = pc /\ loc' = loc /\ faults' = faults
  BY DEF I!ClustersDone
<1>2. /\ world \in InstWorlds /\ l \in I!Locals /\ pc[a] = "run"
      /\ world.plan # <<>> /\ Head(world.plan) = "clusters"
      /\ InstLeft(world, l) /\ InstRun(world, l)
      /\ "entity-type" \in world.parts /\ ~l.torn => "type-ACL" \in world.parts
  BY <1>1, InstAt
<1>3. Absent \notin LegacyClusters
  BY InstallerAssumption
<1>4. /\ v \in InstWorlds /\ v.plan = Tail(world.plan) /\ v.parts = world.parts
      /\ v.mqtt = world.mqtt /\ v.amqp = world.amqp /\ v.rdes = world.rdes
      /\ v.tag = world.tag /\ v.template = world.template
  BY <1>2, InstDone
<1> HIDE DEF v
<1>5. InstStages(v, l) /\ Coming(world.plan) = {"clusters"} \cup Coming(v.plan)
  BY <1>2, <1>4, InstStagesNext DEF InstRun
<1>6. /\ \A c : (Promised(v, c) <=> Promised(world, c)) /\ (Moved(v, c) <=> Moved(world, c))
      /\ InstRdes(v)
  BY <1>2, <1>4, InstSame DEF InstLeft
<1>7. InstMade(v, l)
  <2>1. "clusters" \notin InstNeeds(l)
    BY DEF InstNeeds
  <2> QED
    BY <1>2, <1>4, <1>5, <2>1 DEF InstRun, InstMade
<1>8. InstListed(v, l)
  BY <1>1, <1>2, <1>3, <1>5, <1>6 DEF InstRun, InstListed
<1>9. InstMoving(v, l)
  BY <1>1 DEF InstMoving
<1>10. InstLeft(v, l)
  BY <1>2, <1>4, <1>6 DEF InstLeft
<1>11. InstAcl(v, l, "run")
  BY <1>2, <1>4 DEF InstAcl
<1>12. InstPath(a)'
  BY <1>1, <1>2, <1>5, <1>7, <1>8, <1>9, <1>10, <1>11 DEF InstPath, InstRun
<1>13. faults' \in 0..MaxFaults /\ loc' \in [Ops -> I!Locals]
  BY <1>1 DEF InstInv, I!TypeOK
<1> QED
  BY <1>1, <1>2, <1>4, <1>12, <1>13, InstKept

LEMMA InstAllListed ==
  ASSUME InstInv, NEW a \in Ops, I!ListClusters(a)
  PROVE  InstInv'
<1> DEFINE l == loc[a]
           v == I!Done(world)
           k == [l EXCEPT !.left = LegacyClusters, !.cluster = Absent]
<1>1. I!At(a, "list-clusters") /\ I!Carry(a, world) /\ loc' = [loc EXCEPT ![a] = k]
  BY DEF I!ListClusters, I!Set
<1>2. /\ world \in InstWorlds /\ l \in I!Locals /\ pc[a] = "run"
      /\ world.plan # <<>> /\ Head(world.plan) = "list-clusters"
      /\ InstLeft(world, l) /\ InstRun(world, l)
      /\ "entity-type" \in world.parts /\ ~l.torn => "type-ACL" \in world.parts
  BY <1>1, InstAt
<1>3. /\ pc' = [pc EXCEPT ![a] = pc'[a]] /\ faults' \in 0..MaxFaults
      /\ \/ pc'[a] = "run" /\ world' = v
         \/ pc'[a] = "failed" /\ world' \in {world, v}
  BY <1>1, <1>2, InstCarried
<1>4. /\ v \in InstWorlds /\ v.plan = Tail(world.plan) /\ v.parts = world.parts
      /\ v.mqtt = world.mqtt /\ v.amqp = world.amqp /\ v.rdes = world.rdes
      /\ v.tag = world.tag /\ v.template = world.template
  BY <1>2, InstDone
<1> HIDE DEF v
<1>5. /\ k \in I!Locals /\ k.mode = l.mode /\ k.kind = l.kind /\ k.source = l.source
      /\ k.torn = l.torn /\ k.installed = l.installed /\ k.cluster = Absent
      /\ k.left = LegacyClusters
  BY <1>2 DEF I!Locals
<1>6. loc' \in [Ops -> I!Locals] /\ loc'[a] = k
  <2>1. loc' = [loc EXCEPT ![a] = k]
    BY <1>1
  <2> HIDE DEF k
  <2> QED
    BY <1>5, <2>1 DEF InstInv
<1> HIDE DEF k
<1>7. /\ InstStages(v, l) /\ Coming(world.plan) = {"list-clusters"} \cup Coming(v.plan)
      /\ "clusters" \in Coming(v.plan)
  BY <1>2, <1>4, InstStagesNext DEF InstRun
<1>8. InstStages(v, k)
  BY <1>5, <1>7 DEF InstStages
<1>9. /\ \A c : (Promised(v, c) <=> Promised(world, c)) /\ (Moved(v, c) <=> Moved(world, c))
      /\ InstRdes(v)
  BY <1>2, <1>4, InstSame DEF InstLeft
<1>10. InstMade(v, k)
  <2>1. InstNeeds(k) = InstNeeds(l) /\ "list-clusters" \notin InstNeeds(l)
    BY <1>5 DEF InstNeeds
  <2> QED
    BY <1>2, <1>4, <1>5, <1>7, <2>1 DEF InstRun, InstMade
<1>11. InstListed(v, k) /\ InstMoving(v, k)
  BY <1>5, <1>7 DEF InstListed, InstMoving
<1>12. InstLeft(v, k) /\ InstLeft(world, k)
  BY <1>2, <1>4, <1>5, <1>9 DEF InstLeft
<1>13. InstAcl(v, k, pc'[a]) /\ InstAcl(world, k, pc'[a])
  BY <1>2, <1>4, <1>5 DEF InstAcl
<1>14. InstPath(a)'
  BY <1>3, <1>6, <1>8, <1>10, <1>11, <1>12, <1>13 DEF InstPath, InstRun
<1>15. world' \in InstWorlds
  BY <1>2, <1>3, <1>4
<1> QED
  BY <1>2, <1>3, <1>6, <1>14, <1>15, InstKept

\* A command that is refused, that ends, or is run again.
LEMMA InstRefused ==
  ASSUME InstInv, NEW a \in Ops, pc[a] = "check", I!Refused(a)
  PROVE  InstInv'
<1>1. /\ pc' = [pc EXCEPT ![a] = "failed"] /\ pc'[a] = "failed" /\ world' = world
      /\ faults' = faults /\ loc' = loc
  BY DEF I!Refused, I!Step, I!Goto, InstInv, I!TypeOK
<1>2. InstLeft(world, loc[a]) /\ InstAcl(world, loc[a], "check")
  BY DEF InstInv, InstPath
<1>3. InstPath(a)'
  BY <1>1, <1>2 DEF InstPath, InstAcl
<1>4. world \in InstWorlds /\ loc \in [Ops -> I!Locals] /\ faults \in 0..MaxFaults
  BY DEF InstInv, I!TypeOK
<1> QED
  BY <1>1, <1>3, <1>4, InstKept

LEMMA InstSucceeded ==
  ASSUME InstInv, NEW a \in Ops, I!Succeed(a)
  PROVE  InstInv'
<1>1. /\ pc' = [pc EXCEPT ![a] = "done"] /\ pc'[a] = "done" /\ world' = world
      /\ faults' = faults /\ loc' = loc /\ pc[a] = "run" /\ world.plan = <<>>
  BY DEF I!Succeed, I!Step, I!Goto, InstInv, I!TypeOK
<1>2. /\ InstLeft(world, loc[a]) /\ InstAcl(world, loc[a], "run")
      /\ InstRun(world, loc[a])
  BY <1>1 DEF InstInv, InstPath
<1>3. InstPath(a)'
  BY <1>1, <1>2 DEF InstPath, InstAcl
<1>4. world \in InstWorlds /\ loc \in [Ops -> I!Locals] /\ faults \in 0..MaxFaults
  BY DEF InstInv, I!TypeOK
<1> QED
  BY <1>1, <1>3, <1>4, InstKept

\* What was there before a command starts is there when its plan is known.
LEMMA InstFollowed ==
  ASSUME NEW w \in InstWorlds, NEW p \in Seq(InstSteps)
  PROVE  LET v == [w EXCEPT !.plan = p]
         IN  /\ v \in InstWorlds /\ v.plan = p /\ v.parts = w.parts /\ v.mqtt = w.mqtt
             /\ v.amqp = w.amqp /\ v.rdes = w.rdes /\ v.tag = w.tag /\ v.template = w.template
BY DEF InstWorlds

LEMMA InstRetried ==
  ASSUME InstInv, NEW a \in Ops, I!Again(a)
  PROVE  InstInv'
<1> DEFINE l == loc[a]
           v == [world EXCEPT !.plan = <<>>]
<1>1. PICK kind \in {"install", "upgrade"} :
        loc' = [loc EXCEPT ![a] = [l EXCEPT !.kind = kind, !.cluster = Absent, !.at = "find",
                                            !.left = {}]]
  BY DEF I!Again, I!Set
<1> DEFINE k == [l EXCEPT !.kind = kind, !.cluster = Absent, !.at = "find", !.left = {}]
<1>2. /\ pc' = [pc EXCEPT ![a] = "check"] /\ pc'[a] = "check" /\ world' = v
      /\ faults' = faults /\ pc[a] = "failed"
  BY DEF I!Again, I!Goto, I!Follow, InstInv, I!TypeOK
<1>3. /\ world \in InstWorlds /\ l \in I!Locals /\ faults \in 0..MaxFaults
      /\ loc \in [Ops -> I!Locals]
  BY DEF InstInv, I!TypeOK
<1>4. InstLeft(world, l) /\ InstAcl(world, l, "failed")
  BY <1>2 DEF InstInv, InstPath
<1>5. /\ k \in I!Locals /\ k.cluster = Absent /\ k.source = l.source /\ k.torn = l.torn
      /\ k.installed = l.installed
  BY <1>3 DEF I!Locals
<1>6. loc' \in [Ops -> I!Locals] /\ loc'[a] = k
  <2>1. loc' = [loc EXCEPT ![a] = k]
    BY <1>1
  <2> HIDE DEF k
  <2> QED
    BY <1>3, <1>5, <2>1
<1> HIDE DEF k
<1>7. /\ v \in InstWorlds /\ v.parts = world.parts /\ v.mqtt = world.mqtt
      /\ v.amqp = world.amqp /\ v.rdes = world.rdes /\ v.tag = world.tag
      /\ v.template = world.template
  BY <1>3, PlanParts, InstFollowed
<1> HIDE DEF v
<1>8. /\ \A c : (Promised(v, c) <=> Promised(world, c)) /\ (Moved(v, c) <=> Moved(world, c))
      /\ InstRdes(v)
  BY <1>4, <1>7, InstSame DEF InstLeft
<1>9. InstLeft(v, k) /\ InstAcl(v, k, "check")
  BY <1>4, <1>5, <1>7, <1>8 DEF InstLeft, InstAcl
<1>10. InstPath(a)'
  BY <1>2, <1>5, <1>6, <1>9 DEF InstPath
<1> QED
  BY <1>2, <1>3, <1>6, <1>7, <1>10, InstKept

\* A command that starts: what it has to do is in its plan.
LEMMA InstStarted ==
  ASSUME InstInv, NEW a \in Ops, pc[a] = "check", NEW p \in Seq(InstSteps), NEW k \in I!Locals,
         world' = I!Follow(p), I!Goto(a, "run"), faults' = faults,
         loc' = [loc EXCEPT ![a] = k], k.mode = loc[a].mode, k.kind = loc[a].kind,
         k.cluster = loc[a].cluster, k.torn = loc[a].torn, k.installed = loc[a].installed,
         k.source \in {loc[a].source, world.mqtt, world.amqp},
         InstStages(I!Follow(p), k), InstMade(I!Follow(p), k),
         k.kind = "upgrade" /\ ~k.mode.legacy => "list-clusters" \in Coming(p)
  PROVE  InstInv'
<1> DEFINE l == loc[a]
           v == I!Follow(p)
<1>1. /\ pc' = [pc EXCEPT ![a] = "run"] /\ pc'[a] = "run"
  BY DEF I!Goto, InstInv, I!TypeOK
<1>2. /\ world \in InstWorlds /\ l \in I!Locals /\ faults \in 0..MaxFaults
      /\ loc \in [Ops -> I!Locals]
  BY DEF InstInv, I!TypeOK
<1>3. InstLeft(world, l) /\ InstAcl(world, l, "check") /\ l.cluster = Absent
  BY DEF InstInv, InstPath
<1>4. /\ v \in InstWorlds /\ v.plan = p /\ v.parts = world.parts /\ v.mqtt = world.mqtt
      /\ v.amqp = world.amqp /\ v.rdes = world.rdes /\ v.tag = world.tag
      /\ v.template = world.template
  BY <1>2, InstFollowed DEF I!Follow
<1> HIDE DEF v
<1>5. /\ \A c : (Promised(v, c) <=> Promised(world, c)) /\ (Moved(v, c) <=> Moved(world, c))
      /\ InstRdes(v)
  BY <1>3, <1>4, InstSame DEF InstLeft
<1>6. InstLeft(v, k) /\ InstAcl(v, k, "run")
  <2>1. v.mqtt = InstTarget \/ v.amqp = InstTarget \/ k.source = InstTarget =>
          k.installed \/ \A c \in LegacyClusters : Promised(v, c) => Moved(v, c)
    BY <1>3, <1>4, <1>5 DEF InstLeft
  <2> QED
    BY <1>3, <1>4, <1>5, <2>1 DEF InstLeft, InstAcl
<1>7. InstListed(v, k) /\ InstMoving(v, k)
  BY <1>3, <1>4 DEF InstListed, InstMoving
<1>8. loc' \in [Ops -> I!Locals] /\ loc'[a] = k /\ world' = v
  BY <1>2 DEF v
<1>9. InstStages(v, k) /\ InstMade(v, k)
  BY DEF v
<1>10. InstPath(a)'
  BY <1>1, <1>6, <1>7, <1>8, <1>9 DEF InstPath, InstRun
<1> QED
  BY <1>1, <1>2, <1>4, <1>8, <1>10, InstKept

LEMMA InstInstalls ==
  ASSUME InstInv, NEW a \in Ops, I!CheckInstall(a)
  PROVE  InstInv'
<1> DEFINE l == loc[a]
           p == I!InstallPlan(l.mode)
           v == I!Follow(p)
           s == Coming(p)
<1>1. pc[a] = "check" /\ l.kind = "install"
  BY DEF I!CheckInstall
<1>2. world \in InstWorlds /\ l \in I!Locals /\ l.mode \in [legacy : BOOLEAN, mqtt : BOOLEAN]
  BY DEF InstInv, I!Locals
<1>3. InstLeft(world, l) /\ InstAcl(world, l, "check")
  BY <1>1 DEF InstInv, InstPath
<1>4. CASE I!Refused(a)
  BY <1>1, <1>4, InstRefused
<1>5. CASE /\ I!existing_type(l.mode) = "NONE" /\ world' = v /\ I!Goto(a, "run")
           /\ loc' = loc /\ faults' = faults
  <2>1. world.amqp = Absent /\ (l.mode.legacy \/ world.mqtt = Absent)
    BY <1>5 DEF I!existing_type
  <2>2. /\ p \in Seq(InstSteps) /\ NeverAfter(p, {"mqtt", "amqp"}, {"catalog"})
        /\ s = (IF l.mode.legacy THEN {} ELSE InstSchema) \cup {"catalog"} \cup
               (IF I!should_use_mqtt_protocol(l.mode) THEN {"mqtt", "filters"}
                ELSE {"exchange", "amqp", "deploy-right", "pks-right"})
    BY <1>2, InstallPlanIs
  <2>3. /\ v.plan = p /\ v.parts = world.parts /\ v.mqtt = world.mqtt /\ v.amqp = world.amqp
    BY <1>2, <2>2, InstFollowed DEF I!Follow
  <2>4. I!should_use_mqtt_protocol(l.mode) => ~l.mode.legacy
    BY DEF I!should_use_mqtt_protocol
  <2> HIDE DEF p, v
  <2>5. InstStages(v, l)
    <3>1. s \cap {"unregister", "drop-filters", "list-clusters", "update-mqtt", "update-amqp",
                  "drop-amqp"} = {}
      BY <2>2 DEF InstSchema
    <3>2. /\ Then(p, {"unregister", "drop-filters"}, "filters")
          /\ Then(p, {"list-clusters"}, "clusters")
          /\ NeverAfter(p, {"update-mqtt"}, {"entity-type", "list-clusters", "clusters"})
      <4>1. /\ s \cap {"unregister", "drop-filters"} = {} /\ s \cap {"list-clusters"} = {}
            /\ s \cap {"update-mqtt"} = {}
        BY <3>1
      <4> QED
        BY <2>2, <4>1, PlanPart
    <3>3. /\ l.mode.legacy => s \cap {"mqtt", "update-mqtt", "drop-amqp", "entity-type"} = {}
          /\ I!should_use_mqtt_protocol(l.mode) => "amqp" \notin s
          /\ ~I!should_use_mqtt_protocol(l.mode) => "mqtt" \notin s
      BY <2>2, <2>4 DEF InstSchema
    <3> QED
      BY <1>1, <2>2, <2>3, <3>1, <3>2, <3>3 DEF InstStages
  <2>6. InstMade(v, l)
    <3>1. \A x \in InstNeeds(l) : x \in s
      BY <1>1, <2>2 DEF InstNeeds, InstSchema
    <3>2. ~l.mode.legacy => "entity-type" \in s
      BY <2>2 DEF InstSchema
    <3>3. ~l.mode.legacy => world.mqtt # I!Source("3.1.0", FALSE)
      BY <2>1, InstDescriptions
    <3>4. s \cap {"filters", "amqp"} # {}
      BY <2>2
    <3>5. /\ I!should_use_mqtt_protocol(l.mode) => world.mqtt = Absent /\ "mqtt" \in s
          /\ ~I!should_use_mqtt_protocol(l.mode) => "amqp" \in s
      BY <2>1, <2>2, <2>4
    <3> QED
      BY <1>1, <2>3, <3>1, <3>2, <3>3, <3>4, <3>5 DEF InstMade
  <2>7. /\ loc' = [loc EXCEPT ![a] = l] /\ InstStages(I!Follow(p), l) /\ InstMade(I!Follow(p), l)
        /\ world' = I!Follow(p)
    BY <1>5, <2>5, <2>6 DEF InstInv, v
  <2> QED
    BY <1>1, <1>2, <1>5, <2>2, <2>7, InstStarted
<1> QED
  BY <1>4, <1>5 DEF I!CheckInstall, I!Refused, I!Step

LEMMA InstUpgrades ==
  ASSUME InstInv, NEW a \in Ops, I!CheckUpgrade(a)
  PROVE  InstInv'
<1> DEFINE l == loc[a]
           from == I!existing_type(l.mode)
           was == IF from = "MQTT" THEN world.mqtt ELSE world.amqp
           p == I!UpgradePlan(l.mode, from)
           v == I!Follow(p)
           s == Coming(p)
           k == [l EXCEPT !.source = was]
<1>1. pc[a] = "check" /\ l.kind = "upgrade"
  BY DEF I!CheckUpgrade
<1>2. world \in InstWorlds /\ l \in I!Locals /\ l.mode \in [legacy : BOOLEAN, mqtt : BOOLEAN]
  BY DEF InstInv, I!Locals
<1>3. InstLeft(world, l) /\ InstAcl(world, l, "check")
  BY <1>1 DEF InstInv, InstPath
<1>4. CASE I!Refused(a)
  BY <1>1, <1>4, InstRefused
<1>5. CASE /\ from # "NONE" /\ world' = v /\ I!Goto(a, "run")
           /\ loc' = [loc EXCEPT ![a] = k] /\ faults' = faults
  <2>1. \/ from = "MQTT" /\ world.mqtt # Absent /\ ~l.mode.legacy /\ was = world.mqtt
        \/ /\ from = "AMQP" /\ world.amqp # Absent /\ was = world.amqp
           /\ l.mode.legacy \/ world.mqtt = Absent
    BY <1>5 DEF I!existing_type
  <2>2. /\ p \in Seq(InstSteps)
        /\ s = (IF from = "AMQP" /\ ~l.mode.legacy THEN {"unregister", "drop-amqp", "mqtt", "filters"}
                ELSE {}) \cup
               (IF l.mode.legacy THEN {"exchange", "update-amqp", "drop-filters", "filters"}
                ELSE InstSchema \cup InstMigrate)
        /\ Then(p, {"unregister", "drop-filters"}, "filters")
        /\ Then(p, {"list-clusters"}, "clusters")
        /\ NeverAfter(p, {"update-mqtt"}, {"entity-type", "list-clusters", "clusters"})
    BY <1>2, UpgradePlanIs
  <2>3. /\ v.plan = p /\ v.parts = world.parts /\ v.mqtt = world.mqtt /\ v.amqp = world.amqp
    BY <1>2, <2>2, InstFollowed DEF I!Follow
  <2>4. was \in I!Descriptions
    BY <1>2, <2>1 DEF InstWorlds
  <2> HIDE DEF p, v, from, was
  <2>5. /\ k \in I!Locals /\ k.mode = l.mode /\ k.kind = "upgrade" /\ k.cluster = l.cluster
        /\ k.torn = l.torn /\ k.installed = l.installed /\ k.source = was
    BY <1>1, <1>2, <2>4 DEF I!Locals
  <2>6. loc' = [loc EXCEPT ![a] = k]
    BY <1>5
  <2> HIDE DEF k
  <2>7. InstStages(v, k)
    <3>1. /\ l.mode.legacy => s \cap {"mqtt", "update-mqtt", "drop-amqp", "entity-type"} = {}
          /\ ~l.mode.legacy => "update-amqp" \notin s
          /\ "amqp" \notin s
      BY <2>2 DEF InstSchema, InstMigrate
    <3>2. NeverAfter(p, {"mqtt", "amqp"}, {})
      BY DEF NeverAfter
    <3> QED
      BY <2>2, <2>3, <2>5, <3>1, <3>2 DEF InstStages
  <2>8. InstMade(v, k)
    <3>1. \A x \in InstNeeds(k) : x \in s
      BY <2>2, <2>5 DEF InstNeeds, InstSchema
    <3>2. /\ ~l.mode.legacy => "entity-type" \in s /\ "update-mqtt" \in s
          /\ "filters" \in s
          /\ l.mode.legacy => "update-amqp" \in s
      BY <2>2 DEF InstSchema, InstMigrate
    <3>3. ~l.mode.legacy /\ world.mqtt = I!Source("3.1.0", FALSE) => was.version = "3.1.0"
      <4>1. I!Source("3.1.0", FALSE).version = "3.1.0" /\ I!Source("3.1.0", FALSE) # Absent
        BY InstDescriptions DEF I!Source
      <4> QED
        BY <2>1, <4>1
    <3>4. "catalog" \in world.parts
      <4>1. world.mqtt # Absent \/ world.amqp # Absent
        BY <2>1
      <4> QED
        BY <1>3, <4>1 DEF InstLeft
    <3>5. s \cap {"filters", "amqp"} # {}
      BY <3>2
    <3>6. CASE l.mode.legacy
      BY <2>3, <2>5, <3>1, <3>2, <3>4, <3>5, <3>6 DEF InstMade
    <3>7. CASE ~l.mode.legacy
      BY <2>3, <2>5, <3>1, <3>2, <3>3, <3>4, <3>5, <3>7 DEF InstMade
    <3> QED
      BY <3>6, <3>7
  <2>9. k.kind = "upgrade" /\ ~k.mode.legacy => "list-clusters" \in s
    BY <2>2, <2>5 DEF InstMigrate
  <2>10. k.source \in {l.source, world.mqtt, world.amqp}
    BY <2>1, <2>5
  <2>11. /\ InstStages(I!Follow(p), k) /\ InstMade(I!Follow(p), k) /\ world' = I!Follow(p)
    BY <1>5, <2>7, <2>8 DEF v
  <2> QED
    BY <1>1, <1>5, <2>2, <2>5, <2>6, <2>9, <2>10, <2>11, InstStarted
<1> QED
  BY <1>4, <1>5 DEF I!CheckUpgrade, I!Set

LEMMA InstNextInv ==
  ASSUME InstInv, [I!Next]_(I!procedureVars)
  PROVE  InstInv'
<1>1. CASE UNCHANGED I!procedureVars
  BY <1>1 DEF I!procedureVars, InstInv, InstPath, I!TypeOK, I!Source
<1>2. ASSUME NEW a \in Ops, I!CheckInstall(a) \/ I!CheckUpgrade(a) \/ I!PathNotValid(a)
      PROVE  InstInv'
  <2>1. I!PathNotValid(a) => pc[a] = "check" /\ I!Refused(a)
    BY DEF I!PathNotValid
  <2> QED
    BY <1>2, <2>1, InstInstalls, InstUpgrades, InstRefused
<1>3. ASSUME NEW a \in Ops,
             \/ I!EnsurePart(a) \/ I!SetupFilters(a) \/ I!RegisterEntityType(a)
             \/ I!TypeAcl(a) \/ I!SetupExtension(a) \/ I!DropFilters(a) \/ I!Unregister(a)
             \/ I!RegisterAmqp(a) \/ I!UpdateAmqp(a) \/ I!DropAmqp(a) \/ I!UpdateMqtt(a)
             \/ I!RemoveSizing(a)
      PROVE  InstInv'
  BY <1>3, InstEnsured, InstTypeUpdated, InstTypeCreated, InstShared, InstExtended,
     InstNoFilters, InstAmqpRegistered, InstAmqpUpdated, InstNoAmqp, InstDescribed, InstNoSizing
<1>4. ASSUME NEW a \in Ops,
             \/ I!ListClusters(a) \/ I!NextCluster(a) \/ I!CreateRde(a) \/ I!FindByName(a)
             \/ I!LinkRde(a) \/ I!ResolveRde(a) \/ I!UpgradeRde(a) \/ I!TagVapp(a)
             \/ I!ClustersDone(a) \/ I!Succeed(a) \/ I!Again(a)
      PROVE  InstInv'
  BY <1>4, InstAllListed, InstNext, InstCreated, InstFound, InstLinked, InstResolved,
     InstUpgraded, InstTagged, InstNoneLeft, InstSucceeded, InstRetried
<1> QED
  BY <1>1, <1>2, <1>3, <1>4 DEF I!Next

\* Clusters that an older CSE served have an RDE each.
LEMMA InstServed ==
  ASSUME NEW served \in SUBSET LegacyClusters
  PROVE  LET ids == CHOOSE f \in [served -> 1..MaxRdes] :
                      \A c, d \in served : f[c] = f[d] => c = d
         IN  /\ ids \in [served -> 1..MaxRdes]
             /\ \A c, d \in served : ids[c] = ids[d] => c = d
<1>1. PICK f \in [LegacyClusters -> 1..MaxRdes] :
        \A c, d \in LegacyClusters : f[c] = f[d] => c = d
  BY InstallerAssumption
<1> DEFINE g == [c \in served |-> f[c]]
<1>2. g \in [served -> 1..MaxRdes] /\ \A c, d \in served : g[c] = g[d] => c = d
  BY <1>1
<1> HIDE DEF g
<1>3. \E h \in [served -> 1..MaxRdes] : \A c, d \in served : h[c] = h[d] => c = d
  BY <1>2
<1> QED
  BY <1>3

LEMMA InstInitInv == I!Init => InstInv
<1> SUFFICES ASSUME I!Init PROVE InstInv
  OBVIOUS
<1>1. PICK type \in I!Extensions, version \in {"3.0", "3.1.0"}, legacy \in BOOLEAN,
           template \in [LegacyClusters -> {"known", "unknown"}] :
        LET description == I!Source(version, legacy)
            served == {c \in LegacyClusters : ~legacy /\ template[c] = "known"}
            ids    == CHOOSE f \in [served -> 1..MaxRdes] :
                        \A c, d \in served : f[c] = f[d] => c = d
        IN  /\ type = "NONE" => legacy /\ version = "3.0"
            /\ type = "AMQP" => version = "3.0"
            /\ type = "MQTT" => version = "3.1.0" /\ ~legacy
            /\ world = [mqtt |-> IF type = "MQTT" THEN description ELSE Absent,
                        amqp |-> IF type = "AMQP" THEN description ELSE Absent,
                        parts |-> CASE type = "NONE" -> {}
                                    [] type = "AMQP" -> {"catalog", "exchange", "filters",
                                                         "deploy-right", "pks-right"}
                                    [] type = "MQTT" -> I!Parts \ {"schema", "exchange"},
                        rdes |-> {[id |-> ids[c], name |-> NameOf[c], type |-> "source",
                                   vapp |-> c, resolved |-> TRUE] : c \in served},
                        tag |-> [c \in LegacyClusters |-> IF c \in served THEN ids[c] ELSE 0],
                        template |-> template, plan |-> <<>>]
  BY DEF I!Init
<1> DEFINE description == I!Source(version, legacy)
           served == {c \in LegacyClusters : ~legacy /\ template[c] = "known"}
           ids    == CHOOSE f \in [served -> 1..MaxRdes] :
                       \A c, d \in served : f[c] = f[d] => c = d
           rdeOf(c) == [id |-> ids[c], name |-> NameOf[c], type |-> "source",
                        vapp |-> c, resolved |-> TRUE]
<1>2. /\ world.mqtt = (IF type = "MQTT" THEN description ELSE Absent)
      /\ world.amqp = (IF type = "AMQP" THEN description ELSE Absent)
      /\ world.parts = (CASE type = "NONE" -> {}
                          [] type = "AMQP" -> {"catalog", "exchange", "filters", "deploy-right",
                                               "pks-right"}
                          [] type = "MQTT" -> I!Parts \ {"schema", "exchange"})
      /\ world.rdes = {rdeOf(c) : c \in served}
      /\ world.tag = [c \in LegacyClusters |-> IF c \in served THEN ids[c] ELSE 0]
      /\ world.template = template /\ world.plan = <<>>
      /\ world = [mqtt |-> world.mqtt, amqp |-> world.amqp, parts |-> world.parts,
                  rdes |-> world.rdes, tag |-> world.tag, template |-> world.template,
                  plan |-> world.plan]
      /\ type = "AMQP" => version = "3.0"
      /\ type = "MQTT" => version = "3.1.0" /\ ~legacy
  BY <1>1
<1>3. served \subseteq LegacyClusters
  OBVIOUS
<1>4. /\ ids \in [served -> 1..MaxRdes]
      /\ \A c, d \in served : ids[c] = ids[d] => c = d
  BY <1>3, InstServed
<1> HIDE DEF served, ids
<1>5. MaxRdes \in Nat /\ Absent \notin LegacyClusters /\ MaxFaults \in Nat
  BY InstallerAssumption, ThreadsAssumption
<1>6. \A c \in served :
        /\ rdeOf(c) \in I!Rdes /\ rdeOf(c).id = ids[c] /\ rdeOf(c).name = NameOf[c]
        /\ rdeOf(c).vapp = c /\ rdeOf(c).resolved /\ c \in LegacyClusters /\ ids[c] \in 1..MaxRdes
  BY <1>3, <1>4 DEF I!Rdes
<1> HIDE DEF rdeOf
<1>7. /\ description \in I!Descriptions
      /\ type = "MQTT" => world.mqtt = I!Source("3.1.0", FALSE)
      /\ world.mqtt # InstTarget /\ world.amqp # InstTarget
  <2>1. description \in I!Descriptions
    BY DEF I!Source, I!Descriptions, I!Versions
  <2>2. description # InstTarget
    BY DEF I!Source, InstTarget
  <2>3. type = "MQTT" => description = I!Source("3.1.0", FALSE)
    BY <1>2 DEF I!Source
  <2> HIDE DEF description
  <2> QED
    BY <1>2, <2>1, <2>2, <2>3, InstDescriptions
<1> HIDE DEF description
<1>8. /\ world.parts \subseteq I!Parts
      /\ world.mqtt # Absent \/ world.amqp # Absent => "catalog" \in world.parts
      /\ "entity-type" \in world.parts => world.mqtt = I!Source("3.1.0", FALSE)
      /\ "entity-type" \in world.parts => "type-ACL" \in world.parts
  <2>0. {"catalog", "exchange", "filters", "deploy-right", "pks-right", "type-ACL"} \subseteq I!Parts
    BY DEF I!Parts, I!Ensured
  <2>1. CASE type = "NONE"
    <3>1. world.parts = {} /\ world.mqtt = Absent /\ world.amqp = Absent
      BY <1>2, <2>1
    <3> QED
      BY <3>1
  <2>2. CASE type = "AMQP"
    <3>1. world.parts = {"catalog", "exchange", "filters", "deploy-right", "pks-right"}
      BY <1>2, <2>2
    <3> QED
      BY <2>0, <3>1
  <2>3. CASE type = "MQTT"
    <3>1. world.parts = I!Parts \ {"schema", "exchange"}
      BY <1>2, <2>3
    <3> QED
      BY <1>7, <2>0, <2>3, <3>1
  <2> QED
    BY <2>1, <2>2, <2>3 DEF I!Extensions
<1>9. world \in InstWorlds
  <2>1. world.rdes \subseteq I!Rdes
    BY <1>2, <1>6
  <2>2. world.tag \in [LegacyClusters -> 0..MaxRdes]
    BY <1>2, <1>5, <1>6
  <2>3. world.plan \in Seq(InstSteps)
    BY <1>2, PlanParts
  <2>4. {world.mqtt, world.amqp} \subseteq I!Descriptions \cup {Absent}
    BY <1>2, <1>7
  <2> QED
    BY <1>2, <1>8, <2>1, <2>2, <2>3, <2>4 DEF InstWorlds
<1>10. InstRdes(world)
  <2>1. \A c \in LegacyClusters : world.tag[c] = IF c \in served THEN ids[c] ELSE 0
    BY <1>2
  <2>2. \A r \in world.rdes : \E c \in served : r = rdeOf(c)
    BY <1>2
  <2>3. \A c \in served : rdeOf(c) \in world.rdes
    BY <1>2
  <2>4. \A r, s \in world.rdes : r.id = s.id => r = s
    BY <1>4, <1>6, <2>2
  <2>5. \A r \in world.rdes : r.name = NameOf[r.vapp]
    BY <1>6, <2>2
  <2>6. \A c \in LegacyClusters : world.tag[c] # 0 => \E r \in world.rdes : r.id = world.tag[c]
    BY <1>6, <2>1, <2>3
  <2>7. \A c \in LegacyClusters : \A r \in world.rdes : r.id = world.tag[c] => r.vapp = c /\ r.resolved
    <3> SUFFICES ASSUME NEW c \in LegacyClusters, NEW r \in world.rdes, r.id = world.tag[c]
                 PROVE  r.vapp = c /\ r.resolved
      OBVIOUS
    <3>1. PICK d \in served : r = rdeOf(d)
      BY <2>2
    <3>2. c \in served /\ ids[c] = ids[d]
      BY <1>6, <2>1, <3>1
    <3> QED
      BY <1>4, <1>6, <3>1, <3>2
  <2> QED
    BY <2>4, <2>5, <2>6, <2>7 DEF InstRdes
<1>11. PICK a \in Ops, mode \in [legacy : BOOLEAN, mqtt : BOOLEAN], kind \in {"install", "upgrade"} :
         I!Alone(a, "check", [I!Nothing EXCEPT !.mode = mode, !.kind = kind], I!Nothing)
  BY DEF I!Init
<1> DEFINE k == [I!Nothing EXCEPT !.mode = mode, !.kind = kind]
<1>12. /\ k \in I!Locals /\ k.cluster = Absent /\ k.source = I!Source("3.0", FALSE)
       /\ I!Nothing \in I!Locals
  <2>1. [legacy |-> FALSE, mqtt |-> FALSE] \in [legacy : BOOLEAN, mqtt : BOOLEAN]
    OBVIOUS
  <2>2. I!Source("3.0", FALSE) \in I!Descriptions
    BY DEF I!Source, I!Descriptions, I!Versions
  <2>3. /\ I!Nothing \in I!Locals /\ I!Nothing.cluster = Absent
        /\ I!Nothing.source = I!Source("3.0", FALSE)
    BY <1>5, <2>1, <2>2 DEF I!Locals, I!Nothing, I!Source
  <2>4. /\ k \in I!Locals /\ k.cluster = I!Nothing.cluster /\ k.source = I!Nothing.source
    BY <2>3 DEF I!Locals
  <2> QED
    BY <2>3, <2>4
<1>13. /\ pc = [b \in Ops |-> IF b = a THEN "check" ELSE "idle"]
       /\ loc = [b \in Ops |-> IF b = a THEN k ELSE I!Nothing] /\ faults = 0
  BY <1>11 DEF I!Alone
<1> HIDE DEF k
<1>14. InstLeft(world, k) /\ InstAcl(world, k, "check")
  <2>1. k.source # InstTarget
    BY <1>12 DEF InstTarget, I!Source
  <2> QED
    BY <1>7, <1>8, <1>10, <2>1 DEF InstLeft, InstAcl
<1>15. /\ loc \in [Ops -> I!Locals] /\ DOMAIN pc = Ops /\ faults \in 0..MaxFaults
       /\ pc[a] = "check" /\ loc[a] = k
       /\ \A b \in Ops \ {a} : pc[b] = "idle"
  BY <1>5, <1>12, <1>13
<1>16. \A b \in Ops : InstPath(b)
  BY <1>12, <1>14, <1>15 DEF InstPath
<1>17. I!TypeOK
  BY <1>9, <1>15 DEF I!TypeOK, InstWorlds
<1> QED
  BY <1>9, <1>15, <1>16, <1>17 DEF InstInv

\* What the invariant says of the properties.
LEMMA InstAsked ==
  ASSUME InstInv
  PROVE  I!InstallConverges /\ I!ClaimedWhenMigrated
<1>1. ASSUME NEW a \in Ops, pc[a] = "done"
      PROVE  /\ I!Ready(loc[a].mode, loc[a].kind)
             /\ ~loc[a].mode.legacy /\ ~loc[a].torn => "type-ACL" \in world.parts
             /\ loc[a].kind = "install" \/ loc[a].mode.legacy \/ loc[a].mode.mqtt =>
                  I!check_cse_installation(loc[a].mode)
  <2> DEFINE l == loc[a]
  <2>1. /\ l \in I!Locals /\ world.plan = <<>> /\ Coming(world.plan) = {}
        /\ InstMade(world, l) /\ InstAcl(world, l, "done")
    BY <1>1, PlanParts DEF InstInv, InstPath, InstRun
  <2>2. /\ l.mode.legacy \in BOOLEAN /\ l.kind \in {"install", "upgrade"}
        /\ I!should_use_mqtt_protocol(l.mode) => ~l.mode.legacy /\ l.mode.mqtt
        /\ l.mode.mqtt /\ ~I!should_use_mqtt_protocol(l.mode) => l.mode.legacy
    BY <2>1 DEF I!Locals, I!should_use_mqtt_protocol
  <2>3. /\ InstNeeds(l) \subseteq world.parts /\ "filters" \in world.parts
        /\ ~l.mode.legacy => {"entity-type", "schema"} \subseteq world.parts
        /\ l.kind = "upgrade" => "catalog" \in world.parts
    BY <2>1 DEF InstMade
  <2>4. ~l.mode.legacy =>
          {"interfaces", "behaviors", "overrides", "behavior-ACLs", "role-rights", "vdc-policies",
           "entity-type", "schema"} \subseteq world.parts
    BY <2>3 DEF InstNeeds
  <2>5. "catalog" \in world.parts
    BY <2>2, <2>3 DEF InstNeeds
  <2>6. IF I!should_use_mqtt_protocol(l.mode) \/ (l.kind = "upgrade" /\ ~l.mode.legacy)
        THEN world.mqtt = InstTarget
        ELSE /\ world.amqp = I!Source("target", l.mode.legacy) /\ "exchange" \in world.parts
             /\ l.kind = "install" => {"deploy-right", "pks-right"} \subseteq world.parts
    <3>1. CASE l.kind = "upgrade" /\ ~l.mode.legacy
      BY <2>1, <3>1 DEF InstMade
    <3>2. CASE l.kind = "install" /\ I!should_use_mqtt_protocol(l.mode)
      BY <2>1, <3>2 DEF InstMade
    <3>3. CASE l.kind = "install" /\ ~I!should_use_mqtt_protocol(l.mode)
      <4>1. world.amqp = I!Source("target", l.mode.legacy)
        BY <2>1, <3>3 DEF InstMade
      <4> QED
        BY <2>3, <3>3, <4>1 DEF InstNeeds
    <3>4. CASE l.kind = "upgrade" /\ l.mode.legacy
      <4>1. world.amqp = I!Source("target", l.mode.legacy)
        BY <2>1, <3>4 DEF InstMade
      <4> QED
        BY <2>2, <2>3, <3>4, <4>1 DEF InstNeeds
    <3> QED
      BY <2>2, <3>1, <3>2, <3>3, <3>4
  <2>7. {I!Schema[i] : i \in DOMAIN I!Schema} =
          {"interfaces", "behaviors", "entity-type", "overrides", "behavior-ACLs", "role-rights"}
    BY PlanParts DEF Coming
  <2>8. I!Ready(l.mode, l.kind)
    BY <2>3, <2>4, <2>6, <2>7 DEF I!Ready, InstTarget
  <2>9. ~l.mode.legacy /\ ~l.torn => "type-ACL" \in world.parts
    BY <2>3 , <2>1 DEF InstAcl
  <2>10. l.kind = "install" \/ l.mode.legacy \/ l.mode.mqtt => I!check_cse_installation(l.mode)
    <3>1. I!Source("target", l.mode.legacy) # Absent /\ InstTarget # Absent
      <4>1. I!Source("target", l.mode.legacy) \in I!Descriptions
        BY <2>2 DEF I!Source, I!Descriptions, I!Versions
      <4> QED
        BY <4>1, InstDescriptions
    <3> QED
      BY <2>2, <2>3, <2>5, <2>6, <3>1
      DEF I!check_cse_installation, I!_check_mqtt_extension_installation,
          I!_check_amqp_extension_installation
  <2> QED
    BY <2>8, <2>9, <2>10
<1>2. ASSUME NEW a \in Ops, world.mqtt = InstTarget, pc[a] # "idle", ~loc[a].installed,
             NEW c \in LegacyClusters, Promised(world, c)
      PROVE  I!Migrated(c)
  <2>1. InstLeft(world, loc[a])
    BY <1>2 DEF InstInv, InstPath
  <2>2. Moved(world, c)
    BY <1>2, <2>1 DEF InstLeft
  <2> QED
    BY <2>2 DEF Moved, I!Migrated
<1>3. I!InstallConverges
  BY <1>1 DEF I!InstallConverges
<1>4. I!ClaimedWhenMigrated
  BY <1>2 DEF I!ClaimedWhenMigrated, InstTarget, Promised
<1> QED
  BY <1>3, <1>4

-----------------------------------------------------------------------------
(***************************************************************************)
(* The cluster commands of vcd cse (K).  The invariant says what a command *)
(* is like as it goes: its session is that of the profile (ClientSession), *)
(* its class that of the session and of the runtime (ClientClass), and its *)
(* target a cluster that the search showed, when no other was shown        *)
(* (ClientTarget); what commands have created, each after a search that    *)
(* showed no such cluster (ClientMade); what they have made of the ACLs    *)
(* (ClientAcl); and that a share lowers no access (ClientAlone).           *)
(***************************************************************************)
ClientPcs == {"idle", "filter", "session", "choose", "kind", "native", "tkg", "legacy", "found",
              "create", "acl", "put", "entries", "done", "failed"}
\* After the class of the command was chosen, and after its cluster was found.
Chosen == {"kind", "native", "tkg", "legacy", "found", "create", "acl", "put", "entries", "done"}
Aimed  == {"found", "acl", "put", "entries", "done"}

\* What every command of vcd cse is like.
ClientAsks(r) ==
  /\ r.op = "nfs" => r.runtime = Absent
  /\ r.op \in {"create", "resize"} => r.runtime = Absent /\ r.id = Absent
  /\ r.op = "apply" => r.runtime \in K!Kinds
  /\ r.id \in {1, Absent}
  /\ ~r.sysadmin => r.org = Absent
  /\ r.op \in {"create", "apply"} => r.rights = K!Kinds
  /\ r.op = "share" => r.level \in {1, 3}

\* The session of a command that was filtered is what the profile says, for good.
ClientSession(w, p, l) ==
  /\ p \notin {"idle", "filter", "failed"} /\ ~l.raw =>
       /\ ~K!Asked(w.profile)
       /\ l.session = K!SessionOf(w.profile, w.server)
       /\ ~K!Hidden(l.session, l.request)
  /\ p \in Chosen \cup {"choose"} => l.session # Absent

\* The class and the filter are those of the command and its session.
FilterOf(r) == CASE r.op = "apply" -> K!ApplyOrg(r, r.runtime)
                 [] r.op = "create" -> K!CreateOrg(r)
                 [] OTHER -> K!TenantOrg(r)

ClientClass(p, l) ==
  p \in Chosen =>
    /\ l.class # Absent /\ l.org = FilterOf(l.request)
    /\ l.class = "legacy" => /\ l.session = "legacy" /\ (l.request.runtime = Absent \/ l.raw)
                             /\ p \in {"legacy", "done"}
                             /\ l.request.op \notin K!AclCommands \cup {"apply"}
    /\ l.class = "mixed" => /\ l.session = "full" /\ K!Runtime(l) = Absent
                            /\ p \in {"kind", "native", "tkg"} /\ l.request.op \notin {"apply", "create"}
    /\ l.class \in K!Kinds => /\ l.request.runtime \in {Absent, l.class}
                              /\ l.request.op # "create" /\ p \notin {"legacy", "kind"}
                              /\ p = "native" => l.class = "native"
                              /\ p = "tkg" => l.class = "TKG-S"
    /\ l.session = "TKG-S" => l.class = "TKG-S" \/ l.request.op = "nfs"
    /\ l.session = "legacy" => l.class = "legacy" \/ l.request.op = "nfs"
    /\ p = "create" => l.request.op = "apply"
    /\ p \in {"acl", "put", "entries"} => l.request.op \in {"share", "unshare"}
    /\ p = "put" => l.class = "native"
    /\ p = "entries" => l.class = "TKG-S"

\* The clusters that the search shows, or has shown.
LiveIn(w, i) == w.cluster[i] # Absent /\ w.cluster[i].alive
ShownIn(w, l, i, kind) ==
  /\ LiveIn(w, i)
  /\ w.cluster[i].kind = kind /\ kind \in l.request.rights
  /\ l.request.sysadmin \/ w.cluster[i].org = "own"
  /\ l.org \in {Absent, w.cluster[i].org}
NoOld(w, l, kind) == \A j \in K!Old : ~ShownIn(w, l, j, kind)
May(w, l, i) == /\ i \in K!Ids /\ w.cluster[i] # Absent
                /\ l.request.sysadmin \/ w.cluster[i].org = "own"
                /\ l.org \in {Absent, w.cluster[i].org}
Either(l) == l.session = "full" /\ K!Runtime(l) = Absent

\* The target is the cluster of the id, or one that was shown when no other was, but
\* for a second native cluster.
ClientTarget(w, p, l) ==
  /\ p \in Chosen /\ l.request.id # Absent => /\ p \notin {"native", "tkg", "create"}
                                              /\ l.target = l.request.id
                                              /\ l.class = "legacy" => p # "done"
  /\ p = "kind" => l.request.id # Absent
  /\ p \in Aimed /\ l.request.id = Absent =>
       /\ May(w, l, l.target)
       /\ l.class = "legacy" \/ w.cluster[l.target].kind = l.class
       /\ l.class = "legacy" => w.cluster[l.target].kind = "native"
       /\ l.class # "native" =>
            \A j \in K!Old \ {l.target} : ~ShownIn(w, l, j, w.cluster[l.target].kind)
  /\ p \in Chosen /\ l.request.id = Absent /\ Either(l) /\ l.class \in K!Kinds =>
       \A kind \in K!Kinds \ {l.class} : NoOld(w, l, kind)
  /\ p = "tkg" /\ l.class = "mixed" =>
       IF l.target = Absent THEN NoOld(w, l, "native")
       ELSE May(w, l, l.target) /\ w.cluster[l.target].kind = "native"
  /\ p = "create" => NoOld(w, l, l.class)

ClientLocal(w, p, l) ==
  p \in ClientPcs /\ ClientAsks(l.request) /\ ClientSession(w, p, l) /\ ClientClass(p, l)
  /\ ClientTarget(w, p, l)

\* What commands have created, each by a search that showed no such cluster; one that
\* is about to create has no cluster yet.
MadeBy(w, i, r) ==
  /\ r.op \in {"create", "apply"}
  /\ w.cluster[i].kind = IF r.op = "apply" THEN r.runtime ELSE "native"
  /\ w.cluster[i].org = IF FilterOf(r) = Absent THEN "own" ELSE FilterOf(r)
  /\ NoOld(w, [request |-> r, org |-> FilterOf(r)], w.cluster[i].kind)
ClientMade ==
  /\ \A i \in K!New : world.cluster[i] # Absent =>
       LET a == world.cluster[i].maker
       IN  a \in Ops /\ pc[a] # "idle" /\ MadeBy(world, i, loc[a].request)
  /\ \A i, j \in K!New : LiveIn(world, i) /\ LiveIn(world, j)
                         /\ world.cluster[i].maker = world.cluster[j].maker => i = j
  /\ \A a \in Ops, i \in K!New : pc[a] = "create" /\ LiveIn(world, i) => world.cluster[i].maker # a

\* ACLs: nobody's access changes who was not named; a share or an unshare has given
\* its users what was asked for, unless others disturb it.
UserNamed(u) == \E a \in Ops : u \in loc[a].request.users
Wanted(r) == IF r.op = "share" THEN r.level ELSE 0
Disturbed(a, u) == \E b \in Ops \ {a} : u \in loc[b].request.users \/ loc[b].stale
ClientAcl ==
  /\ \A i \in K!Old, u \in ClientUsers : ~UserNamed(u) => world.acl[i][u] = world.before[u]
  /\ \A a \in Ops, u \in ClientUsers :
       pc[a] = "put" /\ loc[a].target \in K!Old /\ ~UserNamed(u) => loc[a].read[u] = world.before[u]
  /\ \A a \in Ops : pc[a] = "entries" => loc[a].todo \subseteq loc[a].request.users
  /\ \A a \in Ops : pc[a] \in {"entries", "done"} /\ loc[a].request.op \in {"share", "unshare"} =>
       \A u \in loc[a].request.users : pc[a] = "done" \/ u \notin loc[a].todo =>
         world.acl[loc[a].target][u] = Wanted(loc[a].request) \/ Disturbed(a, u)

\* A share that is alone lowers no access.
OthersIdle(a) == \A c \in Ops \ {a} : pc[c] = "idle"
NotLower(a) == \A u \in loc[a].request.users : world.before[u] <= loc[a].request.level
ClientAlone(a) ==
  /\ OthersIdle(a) => loc[a].alone
  /\ loc[a].alone /\ pc[a] \notin {"idle", "filter", "found"} => OthersIdle(a)
  /\ OthersIdle(a) /\ loc[a].request.op = "share" =>
       NotLower(a) \/ \A i \in K!Old, u \in ClientUsers : world.acl[i][u] = world.before[u]
  /\ loc[a].alone /\ loc[a].request.op = "share" /\ pc[a] \in {"put", "entries", "done"} => NotLower(a)

ClientInv ==
  /\ K!TypeOK
  /\ \A a \in Ops : ClientLocal(world, pc[a], loc[a]) /\ ClientAlone(a)
  /\ ClientMade /\ ClientAcl

-----------------------------------------------------------------------------
\* What a step leaves of the world.
WorldKept(w, v) ==
  /\ v.server = w.server /\ v.before = w.before
  /\ v.profile = w.profile \/ v.profile = K!Saved(w.profile, w.server)
  /\ \A i \in K!Ids : w.cluster[i] # Absent =>
       /\ v.cluster[i] # Absent
       /\ v.cluster[i].kind = w.cluster[i].kind /\ v.cluster[i].org = w.cluster[i].org
       /\ v.cluster[i].maker = w.cluster[i].maker
       /\ v.cluster[i].alive => w.cluster[i].alive
  /\ \A i \in K!Old : w.cluster[i] = Absent => v.cluster[i] = Absent

LEMMA ClientIds == K!Old \subseteq K!Ids /\ K!New \subseteq K!Ids /\ K!Old \cap K!New = {}
BY DEF K!Ids, K!Old, K!New

\* An old cluster that is shown was shown before.
LEMMA ShownStays ==
  ASSUME NEW w, NEW v, NEW l, NEW kind, NEW j \in K!Old, WorldKept(w, v), ShownIn(v, l, j, kind)
  PROVE  ShownIn(w, l, j, kind)
BY ClientIds DEF WorldKept, ShownIn, LiveIn

LEMMA SavedOnce ==
  ASSUME NEW p, NEW s, ~K!Asked(p)
  PROVE  K!Saved(p, s) = p
BY DEF K!Saved

\* What is known of a command stays true whatever the others do.
LEMMA LocalStays ==
  ASSUME NEW w, NEW v, NEW p, NEW l, WorldKept(w, v), ClientLocal(w, p, l)
  PROVE  ClientLocal(v, p, l)
<1>1. ClientSession(v, p, l)
  BY SavedOnce DEF ClientLocal, ClientSession, WorldKept
<1>2. \A kind : NoOld(w, l, kind) => NoOld(v, l, kind)
  BY ShownStays DEF NoOld
<1>3. \A i : May(w, l, i) => May(v, l, i) /\ v.cluster[i].kind = w.cluster[i].kind
  BY DEF May, WorldKept
<1>4. \A i, kind : (\A j \in K!Old \ {i} : ~ShownIn(w, l, j, kind)) =>
                     \A j \in K!Old \ {i} : ~ShownIn(v, l, j, kind)
  BY ShownStays
<1>5. ClientTarget(v, p, l)
  <2> USE DEF ClientTarget
  <2>1. ClientTarget(w, p, l)
    BY DEF ClientLocal
  <2>2. p \in Aimed /\ l.request.id = Absent =>
          /\ May(v, l, l.target)
          /\ l.class = "legacy" \/ v.cluster[l.target].kind = l.class
          /\ l.class = "legacy" => v.cluster[l.target].kind = "native"
          /\ l.class # "native" =>
               \A j \in K!Old \ {l.target} : ~ShownIn(v, l, j, v.cluster[l.target].kind)
    BY <2>1, <1>3, <1>4
  <2>3. p = "tkg" /\ l.class = "mixed" =>
          IF l.target = Absent THEN NoOld(v, l, "native")
          ELSE May(v, l, l.target) /\ v.cluster[l.target].kind = "native"
    BY <2>1, <1>2, <1>3
  <2>4. p \in Chosen /\ l.request.id = Absent /\ Either(l) /\ l.class \in K!Kinds =>
          \A kind \in K!Kinds \ {l.class} : NoOld(v, l, kind)
    BY <2>1, <1>2
  <2>5. p = "create" => NoOld(v, l, l.class)
    BY <2>1, <1>2
  <2> QED
    BY <2>1, <2>2, <2>3, <2>4, <2>5
<1> QED
  BY <1>1, <1>5 DEF ClientLocal

\* What the command itself keeps.
LEMMA ClientUpdate ==
  ASSUME K!TypeOK, NEW a \in Ops, NEW l \in K!Locals, K!Update(a, l)
  PROVE  /\ loc' \in [Ops -> K!Locals] /\ \A b \in Ops \ {a} : loc'[b] = loc[b]
         /\ loc'[a] = [l EXCEPT !.alone = l.alone /\ OthersIdle(a)]
<1>1. [l EXCEPT !.alone = l.alone /\ OthersIdle(a)] \in K!Locals
  BY DEF K!Locals
<1> QED
  BY <1>1 DEF K!Update, OthersIdle, K!TypeOK

\* What a command is like after a step of it to p, with local variables l.
Reached(a, p, l) ==
  /\ p \in ClientPcs \ {"idle"} /\ l \in K!Locals
  /\ l.request = loc[a].request /\ l.alone = loc[a].alone /\ (loc[a].stale => l.stale)
  /\ p \in {"put", "entries", "done"} /\ l.request.op \in {"share", "unshare"} =>
       pc[a] \in {"acl", "put", "entries"}
  /\ p = "create" => \A i \in K!Ids : ~ShownIn(world, l, i, l.class)

\* What every step of command a does: only some create clusters or change an ACL.
NoneMade(w, v) == \A i \in K!Ids : w.cluster[i] = Absent => v.cluster[i] = Absent
ClientStep(a) ==
  /\ pc[a] \notin {"idle", "done"}
  /\ world' \in K!Worlds /\ faults' \in 0..MaxFaults /\ WorldKept(world, world')
  /\ K!Create(a) \/ NoneMade(world, world')
  /\ K!PutAcl(a) \/ K!PutEntry(a) \/ world'.acl = world.acl
  /\ \E p, l : /\ Reached(a, p, l) /\ K!Goto(a, p) /\ K!Update(a, l) /\ ClientLocal(world', p, l)
               /\ p = "create" => world' = world

LEMMA ReachedFailed ==
  ASSUME NEW a, NEW l \in K!Locals, l.request = loc[a].request, l.alone = loc[a].alone,
         loc[a].stale => l.stale
  PROVE  Reached(a, "failed", l)
BY DEF Reached, ClientPcs

\* The facts of a step that are about the world alone.
LEMMA KeptSame == ASSUME NEW w PROVE WorldKept(w, w) /\ NoneMade(w, w)
BY DEF WorldKept, NoneMade

LEMMA KeptSaved ==
  ASSUME NEW w \in K!Worlds, NEW v, v = [w EXCEPT !.profile = K!Saved(w.profile, w.server)]
  PROVE  v \in K!Worlds /\ WorldKept(w, v) /\ NoneMade(w, v) /\ v.acl = w.acl
<1>1. K!Saved(w.profile, w.server) \in K!Profiles
  BY DEF K!Saved, K!Worlds, K!Profiles
<1> QED
  BY <1>1 DEF WorldKept, NoneMade, K!Worlds

LEMMA KeptGone ==
  ASSUME NEW w \in K!Worlds, NEW i \in K!Ids, LiveIn(w, i), NEW v,
         v = [w EXCEPT !.cluster[i].alive = FALSE]
  PROVE  v \in K!Worlds /\ WorldKept(w, v) /\ NoneMade(w, v) /\ v.acl = w.acl
<1>1. w.cluster \in [K!Ids -> K!Clusters \cup {Absent}] /\ w.cluster[i] \in K!Clusters
  BY DEF K!Worlds, LiveIn
<1> DEFINE c == [w.cluster[i] EXCEPT !.alive = FALSE]
<1>2. /\ c \in K!Clusters /\ c.kind = w.cluster[i].kind /\ c.org = w.cluster[i].org
      /\ c.maker = w.cluster[i].maker /\ c.alive = FALSE /\ c # Absent
  BY <1>1, ClientAssumption DEF K!Clusters
<1> HIDE DEF c
<1>3. v = [w EXCEPT !.cluster = [w.cluster EXCEPT ![i] = c]]
  BY DEF c
<1>4. v.cluster = [w.cluster EXCEPT ![i] = c] /\ v.cluster \in [K!Ids -> K!Clusters \cup {Absent}]
      /\ v \in K!Worlds
  <2> DEFINE d == [w.cluster EXCEPT ![i] = c]
  <2>1. d \in [K!Ids -> K!Clusters \cup {Absent}]
    BY <1>1, <1>2
  <2> HIDE DEF d
  <2>2. v = [w EXCEPT !.cluster = d]
    BY <1>3 DEF d
  <2>3. v.cluster = d /\ v \in K!Worlds
    BY <2>1, <2>2 DEF K!Worlds
  <2> QED
    BY <2>1, <2>3 DEF d
<1>5. v.server = w.server /\ v.before = w.before /\ v.profile = w.profile /\ v.acl = w.acl
  BY <1>3 DEF K!Worlds
<1>6. \A j \in K!Ids : v.cluster[j] = IF j = i THEN c ELSE w.cluster[j]
  BY <1>1, <1>4
<1>7. ASSUME NEW j \in K!Ids, w.cluster[j] # Absent
      PROVE  /\ v.cluster[j] # Absent
             /\ v.cluster[j].kind = w.cluster[j].kind /\ v.cluster[j].org = w.cluster[j].org
             /\ v.cluster[j].maker = w.cluster[j].maker
             /\ v.cluster[j].alive => w.cluster[j].alive
  <2>1. CASE j = i
    BY <1>2, <1>6, <2>1
  <2>2. CASE j # i
    BY <1>6, <1>7, <2>2
  <2> QED
    BY <2>1, <2>2
<1>8. \A j \in K!Ids : w.cluster[j] = Absent => v.cluster[j] = Absent
  BY <1>6 DEF LiveIn
<1> QED
  BY <1>4, <1>5, <1>7, <1>8, ClientIds DEF WorldKept, NoneMade

LEMMA KeptAcl ==
  ASSUME NEW w \in K!Worlds, NEW i \in K!Ids, NEW acl \in K!Acl, NEW v,
         v = [w EXCEPT !.acl[i] = acl]
  PROVE  /\ v \in K!Worlds /\ WorldKept(w, v) /\ NoneMade(w, v) /\ v.cluster = w.cluster
         /\ \A j \in K!Ids : v.acl[j] = IF j = i THEN acl ELSE w.acl[j]
<1>1. w.acl \in [K!Ids -> K!Acl]
  BY DEF K!Worlds
<1>2. v \in K!Worlds /\ v.cluster = w.cluster /\ v.server = w.server /\ v.before = w.before
      /\ v.profile = w.profile /\ v.acl = [w.acl EXCEPT ![i] = acl]
  BY <1>1 DEF K!Worlds
<1> QED
  BY <1>1, <1>2 DEF WorldKept, NoneMade

\* A call that is made, or not, and what may come of it.
LEMMA Called ==
  ASSUME K!TypeOK, MaxFaults \in Nat, NEW a, NEW w, NEW p, NEW q, K!Call(a, w, p, q)
  PROVE  /\ faults' \in 0..MaxFaults /\ world' \in {world, w}
         /\ (K!Goto(a, p) /\ world' = w) \/ K!Goto(a, q)
BY DEF K!Call, K!Fault, K!TypeOK
LEMMA Queried ==
  ASSUME K!TypeOK, MaxFaults \in Nat, NEW a, NEW p, NEW q, K!Query(a, p, q)
  PROVE  faults' \in 0..MaxFaults /\ world' = world /\ (K!Goto(a, p) \/ K!Goto(a, q))
BY DEF K!Query, K!Fault, K!TypeOK
LEMMA Stepped ==
  ASSUME K!TypeOK, NEW a, NEW p, K!Step(a, p)
  PROVE  faults' \in 0..MaxFaults /\ world' = world /\ K!Goto(a, p)
BY DEF K!Step, K!TypeOK

\* Of a command that has failed, or has not begun, nothing more is known.
LEMMA LocalFailed ==
  ASSUME NEW w, NEW l, ClientAsks(l.request), NEW p \in {"idle", "filter", "failed"}
  PROVE  ClientLocal(w, p, l)
BY DEF ClientLocal, ClientPcs, ClientSession, ClientClass, ClientTarget, Chosen, Aimed

\* What is known of a command whose cluster is known, while it is at work on it.
LEMMA LocalAimed ==
  ASSUME NEW w, NEW p \in Aimed, NEW q \in Aimed, NEW l, NEW m, ClientLocal(w, p, l),
         m.request = l.request, m.session = l.session, m.class = l.class, m.org = l.org,
         m.target = l.target, m.raw = l.raw, l.class \in K!Kinds,
         q \in {"acl", "put", "entries"} => l.request.op \in {"share", "unshare"},
         q = "put" => l.class = "native", q = "entries" => l.class = "TKG-S"
  PROVE  ClientLocal(w, q, m)
<1>1. ClientAsks(m.request) /\ ClientSession(w, q, m)
  BY DEF ClientLocal, ClientSession, Aimed, Chosen
<1>2. ClientClass(q, m)
  BY ClientAssumption DEF ClientLocal, ClientClass, Aimed, Chosen, K!Runtime, K!Kinds
<1>3. \A i, kind : ShownIn(w, m, i, kind) <=> ShownIn(w, l, i, kind)
  BY DEF ShownIn
<1>4. Either(m) <=> Either(l)
  BY DEF Either, K!Runtime
<1>5. \A i : May(w, m, i) <=> May(w, l, i)
  BY DEF May
<1>6. ClientTarget(w, q, m)
  BY <1>3, <1>4, <1>5, ClientAssumption DEF ClientLocal, ClientTarget, Aimed, Chosen, NoOld, K!Kinds
<1> QED
  BY <1>1, <1>2, <1>6 DEF ClientLocal, ClientPcs, Aimed

LEMMA SearchIs ==
  ASSUME NEW l, NEW kind
  PROVE  K!Search(l, kind) = {i \in K!Ids : ShownIn(world, l, i, kind)}
BY DEF K!Search, K!Shown, K!Live, ShownIn, LiveIn

\* The session is one of those known, and saving the profile does not change it.
LEMMA SessionKnown ==
  ASSUME NEW w \in K!Worlds
  PROVE  /\ K!SessionOf(w.profile, w.server) \in {"legacy", "full", "TKG-S"}
         /\ ~K!Asked(K!Saved(w.profile, w.server))
         /\ K!SessionOf(K!Saved(w.profile, w.server), w.server) = K!SessionOf(w.profile, w.server)
<1>1. w.profile \in K!Profiles /\ w.server \in {"down", "legacy", "full"}
  BY DEF K!Worlds
<1>2. w.profile.running \in BOOLEAN /\ w.profile.version \in {"legacy", "full", Absent}
  BY <1>1 DEF K!Profiles
<1>3. CASE K!Asked(w.profile)
  <2> DEFINE q == K!Saved(w.profile, w.server)
  <2>1. q = [running |-> w.server # "down",
             version |-> IF w.server = "down" THEN Absent ELSE w.server]
    BY <1>3 DEF K!Saved
  <2>2. /\ q.running = (w.server # "down")
        /\ q.version = IF w.server = "down" THEN Absent ELSE w.server
    BY <2>1
  <2>3. K!SessionOf(w.profile, w.server) = IF w.server = "down" THEN "TKG-S" ELSE w.server
    BY <1>1, <1>3 DEF K!SessionOf, K!Asked
  <2> HIDE DEF q
  <2>4. ~K!Asked(q) /\ K!SessionOf(q, w.server) = IF w.server = "down" THEN "TKG-S" ELSE w.server
    BY <1>1, <2>2, ClientAssumption DEF K!SessionOf, K!Asked
  <2> QED
    BY <1>1, <2>3, <2>4 DEF q
<1>4. CASE ~K!Asked(w.profile)
  BY <1>1, <1>2, <1>4, ClientAssumption DEF K!SessionOf, K!Asked, K!Saved
<1> QED
  BY <1>3, <1>4

LEMMA FilterStep ==
  ASSUME K!TypeOK, NEW a \in Ops, ClientLocal(world, pc[a], loc[a]), K!Filter(a)
  PROVE  ClientStep(a)
<1> DEFINE s == K!SessionOf(world.profile, world.server)
           v == [world EXCEPT !.profile = K!Saved(world.profile, world.server)]
           p == IF K!Hidden(s, loc[a].request) THEN "failed" ELSE "session"
           l == [loc[a] EXCEPT !.session = s]
           m == [loc[a] EXCEPT !.raw = TRUE]
<1>1. loc[a] \in K!Locals /\ world \in K!Worlds /\ ClientAsks(loc[a].request)
      /\ faults \in 0..MaxFaults /\ MaxFaults \in Nat /\ pc[a] = "filter"
  BY ThreadsAssumption DEF K!TypeOK, ClientLocal, K!Filter
<1>2. s \in {"legacy", "full", "TKG-S"} /\ ~K!Asked(K!Saved(world.profile, world.server))
      /\ K!SessionOf(K!Saved(world.profile, world.server), world.server) = s
  BY <1>1, SessionKnown
<1>3. v \in K!Worlds /\ WorldKept(world, v) /\ v.profile = K!Saved(world.profile, world.server)
      /\ v.server = world.server /\ NoneMade(world, v) /\ v.acl = world.acl
  BY <1>1, KeptSaved DEF K!Worlds
<1>4. /\ l \in K!Locals /\ l.request = loc[a].request /\ l.stale = loc[a].stale
      /\ l.alone = loc[a].alone /\ l.session = s /\ l.raw = loc[a].raw
  BY <1>1, <1>2 DEF K!Locals
<1>5. /\ m \in K!Locals /\ m.request = loc[a].request /\ m.stale = loc[a].stale
      /\ m.alone = loc[a].alone /\ m.raw = TRUE
  BY <1>1 DEF K!Locals
<1>6. \/ /\ world' = v /\ K!Goto(a, p) /\ UNCHANGED faults /\ K!Update(a, l)
      \/ K!Goto(a, "session") /\ K!Fault /\ UNCHANGED world /\ K!Update(a, m)
  BY DEF K!Filter
<1> HIDE DEF s, v, l, m
<1>7. CASE world' = v /\ K!Goto(a, p) /\ UNCHANGED faults /\ K!Update(a, l)
  <2>1. ClientLocal(v, "session", l) \/ p = "failed"
    BY <1>1, <1>2, <1>3, <1>4
    DEF ClientLocal, ClientPcs, ClientSession, ClientClass, ClientTarget, Chosen, Aimed
  <2>2. p \in {"session", "failed"} /\ ClientLocal(v, p, l)
    BY <2>1, <1>1, <1>4, LocalFailed
  <2> QED
    BY <2>2, <1>1, <1>3, <1>4, <1>7 DEF ClientStep, ClientPcs, Reached
<1>8. CASE K!Goto(a, "session") /\ K!Fault /\ UNCHANGED world /\ K!Update(a, m)
  <2>1. ClientLocal(world, "session", m)
    BY <1>1, <1>5
    DEF ClientLocal, ClientPcs, ClientSession, ClientClass, ClientTarget, Chosen, Aimed
  <2>2. faults' \in 0..MaxFaults
    BY <1>1, <1>8 DEF K!Fault
  <2> QED
    BY <2>1, <2>2, <1>1, <1>5, <1>8, KeptSame DEF ClientStep, ClientPcs, Reached
<1> QED
  BY <1>6, <1>7, <1>8

LEMMA SessionStep ==
  ASSUME K!TypeOK, NEW a \in Ops, ClientLocal(world, pc[a], loc[a]), K!Session(a)
  PROVE  ClientStep(a)
<1> DEFINE s == K!SessionOf(world.profile, world.server)
           v == [world EXCEPT !.profile = K!Saved(world.profile, world.server)]
           l == [loc[a] EXCEPT !.session = s]
<1>1. loc[a] \in K!Locals /\ world \in K!Worlds /\ ClientAsks(loc[a].request)
      /\ MaxFaults \in Nat /\ pc[a] = "session" /\ ClientSession(world, "session", loc[a])
  BY ThreadsAssumption DEF K!TypeOK, ClientLocal, K!Session
<1>2. s \in {"legacy", "full", "TKG-S"} /\ ~K!Asked(K!Saved(world.profile, world.server))
      /\ K!SessionOf(K!Saved(world.profile, world.server), world.server) = s
  BY <1>1, SessionKnown
<1>3. v \in K!Worlds /\ WorldKept(world, v) /\ v.profile = K!Saved(world.profile, world.server)
      /\ v.server = world.server /\ NoneMade(world, v) /\ v.acl = world.acl
  BY <1>1, KeptSaved DEF K!Worlds
<1>4. /\ l \in K!Locals /\ l.request = loc[a].request /\ l.stale = loc[a].stale
      /\ l.alone = loc[a].alone /\ l.session = s /\ l.raw = loc[a].raw
  BY <1>1, <1>2 DEF K!Locals
<1>5. K!Call(a, v, "choose", "failed") /\ K!Update(a, l)
  BY DEF K!Session
<1> HIDE DEF v, l
<1>6. ClientLocal(v, "choose", l)
  <2>1. ClientSession(v, "choose", l)
    BY <1>1, <1>2, <1>3, <1>4, ClientAssumption DEF ClientSession, Chosen, K!Kinds
  <2> QED
    BY <2>1, <1>1, <1>4 DEF ClientLocal, ClientPcs, ClientClass, ClientTarget, Chosen, Aimed
<1>7. /\ faults' \in 0..MaxFaults /\ world' \in {world, v}
      /\ (K!Goto(a, "choose") /\ world' = v) \/ K!Goto(a, "failed")
  BY <1>1, <1>5, Called
<1>8. \A w : ClientLocal(w, "failed", l)
  BY <1>1, <1>4, LocalFailed
<1> QED
  BY <1>1, <1>3, <1>4, <1>5, <1>6, <1>7, <1>8, KeptSame DEF ClientStep, ClientPcs, Reached

LEMMA KeepSessionStep ==
  ASSUME K!TypeOK, NEW a \in Ops, ClientLocal(world, pc[a], loc[a]), K!KeepSession(a)
  PROVE  ClientStep(a)
<1> DEFINE l == [loc[a] EXCEPT !.session = "full"]
<1>1. loc[a] \in K!Locals /\ world \in K!Worlds /\ ClientAsks(loc[a].request)
      /\ pc[a] = "session" /\ ClientSession(world, "session", loc[a])
  BY DEF K!TypeOK, ClientLocal, K!KeepSession
<1>2. /\ l \in K!Locals /\ l.request = loc[a].request /\ l.stale = loc[a].stale
      /\ l.alone = loc[a].alone /\ l.session = "full" /\ l.raw = loc[a].raw
  BY <1>1 DEF K!Locals
<1>3. \/ loc[a].raw /\ \E p \in {"choose", "failed"} : K!Step(a, p) /\ K!Update(a, l)
      \/ ~loc[a].raw /\ K!Step(a, "choose") /\ K!Update(a, loc[a])
  BY DEF K!KeepSession
<1> HIDE DEF l
<1>4. CASE loc[a].raw /\ \E p \in {"choose", "failed"} : K!Step(a, p) /\ K!Update(a, l)
  <2>1. PICK p \in {"choose", "failed"} : K!Step(a, p) /\ K!Update(a, l)
    BY <1>4
  <2>2. ClientLocal(world, p, l)
    BY <1>1, <1>2, <1>4, ClientAssumption
    DEF ClientLocal, ClientPcs, ClientSession, ClientClass, ClientTarget, Chosen, Aimed
  <2> QED
    BY <2>1, <2>2, <1>1, <1>2, Stepped, KeptSame DEF ClientStep, ClientPcs, Reached
<1>5. CASE ~loc[a].raw /\ K!Step(a, "choose") /\ K!Update(a, loc[a])
  <2>1. loc[a].session \in {"legacy", "full", "TKG-S"}
    BY <1>1, <1>5, SessionKnown DEF ClientSession
  <2>2. ClientLocal(world, "choose", loc[a])
    BY <2>1, <1>1, <1>5, ClientAssumption
    DEF K!Kinds, ClientLocal, ClientPcs, ClientSession, ClientClass, ClientTarget, Chosen, Aimed
  <2> QED
    BY <2>2, <1>1, <1>5, Stepped, KeptSame DEF ClientStep, ClientPcs, Reached
<1> QED
  BY <1>3, <1>4, <1>5

\* The request of a command, its parts and their kinds.
LEMMA RequestParts ==
  ASSUME NEW l \in K!Locals
  PROVE  /\ l.request \in K!Requests /\ l.request.op \in K!Commands
         /\ l.request.runtime \in {"native", "TKG-S", Absent} /\ l.request.id \in K!Ids \cup {Absent}
         /\ l.request.org \in {"own", "other", Absent} /\ l.request.sysadmin \in BOOLEAN
         /\ l.request.users \subseteq ClientUsers /\ l.request.level \in K!Level
         /\ l.session \in {"legacy", "full", "TKG-S", Absent} /\ l.raw \in BOOLEAN
         /\ l.class \in {"legacy", "native", "TKG-S", "mixed", Absent}
         /\ l.target \in K!Ids \cup {Absent} /\ l.read \in K!Acl /\ l.todo \subseteq ClientUsers
         /\ l.stale \in BOOLEAN /\ l.alone \in BOOLEAN
BY DEF K!Locals, K!Requests, K!Kinds, K!Orgs

\* No value is none of the names.
LEMMA NoName == Absent \notin {"native", "TKG-S", "own", "other", "legacy", "full", "mixed", 1, 2, 3, 4}
BY ClientAssumption DEF K!Kinds, K!Orgs, K!Ids, K!Old, K!New

\* Which class serves a command, and what follows.
LEMMA ClassIs ==
  ASSUME NEW l \in K!Locals, ClientAsks(l.request), l.session # Absent,
         NEW class, class = IF l.request.op = "nfs" THEN "native" ELSE K!ClassOf(l.session, K!Runtime(l)),
         ~K!ServerNotRunning(l), ~K!Unsupported(class, l.request.op)
  PROVE  /\ class \in {"legacy", "native", "TKG-S", "mixed"}
         /\ class = "legacy" => l.session = "legacy" /\ l.request.op \notin K!AclCommands \cup {"apply"}
         /\ class = "mixed" => l.session = "full" /\ K!Runtime(l) = Absent
                               /\ l.request.op \notin {"apply", "create"}
         /\ class \in K!Kinds => l.request.runtime \in {Absent, class} /\ l.request.op # "create"
         /\ l.session = "TKG-S" => class = "TKG-S" \/ l.request.op = "nfs"
         /\ l.session = "legacy" => class = "legacy" \/ l.request.op = "nfs"
         /\ l.request.op = "apply" => class = l.request.runtime
         /\ Either(l) => class \notin K!Kinds
BY RequestParts, NoName
DEF ClientAsks, K!ClassOf, K!Runtime, K!ServerNotRunning, K!Unsupported, K!Kinds, K!AclCommands, Either

\* A step that makes no call, or one that changes nothing.
LEMMA StepTo ==
  ASSUME K!TypeOK, NEW a \in Ops, pc[a] \notin {"idle", "done"}, ClientAsks(loc[a].request),
         NEW p, NEW l, Reached(a, p, l), K!Update(a, l),
         ClientLocal(world, p, l), K!Step(a, p) \/ K!Query(a, p, "failed")
  PROVE  ClientStep(a)
<1>1. /\ world \in K!Worlds /\ MaxFaults \in Nat /\ ClientLocal(world, "failed", l)
      /\ Reached(a, "failed", l)
  BY ThreadsAssumption, LocalFailed, ReachedFailed DEF K!TypeOK, Reached
<1>2. faults' \in 0..MaxFaults /\ world' = world /\ (K!Goto(a, p) \/ K!Goto(a, "failed"))
  BY <1>1, Stepped, Queried
<1> QED
  BY <1>1, <1>2, KeptSame DEF ClientStep

LEMMA ChooseStep ==
  ASSUME K!TypeOK, NEW a \in Ops, ClientLocal(world, pc[a], loc[a]), K!Choose(a)
  PROVE  ClientStep(a)
<1> DEFINE l == loc[a]
           r == l.request
           class == IF r.op = "nfs" THEN "native" ELSE K!ClassOf(l.session, K!Runtime(l))
           filter == CASE r.op = "apply" -> K!ApplyOrg(r, class)
                       [] r.op = "create" -> K!CreateOrg(r)
                       [] OTHER -> K!TenantOrg(r)
           refused == K!ServerNotRunning(l) \/ K!OrgMissing(r) \/ K!Unsupported(class, r.op)
           p == IF refused THEN "failed"
                ELSE IF class = "legacy" THEN "legacy"
                ELSE IF r.id # Absent THEN IF class = "mixed" THEN "kind" ELSE "found"
                ELSE IF class = "TKG-S" THEN "tkg" ELSE "native"
           m == [l EXCEPT !.class = class, !.org = filter, !.target = r.id]
<1>1. /\ l \in K!Locals /\ world \in K!Worlds /\ ClientAsks(r) /\ l.session # Absent
      /\ pc[a] = "choose" /\ ClientSession(world, "choose", l)
  BY DEF K!TypeOK, ClientLocal, K!Choose, ClientSession
<1>2. K!Update(a, m) /\ K!Step(a, p)
  BY DEF K!Choose
<1>3. class \in {"legacy", "native", "TKG-S", "mixed", Absent}
  BY <1>1, RequestParts DEF K!ClassOf, K!Runtime
<1>4. filter \in {"own", "other", Absent}
  BY <1>1, RequestParts DEF K!ApplyOrg, K!CreateOrg, K!TenantOrg
<1>5. /\ m \in K!Locals /\ m.request = r /\ m.stale = l.stale /\ m.alone = l.alone /\ m.raw = l.raw
      /\ m.session = l.session /\ m.class = class /\ m.org = filter /\ m.target = r.id
  <2> HIDE DEF class, filter
  <2> QED
    BY <1>1, <1>3, <1>4, RequestParts DEF K!Locals, K!Orgs
<1>6. CASE refused
  <2>1. K!Step(a, "failed")
    BY <1>2, <1>6
  <2> HIDE DEF class, filter, m, p, refused
  <2> QED
    BY <1>1, <1>2, <1>5, <2>1, LocalFailed, ReachedFailed, StepTo
<1>7. CASE ~refused
  <2>1. /\ class \in {"legacy", "native", "TKG-S", "mixed"}
        /\ class = "legacy" => l.session = "legacy" /\ r.op \notin K!AclCommands \cup {"apply"}
        /\ class = "mixed" => l.session = "full" /\ K!Runtime(l) = Absent
                              /\ r.op \notin {"apply", "create"}
        /\ class \in K!Kinds => r.runtime \in {Absent, class} /\ r.op # "create"
        /\ l.session = "TKG-S" => class = "TKG-S" \/ r.op = "nfs"
        /\ l.session = "legacy" => class = "legacy" \/ r.op = "nfs"
        /\ r.op = "apply" => class = r.runtime
        /\ Either(l) => class \notin K!Kinds
    BY <1>1, <1>7, ClassIs
  <2>2. /\ p = IF class = "legacy" THEN "legacy"
               ELSE IF r.id # Absent THEN IF class = "mixed" THEN "kind" ELSE "found"
               ELSE IF class = "TKG-S" THEN "tkg" ELSE "native"
    BY <1>7
  <2>3. filter = FilterOf(r)
    BY <2>1 DEF FilterOf
  <2> HIDE DEF class, filter, p, m, refused
  <2>4. K!Runtime(m) = K!Runtime(l) /\ (Either(m) <=> Either(l))
    BY <1>5 DEF K!Runtime, Either
  <2>5. ClientSession(world, p, m)
    BY <1>1, <1>5, <2>2 DEF ClientSession
  <2>6. class = "legacy" => r.runtime = Absent \/ l.raw
    BY <1>1, <2>1 DEF ClientSession, K!Hidden
  <2>7. ClientClass(p, m)
    BY <1>5, <2>1, <2>2, <2>3, <2>4, <2>6, NoName DEF ClientClass, K!Kinds
  <2>8. ClientTarget(world, p, m)
    BY <1>5, <2>1, <2>2, <2>4, NoName DEF ClientTarget, Aimed, Chosen
  <2>9. p \in ClientPcs /\ ClientLocal(world, p, m)
    BY <1>1, <1>5, <2>2, <2>5, <2>7, <2>8 DEF ClientLocal, ClientPcs
  <2>10. Reached(a, p, m)
    BY <1>1, <1>5, <2>2 DEF Reached, ClientPcs
  <2> QED
    BY <1>1, <1>2, <2>9, <2>10, StepTo
<1> QED
  BY <1>6, <1>7

LEMMA KindByIdStep ==
  ASSUME K!TypeOK, NEW a \in Ops, ClientLocal(world, pc[a], loc[a]), K!KindById(a)
  PROVE  ClientStep(a)
<1> DEFINE l == loc[a]
           kind == world.cluster[l.target].kind
           m == [l EXCEPT !.class = kind]
<1>1. /\ l \in K!Locals /\ world \in K!Worlds /\ ClientAsks(l.request) /\ MaxFaults \in Nat
      /\ pc[a] = "kind" /\ ClientSession(world, "kind", l) /\ ClientClass("kind", l)
      /\ ClientTarget(world, "kind", l)
  BY ThreadsAssumption DEF K!TypeOK, ClientLocal, K!KindById
<1>2. /\ l.class = "mixed" /\ l.session = "full" /\ K!Runtime(l) = Absent
      /\ l.request.op \notin {"apply", "create"} /\ l.request.id # Absent /\ l.target = l.request.id
      /\ l.org = FilterOf(l.request)
  BY <1>1, RequestParts DEF ClientClass, ClientTarget, Chosen, K!Kinds
<1>3. CASE K!Live(l.target)
  <2>1. K!Update(a, m) /\ K!Query(a, "found", "failed")
    BY <1>3 DEF K!KindById
  <2>2. kind \in {"native", "TKG-S"}
    BY <1>1, <1>2, <1>3, RequestParts DEF K!Live, K!Worlds, K!Clusters, K!Kinds
  <2>3. /\ m \in K!Locals /\ m.request = l.request /\ m.stale = l.stale /\ m.alone = l.alone
        /\ m.raw = l.raw /\ m.session = l.session /\ m.class = kind /\ m.org = l.org
        /\ m.target = l.target
    <3> HIDE DEF kind
    <3> QED
      BY <1>1, <2>2 DEF K!Locals
  <2> HIDE DEF kind, m
  <2>4. l.request.runtime = Absent
    BY <1>1, <1>2, NoName DEF K!Runtime, ClientAsks
  <2>5. ClientSession(world, "found", m)
    BY <1>1, <2>3 DEF ClientSession, Chosen
  <2>6. ClientClass("found", m)
    BY <1>2, <2>2, <2>3, <2>4, NoName DEF ClientClass, K!Kinds
  <2>7. ClientTarget(world, "found", m)
    BY <1>2, <2>2, <2>3 DEF ClientTarget
  <2>8. ClientLocal(world, "found", m) /\ ClientLocal(world, "failed", m)
    BY <1>1, <2>3, <2>5, <2>6, <2>7, LocalFailed DEF ClientLocal, ClientPcs
  <2>9. Reached(a, "found", m)
    BY <1>1, <2>3 DEF Reached, ClientPcs
  <2> QED
    BY <1>1, <2>1, <2>8, <2>9, StepTo
<1>4. CASE ~K!Live(l.target)
  <2>1. K!Update(a, l) /\ K!Step(a, "failed")
    BY <1>4 DEF K!KindById
  <2> QED
    BY <1>1, <2>1, LocalFailed, ReachedFailed, StepTo
<1> QED
  BY <1>3, <1>4

\* A cluster that a search shows the user may act on.
LEMMA MayShown ==
  ASSUME NEW w, NEW l, NEW i \in K!Ids, NEW kind, ShownIn(w, l, i, kind)
  PROVE  May(w, l, i) /\ w.cluster[i].kind = kind
BY DEF ShownIn, May, LiveIn

LEMMA NoneShown ==
  ASSUME NEW l, NEW kind, K!Search(l, kind) = {}
  PROVE  NoOld(world, l, kind)
BY SearchIs, ClientIds DEF NoOld

LEMMA FindNativeStep ==
  ASSUME K!TypeOK, NEW a \in Ops, ClientLocal(world, pc[a], loc[a]), K!FindNative(a)
  PROVE  ClientStep(a)
<1> DEFINE l == loc[a]
           r == l.request
           ids == K!Search(l, "native")
           denied == "native" \notin r.rights
           p == IF l.class = "mixed" THEN "tkg"
                ELSE IF denied THEN "failed"
                ELSE IF ids # {} THEN "found"
                ELSE IF r.op = "apply" THEN "create" ELSE "failed"
           d == l.denied \cup IF denied THEN {"native"} ELSE {}
           m(i) == [l EXCEPT !.target = i, !.denied = d]
<1>1. /\ l \in K!Locals /\ world \in K!Worlds /\ ClientAsks(r)
      /\ pc[a] = "native" /\ ClientSession(world, "native", l) /\ ClientClass("native", l)
      /\ ClientTarget(world, "native", l)
  BY DEF K!TypeOK, ClientLocal, K!FindNative
<1>2. PICK i \in IF ids = {} THEN {Absent} ELSE ids : K!Update(a, m(i))
  BY DEF K!FindNative
<1>3. K!Query(a, p, "failed")
  BY DEF K!FindNative
<1>4. l.class \in {"native", "mixed"} /\ l.org = FilterOf(r) /\ r.id = Absent
  BY <1>1, RequestParts, NoName DEF ClientClass, ClientTarget, Chosen, K!Kinds
<1>5. /\ ids = {j \in K!Ids : ShownIn(world, l, j, "native")}
      /\ ids = {} => i = Absent /\ NoOld(world, l, "native")
      /\ ids # {} => i \in K!Ids /\ May(world, l, i) /\ world.cluster[i].kind = "native" /\ i # Absent
  BY <1>2, SearchIs, NoneShown, MayShown, ClientAssumption
<1>6. /\ m(i) \in K!Locals /\ m(i).request = r /\ m(i).stale = l.stale /\ m(i).alone = l.alone
      /\ m(i).raw = l.raw /\ m(i).session = l.session /\ m(i).class = l.class /\ m(i).org = l.org
      /\ m(i).target = i
  <2>1. d \subseteq K!Kinds
    BY <1>1 DEF K!Locals, K!Kinds
  <2> HIDE DEF d
  <2> QED
    BY <1>1, <1>5, <2>1 DEF K!Locals
<1> DEFINE n == m(i)
<1>7. CASE p = "failed"
  <2> HIDE DEF m, p, ids, d
  <2> QED
    BY <1>1, <1>2, <1>3, <1>6, <1>7, LocalFailed, ReachedFailed, StepTo
<1>8. CASE p # "failed"
  <2>1. \/ p = "tkg" /\ l.class = "mixed"
        \/ p = "found" /\ l.class = "native" /\ ids # {}
        \/ p = "create" /\ l.class = "native" /\ ids = {} /\ r.op = "apply"
    BY <1>4, <1>8
  <2>11. p = "create" => \A j \in K!Ids : ~ShownIn(world, l, j, l.class)
    BY <1>5, <2>1
  <2> HIDE DEF m, p, d, ids
  <2>2. /\ n \in K!Locals /\ n.request = r /\ n.stale = l.stale /\ n.alone = l.alone
        /\ n.raw = l.raw /\ n.session = l.session /\ n.class = l.class /\ n.org = l.org
        /\ n.target = i
    BY <1>6
  <2> HIDE DEF n
  <2>3. /\ K!Runtime(n) = K!Runtime(l) /\ (Either(n) <=> Either(l))
        /\ \A j, kind : ShownIn(world, n, j, kind) <=> ShownIn(world, l, j, kind)
        /\ May(world, n, i) <=> May(world, l, i)
    BY <2>2 DEF K!Runtime, Either, ShownIn, May
  <2>4. \A kind : NoOld(world, n, kind) <=> NoOld(world, l, kind)
    BY <2>3 DEF NoOld
  <2>5. ClientSession(world, p, n)
    BY <1>1, <2>1, <2>2 DEF ClientSession, Chosen
  <2>6. ClientClass(p, n)
    BY <1>1, <1>4, <2>1, <2>2, <2>3, NoName DEF ClientClass, Chosen, K!Kinds
  <2>7. ClientTarget(world, p, n)
    <3>1. CASE p = "tkg" /\ l.class = "mixed"
      BY <1>4, <1>5, <2>2, <2>3, <2>4, <3>1 DEF ClientTarget, Aimed, K!Kinds
    <3>2. CASE p = "found" /\ l.class = "native" /\ ids # {}
      BY <1>1, <1>4, <1>5, <2>2, <2>3, <2>4, <3>2 DEF ClientTarget, Aimed, Chosen, K!Kinds
    <3>3. CASE p = "create" /\ l.class = "native" /\ ids = {}
      BY <1>1, <1>4, <1>5, <2>2, <2>3, <2>4, <3>3 DEF ClientTarget, Aimed, Chosen, K!Kinds
    <3> QED
      BY <2>1, <3>1, <3>2, <3>3
  <2>8. ClientLocal(world, p, n)
    BY <1>1, <2>1, <2>2, <2>5, <2>6, <2>7 DEF ClientLocal, ClientPcs
  <2>9. K!Update(a, n)
    BY <1>2 DEF n
  <2>10. Reached(a, p, n)
    BY <1>1, <2>1, <2>2, <2>3, <2>11 DEF Reached, ClientPcs
  <2> QED
    BY <1>1, <1>3, <2>8, <2>9, <2>10, StepTo
<1> QED
  BY <1>7, <1>8

LEMMA FindTkgSStep ==
  ASSUME K!TypeOK, NEW a \in Ops, ClientLocal(world, pc[a], loc[a]), K!FindTkgS(a)
  PROVE  ClientStep(a)
<1> DEFINE l == loc[a]
           r == l.request
           ids == K!Search(l, "TKG-S")
           denied == l.denied \cup ({"TKG-S"} \ r.rights)
           mixed == l.class = "mixed"
           p == IF \E j, k \in ids : j # k THEN "failed"
                ELSE IF mixed THEN K!NextMixed(l, ids, denied) ELSE K!NextTkgS(l, ids, denied)
           class == IF mixed THEN (IF ids = {} THEN "native" ELSE "TKG-S") ELSE "TKG-S"
           m(i) == [l EXCEPT !.target = i, !.denied = denied, !.class = class]
<1>1. /\ l \in K!Locals /\ world \in K!Worlds /\ ClientAsks(r)
      /\ pc[a] = "tkg" /\ ClientSession(world, "tkg", l) /\ ClientClass("tkg", l)
      /\ ClientTarget(world, "tkg", l)
  BY DEF K!TypeOK, ClientLocal, K!FindTkgS
<1>2. PICK i \in IF ids = {} THEN {l.target} ELSE ids : K!Update(a, m(i))
  BY DEF K!FindTkgS
<1>3. K!Query(a, p, "failed")
  BY DEF K!FindTkgS
<1>4. l.class \in {"TKG-S", "mixed"} /\ l.org = FilterOf(r) /\ r.id = Absent
  BY <1>1, RequestParts, NoName DEF ClientClass, ClientTarget, Chosen, K!Kinds
<1>5. /\ ids = {j \in K!Ids : ShownIn(world, l, j, "TKG-S")}
      /\ ids = {} => i = l.target /\ NoOld(world, l, "TKG-S")
      /\ ids # {} => i \in K!Ids /\ May(world, l, i) /\ world.cluster[i].kind = "TKG-S"
  BY <1>2, SearchIs, NoneShown, MayShown
<1>6. i \in K!Ids \cup {Absent} /\ class \in {"native", "TKG-S"}
  BY <1>1, <1>5, RequestParts
<1>7. /\ m(i) \in K!Locals /\ m(i).request = r /\ m(i).stale = l.stale /\ m(i).alone = l.alone
      /\ m(i).raw = l.raw /\ m(i).session = l.session /\ m(i).class = class /\ m(i).org = l.org
      /\ m(i).target = i
  <2>1. denied \subseteq K!Kinds
    BY <1>1 DEF K!Locals, K!Kinds
  <2> HIDE DEF denied, class
  <2> QED
    BY <1>1, <1>6, <2>1 DEF K!Locals
<1> DEFINE n == m(i)
<1>8. CASE p = "failed"
  <2> HIDE DEF m, p, ids, class
  <2> QED
    BY <1>1, <1>2, <1>3, <1>7, <1>8, LocalFailed, ReachedFailed, StepTo
<1>9. CASE p # "failed"
  <2>1. ~\E j, k \in ids : j # k
    BY <1>9
  <2>2. \/ /\ l.class = "TKG-S" /\ class = "TKG-S"
           /\ (p = "found" /\ ids # {}) \/ (p = "create" /\ ids = {} /\ r.op = "apply")
        \/ /\ l.class = "mixed" /\ ids = {} /\ l.target # Absent /\ class = "native"
           /\ p \in {"native", "found"}
        \/ /\ l.class = "mixed" /\ ids # {} /\ l.target = Absent /\ class = "TKG-S"
           /\ p \in {"tkg", "found"}
    BY <1>4, <1>9 DEF K!NextMixed, K!NextTkgS
  <2>3. ids # {} => \A j \in K!Old \ {i} : ~ShownIn(world, l, j, "TKG-S")
    <3> SUFFICES ASSUME ids # {}, NEW j \in K!Old \ {i}, ShownIn(world, l, j, "TKG-S") PROVE FALSE
      OBVIOUS
    <3>1. i \in ids /\ j \in ids /\ ids \subseteq K!Ids
      BY <1>2, <1>5, ClientIds
    <3> HIDE DEF ids
    <3> QED
      BY <2>1, <3>1
  <2>4. l.class = "mixed" => l.session = "full" /\ K!Runtime(l) = Absent /\ r.runtime = Absent
                             /\ r.op \notin {"apply", "create"}
    BY <1>1, NoName DEF ClientClass, Chosen, K!Runtime, ClientAsks
  <2> HIDE DEF m, p, denied, class, ids
  <2>5. /\ n \in K!Locals /\ n.request = r /\ n.stale = l.stale /\ n.alone = l.alone
        /\ n.raw = l.raw /\ n.session = l.session /\ n.class = class /\ n.org = l.org
        /\ n.target = i
    BY <1>7
  <2> HIDE DEF n
  <2>6. /\ K!Runtime(n) = K!Runtime(l) /\ (Either(n) <=> Either(l))
        /\ \A j, kind : ShownIn(world, n, j, kind) <=> ShownIn(world, l, j, kind)
        /\ May(world, n, i) <=> May(world, l, i)
    BY <2>5 DEF K!Runtime, Either, ShownIn, May
  <2>7. \A kind : NoOld(world, n, kind) <=> NoOld(world, l, kind)
    BY <2>6 DEF NoOld
  <2>8. p \in {"found", "create", "native", "tkg"}
    BY <2>2
  <2>15. p = "create" => class = "TKG-S" /\ \A j \in K!Ids : ~ShownIn(world, l, j, "TKG-S")
    BY <1>5, <2>2
  <2>9. ClientSession(world, p, n)
    BY <1>1, <2>8, <2>5 DEF ClientSession, Chosen
  <2>10. ClientClass(p, n)
    BY <1>1, <1>4, <2>2, <2>4, <2>5, <2>6, NoName DEF ClientClass, Chosen, K!Kinds
  <2>11. ClientTarget(world, p, n)
    <3>1. CASE l.class = "TKG-S"
      BY <1>1, <1>4, <1>5, <2>2, <2>3, <2>5, <2>6, <2>7, <3>1 DEF ClientTarget, Aimed, Chosen, K!Kinds
    <3>2. CASE l.class = "mixed" /\ ids = {}
      BY <1>1, <1>4, <1>5, <2>2, <2>5, <2>6, <2>7, <3>2 DEF ClientTarget, Aimed, Chosen, K!Kinds
    <3>3. CASE l.class = "mixed" /\ ids # {}
      BY <1>1, <1>4, <1>5, <2>2, <2>3, <2>5, <2>6, <2>7, <3>3 DEF ClientTarget, Aimed, Chosen, K!Kinds
    <3> QED
      BY <2>2, <3>1, <3>2, <3>3
  <2>12. ClientLocal(world, p, n)
    BY <1>1, <2>5, <2>8, <2>9, <2>10, <2>11 DEF ClientLocal, ClientPcs
  <2>13. K!Update(a, n)
    BY <1>2 DEF n
  <2>14. Reached(a, p, n)
    BY <1>1, <2>2, <2>5, <2>6, <2>15 DEF Reached, ClientPcs
  <2> QED
    BY <1>1, <1>3, <2>12, <2>13, <2>14, StepTo
<1> QED
  BY <1>8, <1>9

\* A step that makes a call which changes the world to v.
LEMMA CallTo ==
  ASSUME K!TypeOK, NEW a \in Ops, pc[a] \notin {"idle", "done"}, ClientAsks(loc[a].request),
         NEW p, NEW l, Reached(a, p, l), K!Update(a, l), p # "create",
         NEW v \in K!Worlds, WorldKept(world, v), K!Create(a) \/ NoneMade(world, v),
         K!PutAcl(a) \/ K!PutEntry(a) \/ v.acl = world.acl,
         ClientLocal(v, p, l), K!Step(a, "failed") \/ K!Call(a, v, p, "failed")
  PROVE  ClientStep(a)
<1>1. /\ world \in K!Worlds /\ MaxFaults \in Nat /\ ClientLocal(world, "failed", l)
      /\ ClientLocal(v, "failed", l) /\ Reached(a, "failed", l)
  BY ThreadsAssumption, LocalFailed, ReachedFailed DEF K!TypeOK, Reached
<1>2. CASE K!Step(a, "failed")
  BY <1>1, <1>2, Stepped, KeptSame DEF ClientStep
<1>3. CASE K!Call(a, v, p, "failed")
  <2>1. /\ faults' \in 0..MaxFaults /\ world' \in {world, v}
        /\ (K!Goto(a, p) /\ world' = v) \/ K!Goto(a, "failed")
    BY <1>1, <1>3, Called
  <2> QED
    BY <1>1, <2>1, KeptSame DEF ClientStep
<1> QED
  BY <1>2, <1>3

\* At work on its cluster, a command knows which.
LEMMA AtTarget ==
  ASSUME NEW w, NEW l \in K!Locals, NEW p \in {"found", "acl", "put", "entries"}, ClientLocal(w, p, l)
  PROVE  l.target \in K!Ids /\ l.class \in K!Kinds /\ ClientAsks(l.request)
<1>1. ClientClass(p, l) /\ ClientTarget(w, p, l) /\ ClientAsks(l.request)
  BY DEF ClientLocal
<1>2. l.class \in {"legacy", "native", "TKG-S", "mixed", Absent} /\ l.request.id \in K!Ids \cup {Absent}
  BY RequestParts
<1>3. l.class \in K!Kinds
  BY <1>1, <1>2 DEF ClientClass, Chosen, K!Kinds
<1>4. l.target \in K!Ids
  BY <1>1, <1>2 DEF ClientTarget, Chosen, Aimed, May
<1> QED
  BY <1>1, <1>3, <1>4

LEMMA LegacyStep ==
  ASSUME K!TypeOK, NEW a \in Ops, ClientLocal(world, pc[a], loc[a]), K!Legacy(a)
  PROVE  ClientStep(a)
<1> DEFINE l == loc[a]
           r == l.request
           ids == K!Search(l, "native")
           served == world.server = "legacy" /\ r.id = Absent /\ \E i \in K!Ids : ids = {i}
           v(i) == IF r.op = "delete" THEN [world EXCEPT !.cluster[i].alive = FALSE] ELSE world
           m(i) == [l EXCEPT !.target = i]
<1>1. /\ l \in K!Locals /\ world \in K!Worlds /\ ClientAsks(r)
      /\ pc[a] = "legacy" /\ ClientSession(world, "legacy", l) /\ ClientClass("legacy", l)
      /\ ClientTarget(world, "legacy", l)
  BY DEF K!TypeOK, ClientLocal, K!Legacy
<1>2. l.class = "legacy" /\ l.session = "legacy"
  BY <1>1, RequestParts DEF ClientClass, Chosen, K!Kinds
<1>3. CASE served
  <2>1. PICK i \in ids : K!Update(a, m(i)) /\ K!Call(a, v(i), "done", "failed")
    BY <1>3 DEF K!Legacy
  <2>2. ids = {j \in K!Ids : ShownIn(world, l, j, "native")} /\ ids = {i}
    BY <1>3, <2>1, SearchIs
  <2>3. i \in K!Ids /\ ShownIn(world, l, i, "native") /\ LiveIn(world, i)
        /\ \A j \in K!Old \ {i} : ~ShownIn(world, l, j, "native")
    BY <2>2, ClientIds DEF ShownIn
  <2>4. v(i) \in K!Worlds /\ WorldKept(world, v(i)) /\ NoneMade(world, v(i)) /\ v(i).acl = world.acl
    BY <1>1, <2>3, KeptGone, KeptSame
  <2>5. /\ m(i) \in K!Locals /\ m(i).request = r /\ m(i).stale = l.stale /\ m(i).alone = l.alone
        /\ m(i).raw = l.raw /\ m(i).session = l.session /\ m(i).class = l.class /\ m(i).org = l.org
        /\ m(i).target = i
    BY <1>1, <2>3 DEF K!Locals
  <2> DEFINE n == m(i)
             u == v(i)
  <2>6. K!Update(a, n) /\ K!Call(a, u, "done", "failed")
    BY <2>1
  <2>7. /\ n \in K!Locals /\ n.request = r /\ n.stale = l.stale /\ n.alone = l.alone
        /\ n.raw = l.raw /\ n.session = l.session /\ n.class = l.class /\ n.org = l.org
        /\ n.target = i /\ u \in K!Worlds /\ WorldKept(world, u)
        /\ NoneMade(world, u) /\ u.acl = world.acl
    BY <2>4, <2>5
  <2> HIDE DEF m, v, n, u, ids
  <2>8. /\ K!Runtime(n) = K!Runtime(l) /\ ~Either(n)
        /\ \A j, kind : ShownIn(world, n, j, kind) <=> ShownIn(world, l, j, kind)
        /\ May(world, n, i) <=> May(world, l, i)
    BY <1>2, <2>7 DEF K!Runtime, Either, ShownIn, May
  <2>9. ClientSession(world, "done", n)
    BY <1>1, <2>7 DEF ClientSession, Chosen
  <2>10. ClientClass("done", n)
    BY <1>1, <1>2, <2>7, <2>8 DEF ClientClass, Chosen, K!Kinds
  <2>11. May(world, l, i) /\ world.cluster[i].kind = "native"
    BY <2>3, MayShown
  <2>12. ClientTarget(world, "done", n)
    BY <1>2, <1>3, <2>3, <2>7, <2>8, <2>11 DEF ClientTarget, Aimed, Chosen
  <2>13. ClientLocal(world, "done", n)
    BY <1>1, <2>7, <2>9, <2>10, <2>12 DEF ClientLocal, ClientPcs
  <2>14. ClientLocal(u, "done", n)
    BY <2>7, <2>13, LocalStays
  <2>15. Reached(a, "done", n)
    BY <1>1, <1>2, <2>7 DEF Reached, ClientPcs, ClientClass, Chosen, K!AclCommands
  <2> QED
    BY <1>1, <2>6, <2>7, <2>14, <2>15, CallTo
<1>4. CASE ~served
  <2>1. K!Step(a, "failed") /\ K!Update(a, l)
    BY <1>4 DEF K!Legacy
  <2> QED
    BY <1>1, <2>1, LocalFailed, ReachedFailed, StepTo
<1> QED
  BY <1>3, <1>4

\* A request about the cluster that was found.
LEMMA RequestStep ==
  ASSUME K!TypeOK, NEW a \in Ops, ClientLocal(world, pc[a], loc[a]), pc[a] = "found",
         loc[a].request.op \notin {"share", "unshare"}, K!Update(a, loc[a]),
         NEW v \in K!Worlds, WorldKept(world, v), NoneMade(world, v), v.acl = world.acl,
         K!Step(a, "failed") \/ K!Call(a, v, "done", "failed")
  PROVE  ClientStep(a)
<1>1. loc[a] \in K!Locals /\ loc[a].class \in K!Kinds /\ ClientAsks(loc[a].request)
  BY AtTarget DEF K!TypeOK
<1>2. ClientLocal(world, "done", loc[a])
  BY <1>1, LocalAimed DEF Aimed
<1>3. ClientLocal(v, "done", loc[a])
  BY <1>2, LocalStays
<1>4. Reached(a, "done", loc[a])
  BY <1>1 DEF Reached, ClientPcs
<1> QED
  BY <1>1, <1>3, <1>4, CallTo

LEMMA ActStep ==
  ASSUME K!TypeOK, NEW a \in Ops, ClientLocal(world, pc[a], loc[a]), K!Act(a)
  PROVE  ClientStep(a)
<1> DEFINE i == loc[a].target
           gone == [world EXCEPT !.cluster[i].alive = FALSE]
<1>1. world \in K!Worlds /\ loc[a] \in K!Locals /\ WorldKept(world, world) /\ NoneMade(world, world)
  BY KeptSame DEF K!TypeOK
<1>2. /\ pc[a] = "found" /\ K!Update(a, loc[a]) /\ loc[a].request.op \notin {"share", "unshare"}
      /\ \/ K!Step(a, "failed") \/ K!Call(a, world, "done", "failed")
         \/ K!Live(i) /\ K!Call(a, gone, "done", "failed")
  BY DEF K!Act, K!Request, K!Gone, K!Serves, K!InfoNative, K!InfoTkgS, K!ConfigNative, K!ConfigTkgS,
         K!PlanNative, K!NfsNative, K!UpgradeNative, K!DeleteNative, K!DeleteTkgS, K!ForceNative,
         K!ForceTkgS, K!UpdateNative, K!UpdateTkgS, K!ListNative, K!ListTkgS
<1>3. K!Live(i) => gone \in K!Worlds /\ WorldKept(world, gone) /\ NoneMade(world, gone)
                   /\ gone.acl = world.acl
  BY <1>1, <1>2, AtTarget, KeptGone DEF K!Live, LiveIn
<1> HIDE DEF gone
<1> QED
  BY <1>1, <1>2, <1>3, RequestStep

LEMMA FindUsersStep ==
  ASSUME K!TypeOK, NEW a \in Ops, ClientLocal(world, pc[a], loc[a]), K!FindUsers(a)
  PROVE  ClientStep(a)
<1>1. /\ loc[a] \in K!Locals /\ pc[a] = "found" /\ K!Update(a, loc[a])
      /\ loc[a].request.op \in {"share", "unshare"}
      /\ K!Query(a, "acl", "failed") \/ K!Step(a, "failed")
  BY DEF K!TypeOK, K!FindUsers
<1>2. loc[a].class \in K!Kinds /\ ClientAsks(loc[a].request)
  BY <1>1, AtTarget
<1>3. ClientLocal(world, "acl", loc[a]) /\ ClientLocal(world, "failed", loc[a])
  BY <1>1, <1>2, LocalAimed, LocalFailed DEF Aimed
<1>4. Reached(a, "acl", loc[a]) /\ Reached(a, "failed", loc[a])
  BY <1>1 DEF Reached, ClientPcs
<1> QED
  BY <1>1, <1>2, <1>3, <1>4, StepTo

LEMMA ReadAclStep ==
  ASSUME K!TypeOK, NEW a \in Ops, ClientLocal(world, pc[a], loc[a]), K!ReadAcl(a)
  PROVE  ClientStep(a)
<1> DEFINE l == loc[a]
           p == IF l.class = "native" THEN "put" ELSE "entries"
           m == [l EXCEPT !.read = world.acl[l.target], !.todo = l.request.users]
<1>1. /\ l \in K!Locals /\ pc[a] = "acl" /\ K!Update(a, m)
      /\ K!Query(a, p, "failed") \/ K!Query(a, "failed", "failed") \/ K!Step(a, "failed")
  BY DEF K!TypeOK, K!ReadAcl
<1>2. l.class \in K!Kinds /\ ClientAsks(l.request) /\ l.target \in K!Ids
      /\ l.request.op \in {"share", "unshare"}
  BY <1>1, AtTarget DEF ClientLocal, ClientClass, Chosen
<1>3. /\ m \in K!Locals /\ m.request = l.request /\ m.stale = l.stale /\ m.alone = l.alone
      /\ m.raw = l.raw /\ m.session = l.session /\ m.class = l.class /\ m.org = l.org
      /\ m.target = l.target
  <2>1. world.acl[l.target] \in K!Acl /\ l.request.users \subseteq ClientUsers
    BY <1>1, <1>2, RequestParts DEF K!TypeOK, K!Worlds
  <2> QED
    BY <1>1, <2>1 DEF K!Locals
<1>4. p \in {"put", "entries"} /\ (p = "put" => l.class = "native") /\ (p = "entries" => l.class = "TKG-S")
  BY <1>2 DEF K!Kinds
<1> HIDE DEF m, p
<1>5. ClientLocal(world, p, m) /\ ClientLocal(world, "failed", m)
  <2>1. ClientLocal(world, "acl", l) /\ "acl" \in Aimed /\ p \in Aimed
    BY <1>1, <1>4 DEF Aimed
  <2> HIDE DEF l
  <2>2. ClientLocal(world, p, m)
    BY <1>2, <1>3, <1>4, <2>1, LocalAimed
  <2> QED
    BY <1>2, <1>3, <2>2, LocalFailed
<1>6. Reached(a, p, m) /\ Reached(a, "failed", m)
  BY <1>1, <1>3, <1>4 DEF Reached, ClientPcs
<1> QED
  BY <1>1, <1>2, <1>5, <1>6, StepTo

LEMMA PutAclStep ==
  ASSUME K!TypeOK, NEW a \in Ops, ClientLocal(world, pc[a], loc[a]), K!PutAcl(a)
  PROVE  ClientStep(a)
<1> DEFINE l == loc[a]
           i == l.target
           acl == K!Entries(l.request, l.read)
           v == [world EXCEPT !.acl[i] = acl]
           m == [l EXCEPT !.stale = l.stale \/ world.acl[i] # l.read]
<1>1. /\ l \in K!Locals /\ world \in K!Worlds /\ pc[a] = "put" /\ K!Update(a, m)
      /\ K!Call(a, v, "done", "failed") \/ K!Step(a, "failed")
  BY DEF K!TypeOK, K!PutAcl
<1>2. l.class \in K!Kinds /\ ClientAsks(l.request) /\ i \in K!Ids
  BY <1>1, AtTarget
<1>3. acl \in K!Acl
  BY <1>1, RequestParts DEF K!Entries, K!Acl, K!Level
<1>4. v \in K!Worlds /\ WorldKept(world, v) /\ NoneMade(world, v)
  BY <1>1, <1>2, <1>3, KeptAcl
<1>5. /\ m \in K!Locals /\ m.request = l.request /\ (l.stale => m.stale) /\ m.alone = l.alone
      /\ m.raw = l.raw /\ m.session = l.session /\ m.class = l.class /\ m.org = l.org
      /\ m.target = l.target
  BY <1>1 DEF K!Locals
<1> HIDE DEF m, v
<1>6. ClientLocal(world, "done", m)
  <2>1. ClientLocal(world, "put", l) /\ "put" \in Aimed /\ "done" \in Aimed
    BY <1>1 DEF Aimed
  <2> HIDE DEF l
  <2> QED
    BY <1>2, <1>5, <2>1, LocalAimed
<1>7. ClientLocal(v, "done", m)
  BY <1>4, <1>6, LocalStays
<1>8. Reached(a, "done", m)
  BY <1>1, <1>5 DEF Reached, ClientPcs
<1> QED
  BY <1>1, <1>2, <1>4, <1>7, <1>8, CallTo

LEMMA PutEntryStep ==
  ASSUME K!TypeOK, NEW a \in Ops, ClientLocal(world, pc[a], loc[a]), K!PutEntry(a)
  PROVE  ClientStep(a)
<1> DEFINE l == loc[a]
           i == l.target
           level == l.request.level * (IF l.request.op = "share" THEN 1 ELSE 0)
           v(u) == [world EXCEPT !.acl[i][u] = level]
           m(u) == [l EXCEPT !.todo = l.todo \ {u}]
<1>1. /\ l \in K!Locals /\ world \in K!Worlds /\ pc[a] = "entries"
      /\ \E u \in l.todo : /\ K!Update(a, m(u))
                           /\ K!Call(a, v(u), "entries", "failed") \/ K!Step(a, "failed")
  BY DEF K!TypeOK, K!PutEntry
<1>2. PICK u \in l.todo : /\ K!Update(a, m(u))
                          /\ K!Call(a, v(u), "entries", "failed") \/ K!Step(a, "failed")
  BY <1>1
<1> DEFINE n == m(u)
           w == v(u)
           acl == [world.acl[i] EXCEPT ![u] = level]
<1>3. l.class \in K!Kinds /\ ClientAsks(l.request) /\ i \in K!Ids
      /\ l.request.op \in {"share", "unshare"} /\ l.class = "TKG-S"
  BY <1>1, AtTarget DEF ClientLocal, ClientClass, Chosen
<1>4. acl \in K!Acl
  <2>1. level \in K!Level
    BY <1>1, RequestParts DEF K!Level
  <2>2. world.acl[i] \in K!Acl
    BY <1>1, <1>3 DEF K!Worlds
  <2> HIDE DEF level
  <2> QED
    BY <2>1, <2>2 DEF K!Acl
<1>5. w \in K!Worlds /\ WorldKept(world, w) /\ NoneMade(world, w)
  <2>1. w = [world EXCEPT !.acl[i] = acl]
    OBVIOUS
  <2> HIDE DEF w, acl
  <2> QED
    BY <1>1, <1>3, <1>4, <2>1, KeptAcl
<1>6. /\ n \in K!Locals /\ n.request = l.request /\ n.stale = l.stale /\ n.alone = l.alone
      /\ n.raw = l.raw /\ n.session = l.session /\ n.class = l.class /\ n.org = l.org
      /\ n.target = l.target
  BY <1>1 DEF K!Locals
<1>7. K!Update(a, n) /\ (K!Call(a, w, "entries", "failed") \/ K!Step(a, "failed"))
  BY <1>2
<1> HIDE DEF n, w
<1>8. ClientLocal(world, "entries", n)
  <2>1. ClientLocal(world, "entries", l) /\ "entries" \in Aimed
    BY <1>1 DEF Aimed
  <2> HIDE DEF l
  <2> QED
    BY <1>3, <1>6, <2>1, LocalAimed
<1>9. ClientLocal(w, "entries", n)
  BY <1>5, <1>8, LocalStays
<1>10. Reached(a, "entries", n)
  BY <1>1, <1>6 DEF Reached, ClientPcs
<1> QED
  BY <1>1, <1>3, <1>5, <1>7, <1>9, <1>10, CallTo

LEMMA EntriesPutStep ==
  ASSUME K!TypeOK, NEW a \in Ops, ClientLocal(world, pc[a], loc[a]), K!EntriesPut(a)
  PROVE  ClientStep(a)
<1>1. loc[a] \in K!Locals /\ pc[a] = "entries" /\ K!Update(a, loc[a]) /\ K!Step(a, "done")
  BY DEF K!TypeOK, K!EntriesPut
<1>2. loc[a].class \in K!Kinds /\ ClientAsks(loc[a].request)
  BY <1>1, AtTarget
<1>3. ClientLocal(world, "done", loc[a])
  BY <1>1, <1>2, LocalAimed DEF Aimed
<1>4. Reached(a, "done", loc[a])
  BY <1>1 DEF Reached, ClientPcs
<1> QED
  BY <1>1, <1>2, <1>3, <1>4, StepTo

LEMMA AgainStep ==
  ASSUME K!TypeOK, NEW a \in Ops, ClientLocal(world, pc[a], loc[a]), K!Again(a)
  PROVE  ClientStep(a)
<1> DEFINE l == loc[a]
           m == [K!Started(l.request) EXCEPT !.again = TRUE, !.raw = l.raw, !.stale = l.stale,
                                             !.alone = l.alone]
<1>1. l \in K!Locals /\ K!Update(a, m) /\ K!Step(a, "filter") /\ ClientAsks(l.request)
      /\ pc[a] = "failed"
  BY DEF K!TypeOK, K!Again, ClientLocal
<1>2. K!Started(l.request) \in K!Locals /\ K!Started(l.request).request = l.request
  BY <1>1, RequestParts DEF K!Started, K!Locals, K!NoAcl, K!Acl, K!Level
<1>3. m \in K!Locals /\ m.request = l.request /\ m.stale = l.stale /\ m.alone = l.alone
  BY <1>1, <1>2 DEF K!Locals
<1>4. ClientLocal(world, "filter", m)
  BY <1>1, <1>3, LocalFailed
<1> HIDE DEF m
<1>5. Reached(a, "filter", m)
  BY <1>1, <1>3 DEF Reached, ClientPcs
<1> QED
  BY <1>1, <1>4, <1>5, StepTo

\* The world with a cluster that a has made, and what is known of it.
NewOf(a, kind, org)  == [kind |-> kind, maker |-> a, alive |-> TRUE, org |-> org]
Make(a, i, kind, org) == [world EXCEPT !.cluster[i] = NewOf(a, kind, org)]
MadeFor(l, kind, org) ==
  /\ l.request.op \in {"create", "apply"} /\ l.request.id = Absent /\ l.org = FilterOf(l.request)
  /\ kind = IF l.request.op = "apply" THEN l.request.runtime ELSE "native"
  /\ org = IF l.org = Absent THEN "own" ELSE l.org
  /\ NoOld(world, l, kind)

LEMMA CreateParts ==
  ASSUME K!TypeOK, NEW a \in Ops, ClientLocal(world, pc[a], loc[a]), K!Create(a)
  PROVE  /\ pc[a] \in {"create", "legacy"}
         /\ \/ K!Step(a, "failed") /\ K!Update(a, loc[a])
            \/ \E i \in K!New, kind \in K!Kinds, org \in K!Orgs :
                 /\ world.cluster[i] = Absent /\ MadeFor(loc[a], kind, org)
                 /\ kind = IF loc[a].class = "legacy" THEN "native" ELSE loc[a].class
                 /\ pc[a] = "legacy" => loc[a].class = "legacy" /\ K!Search(loc[a], "native") = {}
                 /\ K!Call(a, Make(a, i, kind, org), "done", "failed")
                 /\ K!Update(a, [loc[a] EXCEPT !.target = i])
<1> DEFINE l == loc[a]
           r == l.request
           class == IF l.class = "legacy" THEN "native" ELSE l.class
           free == {i \in K!New : world.cluster[i] = Absent}
           o == IF l.org = Absent THEN "own" ELSE l.org
           made == [kind |-> class, maker |-> a, alive |-> TRUE, org |-> o]
           refused == CASE l.class = "native" -> world.server # "full"
                        [] l.class = "legacy" -> world.server # "legacy" \/ K!Search(l, "native") # {}
                        [] OTHER -> FALSE
<1>1. l \in K!Locals /\ ClientAsks(r) /\ ClientClass(pc[a], l) /\ ClientTarget(world, pc[a], l)
      /\ (pc[a] = "create" \/ (pc[a] = "legacy" /\ r.op = "create"))
  BY DEF K!TypeOK, ClientLocal, K!Create
<1>2. \/ refused /\ K!Step(a, "failed") /\ K!Update(a, l)
      \/ /\ ~refused
         /\ \E i \in free : /\ K!Call(a, [world EXCEPT !.cluster[i] = made], "done", "failed")
                            /\ K!Update(a, [l EXCEPT !.target = i])
  <2>1. CASE refused
    BY <2>1 DEF K!Create
  <2>2. CASE ~refused
    BY <2>2 DEF K!Create
  <2> QED
    BY <2>1, <2>2
<1>3. pc[a] = "legacy" => l.class = "legacy"
  BY <1>1, RequestParts DEF ClientClass, Chosen, K!Kinds
<1>4. pc[a] = "create" => /\ r.op = "apply" /\ l.class \in K!Kinds /\ r.runtime = l.class
                          /\ NoOld(world, l, l.class)
  BY <1>1, RequestParts, NoName DEF ClientClass, ClientTarget, ClientAsks, Chosen, K!Kinds
<1>5. r.id = Absent /\ l.org = FilterOf(r) /\ l.org \in K!Orgs \cup {Absent}
  BY <1>1 DEF ClientClass, ClientTarget, ClientAsks, Chosen, K!Locals
<1>6. pc[a] = "legacy" /\ ~refused => K!Search(l, "native") = {} /\ NoOld(world, l, "native")
  BY <1>3, NoneShown
<1>7. ASSUME ~refused
      PROVE  MadeFor(l, class, o) /\ class \in K!Kinds /\ o \in K!Orgs
  <2>1. class = IF r.op = "apply" THEN r.runtime ELSE "native"
    BY <1>1, <1>3, <1>4 DEF K!Kinds
  <2>2. NoOld(world, l, class) /\ class \in K!Kinds
    BY <1>1, <1>3, <1>4, <1>6, <1>7 DEF K!Kinds
  <2> HIDE DEF class
  <2> QED
    BY <1>1, <1>4, <1>5, <2>1, <2>2 DEF MadeFor, K!Orgs
<1>8. CASE refused
  BY <1>1, <1>2, <1>8
<1>9. CASE ~refused
  <2>1. PICK i \in free : /\ K!Call(a, [world EXCEPT !.cluster[i] = made], "done", "failed")
                          /\ K!Update(a, [l EXCEPT !.target = i])
    BY <1>2, <1>9
  <2>2. [world EXCEPT !.cluster[i] = made] = Make(a, i, class, o)
    BY DEF Make, NewOf
  <2>3. /\ i \in K!New /\ world.cluster[i] = Absent
        /\ K!Call(a, Make(a, i, class, o), "done", "failed")
    BY <2>1, <2>2
  <2> HIDE DEF o, refused, free, made
  <2>4. pc[a] = "legacy" => l.class = "legacy" /\ K!Search(l, "native") = {}
    BY <1>3, <1>6, <1>9
  <2>5. class \in K!Kinds /\ o \in K!Orgs /\ MadeFor(l, class, o)
    BY <1>7, <1>9
  <2> QED
    BY <1>1, <2>1, <2>3, <2>4, <2>5
<1> QED
  BY <1>8, <1>9

LEMMA MakeKept ==
  ASSUME K!TypeOK, NEW a \in Ops, NEW i \in K!New, NEW kind \in K!Kinds, NEW org \in K!Orgs,
         world.cluster[i] = Absent
  PROVE  LET v == Make(a, i, kind, org)
             c == NewOf(a, kind, org)
         IN  /\ v \in K!Worlds /\ WorldKept(world, v) /\ v.acl = world.acl
             /\ \A j \in K!Ids : v.cluster[j] = IF j = i THEN c ELSE world.cluster[j]
             /\ c \in K!Clusters /\ c # Absent /\ c.kind = kind /\ c.org = org /\ c.maker = a /\ c.alive
<1> DEFINE v == Make(a, i, kind, org)
           c == NewOf(a, kind, org)
           d == [world.cluster EXCEPT ![i] = c]
<1>1. world \in K!Worlds /\ world.cluster \in [K!Ids -> K!Clusters \cup {Absent}] /\ i \in K!Ids
  BY ClientIds DEF K!TypeOK, K!Worlds
<1>2. c \in K!Clusters /\ c # Absent /\ c.kind = kind /\ c.org = org /\ c.maker = a /\ c.alive
  <2>1. c \in K!Clusters /\ c.kind = kind /\ c.org = org /\ c.maker = a /\ c.alive
    BY DEF K!Clusters, NewOf
  <2> HIDE DEF c
  <2>2. c # Absent
    BY <2>1, ClientAssumption
  <2> QED
    BY <2>1, <2>2
<1>3. v = [world EXCEPT !.cluster = d]
  BY DEF Make
<1> HIDE DEF v, c
<1>4. d \in [K!Ids -> K!Clusters \cup {Absent}]
  BY <1>1, <1>2
<1>5. \A j \in K!Ids : d[j] = IF j = i THEN c ELSE world.cluster[j]
  BY <1>1
<1> HIDE DEF d
<1>6. /\ v.cluster = d /\ v \in K!Worlds /\ v.acl = world.acl /\ v.server = world.server
      /\ v.before = world.before /\ v.profile = world.profile
  BY <1>1, <1>3, <1>4 DEF K!Worlds
<1>7. \A j \in K!Ids : world.cluster[j] # Absent => v.cluster[j] = world.cluster[j]
  BY <1>5, <1>6
<1>8. \A j \in K!Old : v.cluster[j] = world.cluster[j]
  BY <1>5, <1>6, ClientIds
<1>9. WorldKept(world, v) /\ \A j \in K!Ids : v.cluster[j] = IF j = i THEN c ELSE world.cluster[j]
  BY <1>5, <1>6, <1>7, <1>8 DEF WorldKept
<1> QED
  BY <1>2, <1>6, <1>9 DEF v, c

LEMMA CreateStep ==
  ASSUME K!TypeOK, NEW a \in Ops, ClientLocal(world, pc[a], loc[a]), K!Create(a)
  PROVE  ClientStep(a)
<1>1. /\ loc[a] \in K!Locals /\ world \in K!Worlds /\ ClientAsks(loc[a].request)
      /\ pc[a] \in {"create", "legacy"}
      /\ ClientSession(world, pc[a], loc[a]) /\ ClientClass(pc[a], loc[a])
      /\ ClientTarget(world, pc[a], loc[a])
  BY CreateParts DEF K!TypeOK, ClientLocal
<1>2. CASE K!Step(a, "failed") /\ K!Update(a, loc[a])
  BY <1>1, <1>2, LocalFailed, ReachedFailed, StepTo
<1>3. ASSUME NEW i \in K!New, NEW kind \in K!Kinds, NEW org \in K!Orgs,
             world.cluster[i] = Absent, MadeFor(loc[a], kind, org),
             kind = IF loc[a].class = "legacy" THEN "native" ELSE loc[a].class,
             K!Call(a, Make(a, i, kind, org), "done", "failed"),
             K!Update(a, [loc[a] EXCEPT !.target = i])
      PROVE  ClientStep(a)
  <2> DEFINE l == loc[a]
             c == NewOf(a, kind, org)
             v == Make(a, i, kind, org)
             m == [l EXCEPT !.target = i]
  <2>3. i \in K!Ids
    BY ClientIds
  <2>4. /\ m \in K!Locals /\ m.request = l.request /\ m.stale = l.stale /\ m.alone = l.alone
        /\ m.raw = l.raw /\ m.session = l.session /\ m.class = l.class /\ m.org = l.org
        /\ m.target = i
    BY <1>1, <2>3 DEF K!Locals
  <2>5. K!Update(a, m) /\ K!Call(a, v, "done", "failed")
    BY <1>3
  <2> HIDE DEF v, m, c
  <2>6. /\ v \in K!Worlds /\ WorldKept(world, v) /\ v.acl = world.acl /\ v.cluster[i] = c
        /\ c # Absent /\ c.kind = kind /\ c.org = org
    BY <1>3, <2>3, MakeKept DEF v, c
  <2>7. l.request.op \in {"create", "apply"} /\ l.request.id = Absent
        /\ l.org = FilterOf(l.request) /\ org = (IF l.org = Absent THEN "own" ELSE l.org)
        /\ NoOld(world, l, kind)
    BY <1>3 DEF MadeFor
  <2>8. /\ K!Runtime(m) = K!Runtime(l) /\ (Either(m) <=> Either(l))
        /\ \A j, k : ShownIn(v, m, j, k) <=> ShownIn(v, l, j, k)
    BY <2>4 DEF K!Runtime, Either, ShownIn
  <2>9. \A j \in K!Old : ~ShownIn(v, m, j, kind)
    BY <2>6, <2>7, <2>8, ShownStays DEF NoOld
  <2>10. May(v, m, i)
    <3>1. l.request.sysadmin \/ org = "own"
      BY <1>1, <2>7, NoName DEF ClientAsks, FilterOf, K!ApplyOrg, K!CreateOrg
    <3>2. l.org \in {Absent, org}
      BY <2>7
    <3> QED
      BY <2>3, <2>4, <2>6, <3>1, <3>2 DEF May
  <2>11. ClientSession(v, "done", m)
    <3>1. ClientSession(world, "done", m)
      BY <1>1, <2>4 DEF ClientSession, Chosen
    <3> QED
      BY <2>6, <3>1, SavedOnce DEF ClientSession, WorldKept
  <2>12. ClientClass("done", m)
    BY <1>1, <2>4, <2>8, RequestParts DEF ClientClass, Chosen, K!Kinds
  <2>13. ~Either(m)
    <3>1. pc[a] = "legacy" => l.session = "legacy"
      BY <1>1, RequestParts DEF ClientClass, Chosen, K!Kinds
    <3>2. pc[a] = "create" => l.request.op = "apply" /\ l.request.runtime # Absent
      BY <1>1, NoName DEF ClientClass, Chosen, ClientAsks, K!Kinds
    <3>3. pc[a] = "create" => ~Either(l)
      BY <3>2, NoName DEF Either, K!Runtime
    <3> QED
      BY <1>1, <2>8, <3>1, <3>3 DEF Either
  <2>14. v.cluster[i].kind = kind
    BY <2>6
  <2>15. ClientTarget(v, "done", m)
    BY <1>3, <2>4, <2>7, <2>9, <2>10, <2>13, <2>14 DEF ClientTarget, Aimed, Chosen
  <2>16. ClientLocal(v, "done", m)
    BY <1>1, <2>4, <2>11, <2>12, <2>15 DEF ClientLocal, ClientPcs
  <2>17. Reached(a, "done", m)
    BY <1>1, <2>4, <2>7 DEF Reached, ClientPcs
  <2> QED
    BY <1>1, <2>5, <2>6, <2>16, <2>17, CallTo
<1> QED
  BY <1>2, <1>3, CreateParts
=============================================================================
