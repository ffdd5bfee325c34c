------------------------------ MODULE ClusterAcl ------------------------------
(***************************************************************************)
(* update_cluster_acl of the cluster services, with ClusterACLService      *)
(* (rde/acl_service.py): a cluster is shared with users twice, by the ACL  *)
(* of its defined entity, one call per user, and by the access settings of *)
(* its vApp, one call for all of them.  After an exception the ACL of the  *)
(* entity is set to what it was; the vApp is not touched again.  An entry  *)
(* without a level stands for a user who has none.  The handler takes no   *)
(* lock: updates of the cluster by several requests overlap.               *)
(***************************************************************************)
EXTENDS Procedures

CONSTANTS Users, SystemUsers   \* those of the system organization

Levels == {"ReadOnly", "ReadWrite"}
Acls   == [Users -> Levels \cup {Absent}]
Listed(acl) == {u \in Users : acl[u] # Absent}

\* An entry of the ACL of an entity is deleted by its id.  The update of an actor and
\* its rollback make one entry of a user each; Absent is the id of one there was before.
EntryIds == (Actors \X BOOLEAN) \cup {Absent}

\* request: the entries the user asks for; prev: prev_user_id_to_acl_entry_dict;
\* entries, own: the arguments of update_native_def_entity_acl, the entries not
\* yet shared and the users whose entry would go, by the ids; kept: the settings of
\* the vApp that stay; restored: the exception handler has come to its end.
\* alone is a history variable: no other update was at work since this one began.
Locals == [request : Acls, sysadmin : BOOLEAN, prev : Acls, entries : Acls,
           own : SUBSET Users, ids : [Users -> EntryIds], kept : Acls,
           undoing : BOOLEAN, restored : BOOLEAN, alone : BOOLEAN]
NoAcl == [u \in Users |-> Absent]
Asking(r, s) ==
  [request |-> r, sysadmin |-> s, prev |-> NoAcl, entries |-> NoAcl, own |-> {},
   ids |-> NoAcl, kept |-> NoAcl, undoing |-> FALSE, restored |-> FALSE, alone |-> TRUE]

Begun(a) == pc[a] # "read"
Busy(a)  == Begun(a) /\ ~Ended(a)

TypeOK ==
  /\ world \in [entity : Acls, ids : [Users -> EntryIds], vapp : Acls]
  /\ loc \in [Actors -> Locals]
  /\ DOMAIN pc = Actors
  /\ faults \in 0..MaxFaults

OneLevel(acl) == \A u \in SystemUsers : acl[u] # "ReadWrite"

\* The ACLs agree at first, but the vApp may be shared with others of its organization
\* by hand.  The level of a user of the system organization makes no difference.
Init ==
  /\ \E e, v \in Acls :
       /\ \A u \in Users : IF u \in SystemUsers THEN v[u] = Absent
                                              ELSE e[u] # Absent => v[u] = e[u]
       /\ OneLevel(e)
       /\ world = [entity |-> e, ids |-> NoAcl, vapp |-> v]
  /\ \E r \in [Actors -> Acls], s \in [Actors -> BOOLEAN] :
       /\ loc = [a \in Actors |-> Asking(r[a], s[a])]
       /\ \A a \in Actors : OneLevel(r[a])
  /\ pc = [a \in Actors |-> "read"]
  /\ faults = 0

-----------------------------------------------------------------------------
\* create_user_id_to_acl_entry_dict
Read(a) ==
  /\ pc[a] = "read"
  /\ Query(a, "share", "failed")
  /\ loc' = [b \in Actors |->
       IF b = a
       THEN [loc[a] EXCEPT !.prev = world.entity, !.entries = loc[a].request,
                           !.own = Listed(world.entity), !.ids = world.ids,
                           !.alone = \A c \in Actors : ~Busy(c)]
       ELSE [loc[b] EXCEPT !.alone = @ /\ ~Begun(b)]]

\* update_native_def_entity_acl skips a user of another organization, whose entry
\* it must find among the previous ones.
SkipUser(a, u) ==
  /\ u \in SystemUsers
  /\ Set(a, [loc[a] EXCEPT !.entries[u] = Absent, !.own = @ \ {u}])
  /\ Step(a, IF u \in loc[a].own THEN "share" ELSE "rollback")

\* share_def_entity: a user who has an entry keeps it, with the new level.
WithEntry(a, u, level) ==
  [world EXCEPT !.entity[u] = level,
                !.ids[u] = IF world.entity[u] = Absent THEN <<a, loc[a].undoing>> ELSE @]

ShareUser(a, u) ==
  /\ u \notin SystemUsers
  /\ Set(a, [loc[a] EXCEPT !.entries[u] = Absent, !.own = @ \ {u}])
  /\ Call(a, WithEntry(a, u, loc[a].entries[u]), "share", "rollback")

Share(a) ==
  /\ pc[a] = "share"
  /\ \E u \in Listed(loc[a].entries) : SkipUser(a, u) \/ ShareUser(a, u)

Shared(a) ==
  /\ pc[a] = "share"
  /\ Listed(loc[a].entries) = {}
  /\ Step(a, "unshare")
  /\ UNCHANGED loc

\* unshare_def_entity, of the users that the request does not list.  An entry that
\* another update deleted is not found.
Found(a, u) == world.entity[u] # Absent /\ world.ids[u] = loc[a].ids[u]

Unshare(a) ==
  /\ pc[a] = "unshare"
  /\ \E u \in loc[a].own :
       /\ \/ Found(a, u) /\ Call(a, [world EXCEPT !.entity[u] = Absent], "unshare", "rollback")
          \/ ~Found(a, u) /\ Step(a, "rollback")
       /\ Set(a, [loc[a] EXCEPT !.own = @ \ {u}])

Unshared(a) ==
  /\ pc[a] = "unshare"
  /\ loc[a].own = {}
  /\ Step(a, IF loc[a].undoing THEN "failed" ELSE "readVapp")
  /\ Set(a, [loc[a] EXCEPT !.restored = loc[a].undoing])

\* Variant: all that the vApp is shared with stay.
ReadAll(a) ==
  /\ pc[a] = "readVapp"
  /\ Query(a, "vapp", "rollback")
  /\ Set(a, [loc[a] EXCEPT !.kept = world.vapp])

\* native_get_vapp_settings_only_vapp_shared
ReadVapp(a) ==
  /\ pc[a] = "readVapp"
  /\ Query(a, "vapp", "rollback")
  /\ Set(a, [loc[a] EXCEPT !.kept =
               [u \in Users |-> IF loc[a].prev[u] = Absent THEN world.vapp[u] ELSE Absent]])

\* native_update_vapp_access_settings: a system administrator's client leaves the
\* users of the system organization out.
Wanted(l) ==
  [u \in Users |-> IF l.sysadmin /\ u \in SystemUsers THEN Absent ELSE l.request[u]]

UpdateVapp(a) ==
  /\ pc[a] = "vapp"
  /\ LET wanted == Wanted(loc[a])
     IN  Call(a, [world EXCEPT !.vapp =
                    [u \in Users |-> IF wanted[u] # Absent THEN wanted[u] ELSE loc[a].kept[u]]],
              "done", "rollback")
  /\ UNCHANGED loc

\* The except block: the current ACL is read again and replaced by the previous.
Rollback(a) ==
  /\ pc[a] = "rollback"
  /\ ~loc[a].undoing
  /\ Query(a, "share", "failed")
  /\ Set(a, [loc[a] EXCEPT !.undoing = TRUE, !.entries = loc[a].prev,
                           !.own = Listed(world.entity), !.ids = world.ids])

\* The handler is entered once: an exception in it is the answer.
RollbackFails(a) ==
  /\ pc[a] = "rollback" /\ loc[a].undoing
  /\ Step(a, "failed")
  /\ UNCHANGED loc

Next ==
  \E a \in Actors :
    \/ Read(a) \/ Share(a) \/ Shared(a) \/ Unshare(a) \/ Unshared(a)
    \/ ReadVapp(a) \/ UpdateVapp(a) \/ Rollback(a) \/ RollbackFails(a)

Spec == Init /\ [][Next]_procedureVars

-----------------------------------------------------------------------------
\* After an update that succeeded, and while which no other was at work, the entity
\* is shared as requested with the users of the organization, and the vApp with the
\* same users, on the same level; users whom only the vApp knows keep their access.
\* One that failed, its rollback too or not, leaves each user the old or the new.
\* Updates that overlap are excepted: they may leave the entity as one of them asked
\* and the vApp as the other.
AclsAgree ==
  \A a \in Actors : loc[a].alone =>
    \A u \in Users \ SystemUsers :
      /\ pc[a] = "done" =>
           /\ world.entity[u] = loc[a].request[u]
           /\ loc[a].request[u] # Absent \/ loc[a].prev[u] # Absent =>
                world.vapp[u] = loc[a].request[u]
      /\ pc[a] = "failed" => world.entity[u] \in {loc[a].request[u], loc[a].prev[u]}

\* All updates that have begun ask the same for user u, and none is taken back.
Agreed(u) ==
  \A a, b \in {c \in Actors : Begun(c)} :
    loc[a].request[u] = loc[b].request[u] /\ ~loc[a].undoing

\* What overlapping updates agree on they achieve: a user whom they all give an access
\* has it, in the entity and the vApp, once one of them has succeeded, and a user whom
\* they all leave out is out of the entity.  (Such a user may stay in the vApp: the
\* settings one update keeps may be older than those another wrote.)
AgreedIsShared ==
  \A a \in Actors, u \in Users \ SystemUsers : pc[a] = "done" /\ Agreed(u) =>
    /\ world.entity[u] = loc[a].request[u]
    /\ loc[a].request[u] # Absent => world.vapp[u] = loc[a].request[u]

\* An update that failed while no other was at work leaves the entity shared as
\* before, unless its exception handler raised too.
RollbackRestores ==
  \A a \in Actors : pc[a] = "failed" /\ loc[a].restored /\ loc[a].alone =>
    \A u \in Users \ SystemUsers : world.entity[u] = loc[a].prev[u]
=============================================================================
