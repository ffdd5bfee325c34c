---------------------------- MODULE TemplateBuild ----------------------------
(***************************************************************************)
(* The templates in the catalog of CSE.  cse template install builds one   *)
(* revision of a template in a temporary vApp, captures it as a catalog    *)
(* item, tags the item with the placement policy of its runtime and        *)
(* stamps its metadata on it (template_builder.py, configure_cse.py); cse  *)
(* template import uploads a TKGm OVA and stamps it (server_cli.py,        *)
(* tkgm_template_manager.py).  The server offers the items that have all   *)
(* the metadata (local_template_manager.py).  The vApp is named after the  *)
(* template, so that its revisions share it.                               *)
(***************************************************************************)
EXTENDS Procedures, SequencesExt

CONSTANTS
  Revisions,   \* the revisions of a template, built from one OVA
  PlusOnes,    \* those of the runtime TKG+
  Imports      \* TKGm templates

Items == Revisions \cup Imports

\* An item of an older CSE lacks the range of versions in its metadata.
ItemStates == [tagged : BOOLEAN, meta : {"none", "old", "stamped"}]
Captured   == [tagged |-> FALSE, meta |-> "none"]

\* built: the command went past the look-up; crossed: history, another command
\* changed the item or the vApp meanwhile.
Locals == [cmd : {"install", "import"}, item : Items, force : BOOLEAN, retain : BOOLEAN,
           built : BOOLEAN, crossed : BOOLEAN]

\* The mode of the server, the items, their source, and who made the temporary vApp.
TypeOK ==
  /\ DOMAIN world = {"legacy", "tkgPlus", "item", "ova", "temp"}
  /\ {world.legacy, world.tkgPlus, world.ova} \subseteq BOOLEAN
  /\ world.item \in [Items -> ItemStates \cup {Absent}]
  /\ world.temp \in Actors \cup {Absent, "left behind"}
  /\ loc \in [Actors -> Locals]
  /\ DOMAIN pc = Actors
  /\ faults \in 0..MaxFaults

\* Items of an older CSE or of this one, whatever was enabled when they were made,
\* and what a build that was broken off left; a legacy server has no policies.
Init ==
  /\ \E legacy, tkgPlus \in BOOLEAN, temp \in {Absent, "left behind"},
        old, made \in SUBSET Revisions :
       /\ ~(legacy /\ tkgPlus) /\ (old = {} \/ made = {})
       /\ world = [legacy |-> legacy, tkgPlus |-> tkgPlus, ova |-> temp # Absent, temp |-> temp,
                  item |-> [i \in Items |-> IF i \in old THEN [tagged |-> FALSE, meta |-> "old"]
                                            ELSE IF i \in made
                                            THEN [tagged |-> ~legacy, meta |-> "stamped"]
                                            ELSE Absent]]
  /\ \E cmd \in {"install", "import"}, item \in [Actors -> Items],
        force \in [Actors -> BOOLEAN], retain \in BOOLEAN :
       /\ \A a \in Actors :
            item[a] \in (IF cmd = "import" THEN Imports ELSE Revisions)
       /\ loc = [a \in Actors |->
                   [cmd |-> cmd, item |-> item[a], force |-> force[a], retain |-> retain,
                    built |-> FALSE, crossed |-> FALSE]]
       /\ pc = [a \in Actors |-> cmd]
  /\ faults = 0

Mine(a)  == world.item[loc[a].item]
SetItem(a, state) == [world EXCEPT !.item[loc[a].item] = state]
SetTemp(owner)    == [world EXCEPT !.temp = owner]

\* A change of the item or the vApp crosses the commands that are using it.
Change(a, w, next) ==
  /\ Call(a, w, next, "failed")
  /\ loc' = [b \in Actors |->
               [loc[b] EXCEPT !.crossed = @ \/
                  (b # a /\ world' # world)]]

-----------------------------------------------------------------------------
\* install_template and _install_single_template, up to the build: the extension
\* is there, in the mode of the configuration, the revision is in the cookbook, and
\* its scripts can be downloaded.
Install(a) ==
  /\ pc[a] = "install"
  /\ Query(a, IF ~world.legacy /\ loc[a].item \in PlusOnes /\ ~world.tkgPlus
              THEN "failed" ELSE "build", "failed")
  /\ UNCHANGED loc

\* build: a template that exists is only tagged.
Build(a) ==
  /\ pc[a] = "build"
  /\ LET found == ~loc[a].force /\ Mine(a) # Absent
     IN  /\ Query(a, IF found THEN "tag" ELSE IF loc[a].force THEN "clean item" ELSE "ova", "failed")
         /\ Set(a, [loc[a] EXCEPT !.built = ~found])

\* _cleanup_old_artifacts: the item, the source and the vApp.
CleanItem(a) == pc[a] = "clean item" /\ Change(a, SetItem(a, Absent), "clean ova")
CleanOva(a)  == pc[a] = "clean ova" /\ Change(a, [world EXCEPT !.ova = FALSE], "clean vApp")
CleanVapp(a) == pc[a] = "clean vApp" /\ Change(a, SetTemp(Absent), "ova")

\* _upload_source_ova
UploadOva(a) == pc[a] = "ova" /\ Change(a, [world EXCEPT !.ova = TRUE], "old vApp")

\* _create_temp_vapp: a vApp of that name is deleted, and another made of the OVA.
OldVapp(a)   == pc[a] = "old vApp" /\ Change(a, SetTemp(Absent), "vApp")
CreateVapp(a) ==
  /\ pc[a] = "vApp"
  /\ IF world.ova /\ world.temp = Absent THEN Change(a, SetTemp(a), "customize")
     ELSE Step(a, "failed") /\ UNCHANGED loc

\* _customize_vm
Customize(a) ==
  /\ pc[a] = "customize"
  /\ Query(a, IF world.temp = a THEN "capture" ELSE "failed", "failed")
  /\ UNCHANGED loc

\* _capture_temp_vapp, which overwrites an item of that name.
Capture(a) ==
  /\ pc[a] = "capture"
  /\ IF world.temp = a THEN Change(a, SetItem(a, Captured), "tag")
     ELSE Step(a, "failed") /\ UNCHANGED loc

\* Variant: a forced build leaves its vApp.
AfterTagKept(a) == IF loc[a].built /\ ~loc[a].force /\ ~loc[a].retain THEN "end vApp" ELSE "meta"

\* The tag, which a legacy server does not know; then the vApp, unless it is kept.
AfterTag(a) == IF loc[a].built /\ ~loc[a].retain THEN "end vApp" ELSE "meta"

Tag(a) ==
  /\ pc[a] = "tag"
  /\ IF Mine(a) = Absent /\ ~world.legacy THEN Step(a, "failed") /\ UNCHANGED loc
     ELSE Change(a, IF world.legacy THEN world
                    ELSE SetItem(a, [Mine(a) EXCEPT !.tagged = TRUE]), AfterTag(a))

EndVapp(a) == pc[a] = "end vApp" /\ Change(a, SetTemp(Absent), "meta")

\* Variant: the metadata is saved before the tag as well.
StampEarly(a) ==
  /\ pc[a] \in {"tag", "meta"}
  /\ IF Mine(a) = Absent THEN Step(a, "failed") /\ UNCHANGED loc
     ELSE Change(a, SetItem(a, [Mine(a) EXCEPT !.meta = "stamped"]), "done")

\* save_metadata, all of it in one call.
SaveMetadata(a) ==
  /\ pc[a] = "meta"
  /\ IF Mine(a) = Absent THEN Step(a, "failed") /\ UNCHANGED loc
     ELSE Change(a, SetItem(a, [Mine(a) EXCEPT !.meta = "stamped"]), "done")

-----------------------------------------------------------------------------
\* import_tkgm_template: the user may decline a file that is not named as TKGm's are.
Import(a) ==
  /\ pc[a] = "import"
  /\ Query(a, "upload", "failed") \/ Step(a, "done")
  /\ UNCHANGED loc

\* upload_tkgm_template: without force an item of that name ends the command.
Upload(a) ==
  /\ pc[a] = "upload"
  /\ LET found == Mine(a) # Absent
     IN  Query(a, IF ~found THEN "ovf" ELSE IF loc[a].force THEN "delete" ELSE "exists", "failed")
  /\ UNCHANGED loc

Exists(a) == pc[a] = "exists" /\ Step(a, "done") /\ UNCHANGED loc

DeleteImport(a) == pc[a] = "delete" /\ Change(a, SetItem(a, Absent), "ovf")

\* upload_ova_to_catalog leaves an item that exists.
UploadOvf(a) ==
  /\ pc[a] = "ovf"
  /\ Change(a, IF Mine(a) = Absent THEN SetItem(a, Captured) ELSE world, "property")

\* get_template_property; the import ends with the metadata.
GetProperty(a) ==
  /\ pc[a] = "property"
  /\ Query(a, IF Mine(a) = Absent THEN "failed" ELSE "meta", "failed")
  /\ Set(a, [loc[a] EXCEPT !.built = TRUE])

-----------------------------------------------------------------------------
\* get_all_k8s_local_template_definition and read_all_tkgm_template: the items that
\* have the metadata of the mode.
HasMetadata(i) ==
  /\ world.item[i] # Absent
  /\ world.item[i].meta = "stamped" \/ (world.legacy /\ world.item[i].meta = "old")

\* get_valid_k8s_local_template_definition removes from the list it walks, so that
\* the template after one that was removed is not looked at.
get_valid(list, plus) ==
  LET walked[i \in 0..Len(list)] ==
        IF i = 0 THEN [kept |-> {}, skip |-> FALSE]
        ELSE LET before == walked[i - 1]
             IN  IF ~before.skip /\ list[i] \in plus THEN [before EXCEPT !.skip = TRUE]
                 ELSE [kept |-> before.kept \cup {list[i]}, skip |-> FALSE]
  IN  walked[Len(list)].kept

Complete(i) ==
  /\ world.item[i] # Absent
  /\ world.item[i].meta # "none"
  /\ i \in Imports \/ world.legacy \/ world.item[i].tagged

\* The command is run again.
Again(a) ==
  /\ pc[a] = "failed"
  /\ \E force \in BOOLEAN : Set(a, [loc[a] EXCEPT !.force = force, !.built = FALSE])
  /\ Step(a, loc[a].cmd)

Next ==
  \E a \in Actors :
    \/ Install(a) \/ Build(a) \/ CleanItem(a) \/ CleanOva(a) \/ CleanVapp(a)
    \/ UploadOva(a) \/ OldVapp(a) \/ CreateVapp(a) \/ Customize(a) \/ Capture(a)
    \/ Tag(a) \/ EndVapp(a) \/ SaveMetadata(a)
    \/ Import(a) \/ Upload(a) \/ Exists(a) \/ DeleteImport(a) \/ UploadOvf(a) \/ GetProperty(a)
    \/ Again(a)

Spec == Init /\ [][Next]_procedureVars

-----------------------------------------------------------------------------
\* Another command may have changed the item while it was being made.
Disputed(i) == \E a \in Actors : loc[a].item = i /\ loc[a].crossed

\* The items with metadata, and those of a runtime that the server does not serve.
Stamped  == {i \in Revisions : HasMetadata(i)}
Disabled == IF world.legacy \/ world.tkgPlus THEN {} ELSE PlusOnes

\* Whenever the server is started, and in whatever order the catalog is listed, it
\* offers no template whose making failed half-way: what it offers carries the tag
\* of its policy.  It offers all that carry their metadata, of the runtimes it
\* serves.  Of TKG+, when that is disabled, it should offer none, as the comment in
\* the loop says (Skip the template), but does offer one that is listed right after
\* another of TKG+ that was skipped.
OfferedAreComplete ==
  \A list \in SetToSeqs(Stamped) :
    LET offered == get_valid(list, Disabled)
    IN  /\ \A i \in offered : Complete(i) \/ Disputed(i)
        /\ Stamped \ Disabled \subseteq offered
        /\ \A i \in offered \cap Disabled :
             \E n \in 1..(Len(list) - 1) : list[n + 1] = i /\ list[n] \in Disabled \ offered

\* A command that succeeded leaves its template complete, and no vApp unless it was
\* asked to or found the template there.
BuiltIsComplete ==
  \A a \in Actors : pc[a] = "done" /\ ~loc[a].crossed =>
    /\ loc[a].cmd = "install" \/ loc[a].built =>
         Complete(loc[a].item) /\ world.item[loc[a].item].meta = "stamped"
    /\ loc[a].cmd = "install" /\ loc[a].built /\ ~loc[a].retain => world.temp = Absent
=============================================================================
