---------------------------- MODULE PluginInstall ----------------------------
(***************************************************************************)
(* `sofka plugin install | update | remove` (src/src/plugin_install.rs,    *)
(* plugin_cli.rs, plugin_catalog.rs): every step on the file system, with  *)
(* the process killed, or the step failing, at any of them, and the        *)
(* recovery that the next command begins with.  The lock file leaves one   *)
(* command at work at a time; the owner of the directory is not held by it.*)
(***************************************************************************)
EXTENDS Naturals

CONSTANTS
  Ids,
  Indexes,      \* indexes a catalog may serve: sets of releases
  Sources,      \* catalogs enabled in catalogs.toml
  Before,       \* what is there when the model starts: plugins, and .plugin-trash,
                \* in which the owner may keep files
  None, Foreign,
  MaxCommands, MaxFaults, MaxCrashes, MaxEdits   \* bounds

Listed == UNION Indexes
Packages == {[id |-> r.id, version |-> r.version, source |-> r.source] : r \in Listed}

(* A package directory: the release it was unpacked from, whether its record
   and its staging marker are there, and its other files: as the record says,
   not all there, or changed by their owner.  *)
Dir == [package : Packages \cup {None}, record : BOOLEAN, marker : BOOLEAN,
        files : {"whole", "partial", "owners"}]

BeforeOK(b) ==
  /\ b.active \in [Ids -> Dir \cup {None}]
  /\ b.trash \in {"none", "empty", "ours", "foreign"}
  /\ \A i \in Ids : b.active[i] # None => b.active[i].files # "partial"

InstallAssumption ==
  /\ Listed \subseteq [id : Ids, version : Nat \ {0}, source : STRING,
                       stable : BOOLEAN, active : BOOLEAN, fits : BOOLEAN]
  /\ None \notin Packages /\ None \notin Indexes /\ None \notin Dir
  /\ Foreign \notin Packages /\ Foreign # None
  /\ \A b \in Before : BeforeOK(b)
  /\ {MaxCommands, MaxFaults, MaxCrashes, MaxEdits} \subseteq Nat

VARIABLES
  active,     \* plugins/<id>: a directory, or None
  left,       \* .plugin-stage-*, .plugin-backup-* and what .plugin-trash holds
  trash,      \* .plugin-trash
  index,      \* the catalog cache: an index, or None
  op, pc,     \* the command that holds the lock, and its next step
  offered,    \* the index an install selects from
  requests,   \* what the command was asked for: ids, with a version (0 for the newest),
              \* until that is decided
  entries,    \* recovery: what read_dir found and was not looked at yet
  todo,       \* packages still to prepare, or ids still to take out
  prepared,   \* PreparedPackage: activated in any order
  cur,        \* the package at work
  victim, next,   \* remove_dir_all: of what, and what follows
  commands, faults, crashes, edits

disk == <<active, left, trash>>
plan == <<offered, requests, todo>>
bounds == <<commands, faults, crashes, edits>>
vars == <<disk, index, op, pc, plan, entries, prepared, cur, victim, next, bounds>>

Manual == [package |-> None, record |-> FALSE, marker |-> FALSE, files |-> "owners"]
Kinds == {"stage", "backup", "removed"}

TypeOK ==
  /\ active \in [Ids -> Dir \cup {None}]
  /\ left \subseteq [kind : Kinds, id : Ids, run : Nat, dir : Dir]
  /\ trash \in {"none", "empty", "ours", "foreign"}
  /\ index \in Indexes \cup {None} /\ offered \in Indexes \cup {None}
  /\ op \in {"none", "install", "update", "remove"}
  /\ requests \subseteq [id : Ids, version : Nat]
  /\ entries \subseteq left
  /\ prepared \subseteq [package : Packages, staged : BOOLEAN]
  /\ cur \in Packages \cup {None}
  /\ victim \in left \cup {None}

Init ==
  /\ \E b \in Before : active = b.active /\ trash = b.trash
  /\ left = {}
  /\ index = None /\ offered = None
  /\ op = "none" /\ pc = "idle" /\ requests = {} /\ entries = {} /\ todo = {}
  /\ prepared = {} /\ cur = None /\ victim = None /\ next = "idle"
  /\ commands = 0 /\ faults = 0 /\ crashes = 0 /\ edits = 0

-----------------------------------------------------------------------------
(* The catalog *)

Of(idx, id) == {r \in idx : r.id = id}
Compatible(r) == r.stable /\ r.fits /\ r.active
Newest(rs) == {r \in rs : \A s \in rs : s.version <= r.version}
Package(r) == [id |-> r.id, version |-> r.version, source |-> r.source]

(* Catalog::select: {} is an error.  An id in two catalogs is ambiguous. *)
Select(idx, q) ==
  LET listed == Of(idx, q.id)
      named == {r \in listed : r.version = q.version /\ r.active /\ r.fits}
      stable == {r \in listed : Compatible(r)}
  IN  IF \E r, s \in listed : r.source # s.source THEN {}
      ELSE IF q.version # 0 THEN {Package(r) : r \in named}
      ELSE {Package(r) : r \in Newest(stable)}

UpdatePlan(idx, id, installed) ==
  LET best == Select(idx, [id |-> id, version |-> 0])
      same == {r \in Of(idx, id) : r.version = installed}
  IN  CASE best = {} -> "unavailable"
        [] \E p \in best : p.version > installed -> "newer"
        [] same = {} -> "unlisted"
        [] \E r \in same : ~r.active -> "withdrawn"
        [] OTHER -> "current"

(* load_sources: the index of the moment, or with --offline the cached one.
   A fetch fails with the network; that the cache cannot be written does not
   matter.  None is the error. *)
Load(idx) ==
  \/ /\ idx \in Indexes
     /\ index' \in {idx, index}
  \/ /\ idx = index
     /\ UNCHANGED index

-----------------------------------------------------------------------------
(* A command ends, fails, or is killed *)

Fault == faults < MaxFaults /\ faults' = faults + 1
NoFault == UNCHANGED faults
Rest == UNCHANGED <<commands, crashes, edits>>

Clear ==
  /\ op' = "none" /\ pc' = "idle" /\ requests' = {} /\ entries' = {} /\ todo' = {}
  /\ prepared' = {} /\ cur' = None /\ victim' = None /\ next' = "idle"
  /\ offered' = None

Crash ==
  /\ op # "none" /\ crashes < MaxCrashes
  /\ crashes' = crashes + 1
  /\ Clear
  /\ UNCHANGED <<disk, index, commands, faults, edits>>

Begin(o, qs) ==
  /\ op = "none" /\ commands < MaxCommands
  /\ op' = o /\ requests' = qs /\ pc' = "recover" /\ commands' = commands + 1
  /\ entries' = left
  /\ UNCHANGED <<disk, todo, prepared, cur, victim, next, faults, crashes, edits>>

(* install loads the catalog before it takes the lock. *)
Requests == [id : Ids, version : {0}] \cup {[id |-> p.id, version |-> p.version] : p \in Packages}

StartInstall ==
  \E qs \in SUBSET Requests \ {{}}, idx \in Indexes \cup {index} :
    /\ idx # None
    /\ \A q, s \in qs : q.id = s.id => q = s
    /\ Load(idx) /\ offered' = idx
    /\ Begin("install", qs)

StartOther ==
  \E o \in {"update", "remove"}, ids \in SUBSET Ids \ {{}} :
    /\ Begin(o, [id : ids, version : {0}])
    /\ UNCHANGED <<index, offered>>

End == Clear /\ UNCHANGED <<disk, index, bounds>>

-----------------------------------------------------------------------------
(* remove_dir_all deletes entry by entry, in any order.  What it has begun on
   is only whole again if nothing was deleted yet.  *)

Eroded(d) ==
  {[d EXCEPT !.marker = FALSE], [d EXCEPT !.record = FALSE], [d EXCEPT !.files = "partial"]} \ {d}

Erase(l, then) == victim' = l /\ pc' = "erase" /\ next' = then

ErodeStep ==
  /\ pc = "erase"
  /\ \E d \in Eroded(victim.dir) :
       /\ victim' = [victim EXCEPT !.dir = d]
       /\ left' = (left \ {victim}) \cup {victim'}
  /\ UNCHANGED <<active, trash, index, op, pc, plan, entries, prepared, cur, next, bounds>>

Erased ==
  /\ pc = "erase"
  /\ left' = left \ {victim} /\ victim' = None /\ pc' = next /\ next' = "idle"
  /\ UNCHANGED <<active, trash, index, op, plan, entries, prepared, cur, bounds>>

(* A failed deletion ends a recovery and a removal, with its error; after an
   activation the package counts as failed, and of a stage nobody asks. *)
EraseFails ==
  /\ pc = "erase" /\ Fault
  /\ victim' = None /\ next' = "idle"
  /\ pc' = IF next \in {"recover", "takeOut"} THEN "end" ELSE next
  /\ UNCHANGED <<disk, index, op, plan, entries, prepared, cur>> /\ Rest

Finish == pc = "end" /\ End

-----------------------------------------------------------------------------
(* trash: a directory that is not marked and not empty is somebody else's *)

ClaimTrash ==
  /\ pc \in {"claim", "claimRetire", "claimRemove"}
  /\ \/ /\ trash = "none" /\ trash' = "empty" /\ NoFault
        /\ UNCHANGED <<pc, left, prepared, cur, victim, next>>
     \/ /\ trash = "empty" /\ trash' = "ours" /\ NoFault
        /\ UNCHANGED <<pc, left, prepared, cur, victim, next>>
     \/ /\ trash = "ours" /\ NoFault
        /\ pc' = CASE pc = "claim" -> "setAside" [] pc = "claimRetire" -> "retireOld"
                   [] OTHER -> "takeOut"
        /\ UNCHANGED <<trash, left, prepared, cur, victim, next>>
  /\ UNCHANGED <<active, index, op, plan, entries>> /\ Rest

(* Refused, or failing: recovery and removal end, an activation gives up its
   package and Drop deletes the stage. *)
OwnStage(p) == {l \in left : l.kind = "stage" /\ l.id = p.id /\ l.run = commands}

GiveUp(p) ==
  /\ prepared' = prepared \ {[package |-> p, staged |-> TRUE]} /\ cur' = None
  /\ \E l \in OwnStage(p) : Erase(l, "activate")

ClaimFails ==
  /\ pc \in {"claim", "claimRetire", "claimRemove"}
  /\ \/ trash = "foreign" /\ NoFault
     \/ trash \in {"none", "empty"} /\ Fault
  /\ IF pc = "claim" THEN GiveUp(cur)
     ELSE pc' = "end" /\ UNCHANGED <<prepared, cur, victim, next>>
  /\ UNCHANGED <<disk, index, op, plan, entries>> /\ Rest

-----------------------------------------------------------------------------
(* recover: every entry of the configuration directory, in any order *)

RecoverStage ==
  /\ pc = "recover"
  /\ \E l \in entries :
       /\ l.kind = "stage" /\ entries' = entries \ {l}
       /\ IF l.dir.marker THEN Erase(l, "recover") ELSE UNCHANGED <<victim, pc, next>>
  /\ UNCHANGED <<disk, index, op, plan, prepared, cur, bounds>>

(* empty_trash: what was renamed into it is committed for deletion. *)
RecoverTrash ==
  /\ pc = "recover"
  /\ \E l \in entries :
       /\ l.kind = "removed" /\ entries' = entries \ {l}
       /\ Erase(l, "recover")
  /\ UNCHANGED <<disk, index, op, plan, prepared, cur, bounds>>

Restore(l) ==
  /\ active[l.id] = None
  /\ \/ /\ active' = [active EXCEPT ![l.id] = l.dir] /\ left' = left \ {l} /\ NoFault
        /\ UNCHANGED pc
     \/ Fault /\ pc' = "end" /\ UNCHANGED <<active, left>>
  /\ UNCHANGED victim

(* A backup is identified by its record; one that cannot be, or whose
   destination somebody else took, stops the command. *)
RecoverBackup ==
  /\ pc = "recover"
  /\ \E l \in entries :
       /\ l.kind = "backup" /\ entries' = entries \ {l}
       /\ IF ~l.dir.record \/ (active[l.id] # None /\ ~active[l.id].record)
          THEN pc' = "end" /\ NoFault /\ UNCHANGED <<active, left, victim>>
          ELSE \/ Restore(l)
               \/ /\ active[l.id] # None /\ NoFault
                  /\ pc' = "claimRetire" /\ victim' = l
                  /\ UNCHANGED <<active, left>>
  /\ UNCHANGED <<trash, index, op, plan, prepared, cur, next>> /\ Rest

(* Renamed first: a half-deleted backup could not be identified. *)
RetireOld ==
  /\ pc = "retireOld"
  /\ LET gone == [victim EXCEPT !.kind = "removed"]
     IN  \/ left' = (left \ {victim}) \cup {gone} /\ Erase(gone, "recover") /\ NoFault
         \/ Fault /\ pc' = "end" /\ UNCHANGED <<left, victim, next>>
  /\ UNCHANGED <<active, trash, index, op, plan, entries, prepared, cur>> /\ Rest

(* The markers an interrupted activation left, then the command proper. *)
RecoverMarkers ==
  /\ pc = "recover" /\ entries = {}
  /\ active' = [i \in Ids |->
       IF active[i] # None /\ active[i].marker /\ active[i].record
       THEN [active[i] EXCEPT !.marker = FALSE] ELSE active[i]]
  /\ pc' = op
  /\ UNCHANGED <<left, trash, index, op, plan, entries, prepared, cur, victim, next, bounds>>

RecoverMarkersFails ==
  /\ pc = "recover" /\ entries = {} /\ Fault
  /\ \E i \in Ids : active[i] # None /\ active[i].marker /\ active[i].record
  /\ pc' = "end"
  /\ UNCHANGED <<disk, index, op, plan, entries, prepared, cur, victim, next>> /\ Rest

-----------------------------------------------------------------------------
(* What to prepare *)

Intact(id) == active[id] # None /\ active[id].record /\ active[id].files = "whole"
Managed(id) == active[id] # None /\ active[id].record

(* All requests are selected before anything is touched. *)
SelectAll ==
  /\ pc = "install"
  /\ IF \E q \in requests : Select(offered, q) = {}
     THEN pc' = "end" /\ UNCHANGED todo
     ELSE pc' = "prepare" /\ todo' = UNION {Select(offered, q) : q \in requests}
  /\ offered' = None /\ requests' = {}
  /\ UNCHANGED <<disk, index, op, entries, prepared, cur, victim, next, bounds>>

(* triage, then update_plan for each installation that is as installed and
   whose catalog is enabled; only its own catalog counts. *)
Updates(idx) ==
  LET ready == {q.id : q \in {r \in requests : Intact(r.id)}} \cap
               {i \in Ids : Managed(i) /\ active[i].package.source \in Sources}
      own(i) == {r \in idx : r.source = active[i].package.source}
  IN  {p \in UNION {Select(own(i), [id |-> i, version |-> 0]) : i \in ready} :
        UpdatePlan(own(p.id), p.id, active[p.id].package.version) = "newer"}

PlanUpdate ==
  /\ pc = "update"
  /\ \E idx \in Indexes \cup {index} :
       /\ idx # None /\ Load(idx)
       /\ todo' = Updates(idx) /\ requests' = {}
       /\ pc' = IF Updates(idx) = {} THEN "end" ELSE "prepare"
  /\ UNCHANGED <<disk, op, offered, entries, prepared, cur, victim, next, bounds>>

(* prepare_below, for one package: nothing to do, refused, or a stage. *)
Prepare(p) ==
  /\ pc = "prepare" /\ p \in todo
  /\ todo' = todo \ {p}
  /\ IF active[p.id] # None /\ (~Intact(p.id) \/ active[p.id].package.source # p.source)
     THEN pc' = "dropAll" /\ UNCHANGED <<prepared, cur>>
     ELSE IF active[p.id] # None /\ active[p.id].package = p
     THEN prepared' = prepared \cup {[package |-> p, staged |-> FALSE]} /\ UNCHANGED <<pc, cur>>
     ELSE cur' = p /\ pc' = "fetch" /\ UNCHANGED prepared
  /\ UNCHANGED <<disk, index, op, offered, requests, entries, victim, next, bounds>>

(* artifact_from: the archive is the one the catalog names, byte for byte,
   from the cache or the network; or there is none. *)
Fetch ==
  /\ pc = "fetch"
  /\ \/ /\ left' = left \cup {[kind |-> "stage", id |-> cur.id, run |-> commands,
             dir |-> [package |-> cur, record |-> FALSE, marker |-> FALSE, files |-> "partial"]]}
        /\ pc' = "mark" /\ NoFault
     \/ Fault /\ pc' = "dropAll" /\ UNCHANGED left
  /\ UNCHANGED <<active, trash, index, op, plan, entries, prepared, cur, victim, next>> /\ Rest

Marked(d) == [d EXCEPT !.marker = TRUE]
Unpacked(d) == [d EXCEPT !.files = "whole"]
Recorded(d) == [d EXCEPT !.record = TRUE]

StageBecomes(l, dir, then) ==
  left' = (left \ {l}) \cup {[l EXCEPT !.dir = dir]} /\ pc' = then

MarkStage ==
  /\ pc = "mark"
  /\ \/ (\E l \in OwnStage(cur) : StageBecomes(l, Marked(l.dir), "extract")) /\ NoFault
     \/ Fault /\ pc' = "dropAll" /\ UNCHANGED left
  /\ UNCHANGED <<active, trash, index, op, plan, entries, prepared, cur, victim, next>> /\ Rest

(* extract and reconcile; then the record, written atomically.  An archive
   that contradicts its catalog entry is refused. *)
Extract ==
  /\ pc = "extract"
  /\ \/ (\E l \in OwnStage(cur) : StageBecomes(l, Unpacked(l.dir), "record")) /\ NoFault /\ UNCHANGED <<victim, next>>
     \/ Fault /\ UNCHANGED left /\ \E l \in OwnStage(cur) : Erase(l, "dropAll")
  /\ UNCHANGED <<active, trash, index, op, plan, entries, prepared, cur>> /\ Rest

WriteRecord ==
  /\ pc = "record"
  /\ \/ /\ (\E l \in OwnStage(cur) : StageBecomes(l, Recorded(l.dir), "prepare")) /\ NoFault
        /\ prepared' = prepared \cup {[package |-> cur, staged |-> TRUE]} /\ cur' = None
        /\ UNCHANGED <<victim, next>>
     \/ Fault /\ UNCHANGED <<left, prepared, cur>> /\ \E l \in OwnStage(cur) : Erase(l, "dropAll")
  /\ UNCHANGED <<active, trash, index, op, plan, entries>> /\ Rest

AllPrepared ==
  /\ pc = "prepare" /\ todo = {}
  /\ pc' = "activate"
  /\ UNCHANGED <<disk, index, op, plan, entries, prepared, cur, victim, next, bounds>>

(* One error gives up the batch: Drop deletes what was staged. *)
DropAll ==
  /\ pc = "dropAll"
  /\ IF \E q \in prepared : q.staged
     THEN \E q \in prepared :
            /\ q.staged /\ prepared' = prepared \ {q}
            /\ \E l \in OwnStage(q.package) : Erase(l, "dropAll")
     ELSE pc' = "end" /\ UNCHANGED <<prepared, victim, next>>
  /\ UNCHANGED <<disk, index, op, plan, entries, cur, bounds>>

-----------------------------------------------------------------------------
(* activate: one package after the other; one that fails does not stop the
   others *)

NothingToActivate ==
  /\ pc = "activate"
  /\ \E q \in prepared : ~q.staged /\ prepared' = prepared \ {q}
  /\ UNCHANGED <<disk, index, op, pc, plan, entries, cur, victim, next, bounds>>

InspectNot ==
  /\ pc = "activate"
  /\ \E q \in prepared :
       /\ q.staged /\ cur' = q.package
       /\ pc' = IF active[q.package.id] = None THEN "swap" ELSE "claim"
  /\ UNCHANGED <<disk, index, op, plan, entries, prepared, victim, next, bounds>>

(* Inspected again: preparing takes long, and the owner was not locked out. *)
Inspect ==
  /\ pc = "activate"
  /\ \E q \in prepared :
       /\ q.staged
       /\ IF active[q.package.id] = None
          THEN pc' = "swap" /\ cur' = q.package /\ UNCHANGED <<prepared, victim, next>>
          ELSE IF Intact(q.package.id)
          THEN pc' = "claim" /\ cur' = q.package /\ UNCHANGED <<prepared, victim, next>>
          ELSE GiveUp(q.package)
  /\ UNCHANGED <<disk, index, op, plan, entries, bounds>>

Backup == {l \in left : l.kind = "backup" /\ l.id = cur.id /\ l.run = commands}

SetAside ==
  /\ pc = "setAside"
  /\ \/ /\ active' = [active EXCEPT ![cur.id] = None]
        /\ left' = left \cup {[kind |-> "backup", id |-> cur.id, run |-> commands, dir |-> active[cur.id]]}
        /\ pc' = "swap" /\ NoFault /\ UNCHANGED <<prepared, cur, victim, next>>
     \/ Fault /\ GiveUp(cur) /\ UNCHANGED <<active, left>>
  /\ UNCHANGED <<trash, index, op, plan, entries>> /\ Rest

Swap ==
  /\ pc = "swap" /\ active[cur.id] = None
  /\ \E l \in OwnStage(cur) :
       active' = [active EXCEPT ![cur.id] = l.dir] /\ left' = left \ {l}
  /\ prepared' = prepared \ {[package |-> cur, staged |-> TRUE]}
  /\ pc' = "unmark"
  /\ UNCHANGED <<trash, index, op, plan, entries, cur, victim, next, bounds>>

(* The destination was taken, or the rename failed: put the old one back, if
   that works, and give the new one up.  *)
SwapFails ==
  /\ pc = "swap"
  /\ \/ active[cur.id] # None /\ NoFault /\ UNCHANGED <<active, left>>
     \/ active[cur.id] = None /\ Fault
        /\ IF Backup = {} THEN UNCHANGED <<active, left>>
           ELSE \E l \in Backup :
                  /\ active' = [active EXCEPT ![cur.id] = l.dir]
                  /\ left' = left \ {l}
     \/ active[cur.id] = None /\ Fault /\ Backup # {} /\ UNCHANGED <<active, left>>
  /\ GiveUp(cur)
  /\ UNCHANGED <<trash, index, op, plan, entries>> /\ Rest

Unmark ==
  /\ pc = "unmark"
  /\ \/ /\ active' = [active EXCEPT ![cur.id].marker = FALSE] /\ NoFault
        /\ IF Backup = {} THEN pc' = "activate" /\ cur' = None
           ELSE pc' = "retire" /\ UNCHANGED cur
     \/ Fault /\ pc' = "activate" /\ cur' = None /\ UNCHANGED active
  /\ UNCHANGED <<left, trash, index, op, plan, entries, prepared, victim, next>> /\ Rest

RetireInPlace ==
  /\ pc = "retire" /\ cur' = None
  /\ \E l \in Backup : Erase(l, "activate")
  /\ UNCHANGED <<disk, index, op, plan, entries, prepared, bounds>>

Retire ==
  /\ pc = "retire" /\ cur' = None
  /\ \/ \E l \in Backup :
          LET gone == [l EXCEPT !.kind = "removed"]
          IN  left' = (left \ {l}) \cup {gone} /\ Erase(gone, "activate") /\ NoFault
     \/ Fault /\ pc' = "activate" /\ UNCHANGED <<left, victim, next>>
  /\ UNCHANGED <<active, trash, index, op, plan, entries, prepared>> /\ Rest

AllActivated ==
  /\ pc = "activate" /\ prepared = {}
  /\ End

-----------------------------------------------------------------------------
(* remove: every id is checked before the first is taken out *)

CheckRemovals ==
  /\ pc = "remove"
  /\ IF \A q \in requests : Intact(q.id)
     THEN pc' = "claimRemove" /\ todo' = {q.id : q \in requests}
     ELSE pc' = "end" /\ UNCHANGED todo
  /\ requests' = {}
  /\ UNCHANGED <<disk, index, op, offered, entries, prepared, cur, victim, next, bounds>>

TakeOut ==
  /\ pc = "takeOut"
  /\ \E i \in todo :
       \/ LET gone == [kind |-> "removed", id |-> i, run |-> commands, dir |-> active[i]]
          IN  /\ active' = [active EXCEPT ![i] = None] /\ left' = left \cup {gone}
              /\ todo' = todo \ {i} /\ Erase(gone, "takeOut") /\ NoFault
       \/ Fault /\ pc' = "end" /\ UNCHANGED <<active, left, todo, victim, next>>
  /\ UNCHANGED <<trash, index, op, offered, requests, entries, prepared, cur>> /\ Rest

AllOut ==
  /\ pc = "takeOut" /\ todo = {}
  /\ End

-----------------------------------------------------------------------------
(* The owner *)

(* Between the last look at a directory and the rename that follows it no
   code can notice an edit; a removal checks all its ids first, so there that
   lasts for the batch.  Edits in those moments are left out.  *)
Watched(i) ==
  \/ pc \in {"claim", "setAside"} /\ cur.id = i
  \/ (pc \in {"claimRemove", "takeOut"} \/ next = "takeOut") /\ i \in todo

Edit(i) ==
  /\ edits < MaxEdits /\ edits' = edits + 1
  /\ ~Watched(i)
  /\ active' = [active EXCEPT ![i] = IF @ = None THEN Manual ELSE [@ EXCEPT !.files = "owners"]]
  /\ active' # active
  /\ UNCHANGED <<left, trash, index, op, pc, plan, entries, prepared, cur, victim, next,
                 commands, faults, crashes>>

Recovery ==
  RecoverStage \/ RecoverTrash \/ RecoverBackup \/ RetireOld \/ RecoverMarkers \/ RecoverMarkersFails
Preparation ==
  \/ SelectAll \/ PlanUpdate \/ (\E p \in Packages : Prepare(p)) \/ Fetch \/ MarkStage \/ Extract
  \/ WriteRecord \/ AllPrepared \/ DropAll
Activation ==
  NothingToActivate \/ Inspect \/ SetAside \/ Swap \/ SwapFails \/ Unmark \/ Retire \/ AllActivated
Removal == CheckRemovals \/ TakeOut \/ AllOut
Command ==
  \/ ErodeStep \/ Erased \/ EraseFails \/ Finish \/ ClaimTrash \/ ClaimFails
  \/ Recovery \/ Preparation \/ Activation \/ Removal

Next == StartInstall \/ StartOther \/ Command \/ Crash \/ \E i \in Ids : Edit(i)

Spec == Init /\ [][Next]_vars
==============================================================================
