-------------------------- MODULE PluginInstallProps --------------------------
(* What must hold of PluginInstall. *)
EXTENDS PluginInstall

Backups(i) == {l \in left : l.kind = "backup" /\ l.id = i}

(* What the next start, after the recovery it may need, would find. *)
Found(i) ==
  LET d == IF active[i] # None THEN active[i]
           ELSE IF Backups(i) # {} THEN (CHOOSE l \in Backups(i) : TRUE).dir ELSE None
  IN  IF d = None THEN None ELSE IF d.files = "owners" THEN Foreign ELSE d.package

Wanted(i) ==
  IF pc \in {"claimRemove", "takeOut"} \/ next = "takeOut" THEN {None : j \in {i} \cap todo}
  ELSE IF op = "remove" THEN {}
  ELSE {p \in todo \cup {q.package : q \in {r \in prepared : r.staged}}
              \cup (IF pc \in {"fetch", "mark", "extract", "record"} THEN {cur} ELSE {}) : p.id = i}

P == INSTANCE PluginSet WITH Absent <- None, Owners <- Foreign,
       installed <- [i \in Ids |-> Found(i)], asked <- [i \in Ids |-> Wanted(i)]

(* An interruption anywhere leaves every plugin as it was or as it was asked
   to become, each by a single step; nothing the owner made or changed is
   replaced or deleted, not even when it was changed while the command
   worked.  (plugin_install.rs 144-238, 609-680, 1002-1155) *)
KeepsPlugins == P!Spec

(* Whatever was interrupted: a plugin that is loaded is all there; recovery can
   tell what each backup is and is not stopped by what sofka itself left; and
   once it has finished, what is left of earlier commands is only stages that
   were never marked as sofka's.  (plugin_install.rs 1086-1155) *)
Whole == \A i \in Ids : active[i] # None => active[i].files # "partial"

Recoverable ==
  \A l \in left : l.kind = "backup" =>
    /\ l.dir.record
    /\ active[l.id] # None => active[l.id].record \/ active[l.id].files = "owners"

Working == {"install", "update", "remove", "prepare", "fetch", "mark", "extract", "record",
            "activate", "claim", "setAside", "swap", "claimRemove", "takeOut"}

Recovered ==
  pc \in Working =>
    \A l \in left : l.run < commands => l.kind = "stage" /\ ~l.dir.marker

RecoveryFinishes == TypeOK /\ Whole /\ Recoverable /\ Recovered
==============================================================================
