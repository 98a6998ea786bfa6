---------------------------- MODULE MCStatusBar ----------------------------
(* Four parts of small size, each on its own: the status bar; the buffer of   *)
(* the log view; the plaintext of Secrets being edited (two places sofka runs *)
(* at, two edits); and those Secrets (two, that others change to one of two   *)
(* values).                                                                   *)
EXTENDS StatusBarProps

CONSTANTS Procs, Nobody, MaxDirs
CONSTANTS Secrets, NoSecret, Values, Unpinned, MaxRequests, MaxWrites
CONSTANTS LineKinds, Times, Buffer, PausedBuffer, Height, MaxPushed, MaxKeys

VARIABLES
  part,
  lines, offset, markers, revision, index, follow, scroll, filter, warnings, wrap, stamps,
  json, rows, width, pushed, keys,
  entries, there, aged, by, holder, made, at, mine, sweep,
  stored, screen, document, request, waiting, reads, edit, patches

View == INSTANCE LogView WITH Kinds <- LineKinds
Plaintext == INSTANCE SecretFiles
Editing == INSTANCE SecretEdit

ASSUME PartsAssumption ==
  Plaintext!SecretFilesAssumption /\ Editing!SecretEditAssumption

buffer == <<lines, offset, markers, revision, index, follow, scroll, filter, warnings, wrap,
            stamps, json, rows, width, pushed, keys>>
files == <<entries, there, aged, by, holder, made, at, mine, sweep>>
secrets == <<stored, screen, document, request, waiting, reads, edit, patches>>
parts == <<part, vars, buffer, files, secrets>>

\* One state of each part that rests.
NoView ==
  /\ lines = 0 /\ offset = 0 /\ markers = 0 /\ revision = 0 /\ index = 0 /\ follow = 0
  /\ scroll = 0 /\ filter = 0 /\ warnings = 0 /\ wrap = 0 /\ stamps = 0 /\ json = 0
  /\ rows = 0 /\ width = 0 /\ pushed = 0 /\ keys = 0
NoFiles ==
  /\ entries = 0 /\ there = 0 /\ aged = 0 /\ by = 0 /\ holder = 0 /\ made = 0
  /\ at = 0 /\ mine = 0 /\ sweep = 0
NoSecrets ==
  /\ stored = 0 /\ screen = 0 /\ document = 0 /\ request = 0 /\ waiting = 0
  /\ reads = 0 /\ edit = 0 /\ patches = 0

PartsInit ==
  \/ part = "bar" /\ Init /\ NoView /\ NoFiles /\ NoSecrets
  \/ part = "view" /\ View!Init /\ Init /\ NoFiles /\ NoSecrets
  \/ part = "plaintext" /\ Plaintext!Init /\ Init /\ NoView /\ NoSecrets
  \/ part = "editing" /\ Editing!Init /\ Init /\ NoView /\ NoFiles

OfBar == part = "bar" /\ UNCHANGED <<part, buffer, files, secrets>>
OfView == part = "view" /\ UNCHANGED <<part, vars, files, secrets>>
OfPlaintext == part = "plaintext" /\ UNCHANGED <<part, vars, buffer, secrets>>
OfEditing == part = "editing" /\ UNCHANGED <<part, vars, buffer, files>>

PartsNext ==
  \/ OfBar /\ Next
  \/ OfView /\ View!Next
  \/ OfPlaintext /\ Plaintext!Next
  \/ OfEditing /\ Editing!Next

PartsSpec == PartsInit /\ [][PartsNext]_parts

-----------------------------------------------------------------------------
\* The index of what is shown is up to date; a paused view stays where it is as lines
\* arrive, and timestamps and JSON keep the line in view (LogView).
LinesStay ==
  [](part = "view" => View!IndexIsFresh) /\ View!PausedStays /\ View!RestyleKeepsLine

\* No sweep touches a live edit, no plaintext outlives its edit while sofka runs, and a
\* sweep that comes to its end has removed what it could (SecretFiles).
PlaintextAccounted ==
  part = "plaintext" => Plaintext!EditsAccounted /\ Plaintext!SweepsDone

\* No change of a Secret is overwritten unseen (SecretEdit).
NothingUnseenOverwritten == [][part = "editing" => Editing!SeesWhatItOverwrites]_parts
=============================================================================
