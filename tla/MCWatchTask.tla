----------------------------- MODULE MCWatchTask -----------------------------
(* One watch in detail, and a view of two namespaces with a watch each: each  *)
(* part at rest while the other moves.                                        *)
EXTENDS WatchTaskProps

CONSTANTS k1, k2
MCHome == [k \in Keys |-> NoPartition]
\* RBAC may refuse the watch of either kind at any moment, in the middle of a list too, or
\* never: RevokeWatch need not happen.
MCServers == [streaming : BOOLEAN, revocable : {TRUE}]

CONSTANTS
  Names, NameOf, Versions,    \* namespaces, that of a key, and versions of a row
  None, Notice, MaxGen, MaxChanges, MaxFailures, MaxInFlight

CONSTANTS na, nb
MCSpaces == [k \in Keys |-> IF k = k1 THEN na ELSE nb]

VARIABLES
  part,
  existing, objects, changes, failures, watchers, events, generation, onPattern, resolved,
  looking, watched, cache, table

Spaces == INSTANCE NamespaceWatches
          WITH Partitions <- Names, Home <- NameOf, Objects <- Versions,
               chan <- events, ui <- table

ASSUME SpacesAssumption == Spaces!NamespaceAssumption

spaces == <<existing, objects, changes, failures, watchers, events, generation, onPattern,
            resolved, looking, watched, cache, table>>
watches == <<part, spaces, vars>>

\* One state of the part that rests.
NoTask == Init /\ apiServer.streaming /\ hist = <<NoRows>> /\ store = Clear
NoSpaces == Spaces!Init /\ existing = {}

\* Keys are interchangeable: of the clusters that start with one row, one is enough.
WatchesInit ==
  \/ part = "task" /\ Init /\ hist[1][k1] # NoObj /\ NoSpaces
  \/ part = "spaces" /\ Spaces!Init /\ NoTask

OfTask == part = "task" /\ UNCHANGED <<part, spaces>>
OfSpaces == part = "spaces" /\ UNCHANGED <<part, vars>>

WatchesNext ==
  \/ OfTask /\ Next
  \/ OfSpaces /\ Spaces!Next

WatchesSpec ==
  /\ WatchesInit /\ [][WatchesNext]_watches
  /\ WF_watches(OfTask /\ TaskStep) /\ SF_watches(OfTask /\ PollFresh)
  /\ WF_watches(OfTask /\ Send) /\ WF_watches(OfTask /\ HandleMsg)
  /\ \A p \in Names : WF_watches(OfSpaces /\ Spaces!WatchStep(p))
  /\ WF_watches(OfSpaces /\ Spaces!HandleMsg)

-----------------------------------------------------------------------------
\* The rows are those of the server, and each namespace's are its own watch's
\* (WatchTaskProps, NamespaceWatches).
RowsMirror == TableMirrors /\ (part = "spaces" => Spaces!PartitionsMirror)

\* A notice of a failed watch, and the "incomplete" of a view of several namespaces,
\* stand for outages that go on (WatchTaskProps, NamespaceWatches).
NoticesTrue == NoticeEndsWithOutage /\ (part = "spaces" => Spaces!OutageNamed)

\* When cluster, network and user come to rest, so does the table; nothing is left of a
\* watch that failed (WatchTaskProps, NamespaceWatches).
TablesConverge ==
  <>[](IF part = "task" THEN AtRest ELSE Spaces!AtRest)
=============================================================================
