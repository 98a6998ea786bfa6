----------------------------- MODULE MCOutside -----------------------------
(* What sofka makes outside itself, each on its own: helper pods in a cluster  *)
(* (one claim that a pod without a shell mounts read-only beside others, and   *)
(* one that nothing mounts), and plugins on the disk (two, one of which gets a *)
(* newer version and loses its old one to a withdrawal, and the other turns up *)
(* in a catalog that is not enabled).                                          *)
EXTENDS PvcExploreProps, TLC

CONSTANTS data, w1, w2

MCConsumer == [w \in {w1, w2} |-> data]
MCSubPath == [w \in {w1, w2} |-> WholeVolume]
MCNode == [w \in {w1, w2} |-> "n1"]
MCModes == [c \in {data} |-> {"RWO"}]

CONSTANTS Ids, Indexes, Sources, Before, Missing, Foreign, MaxCommands, MaxFaults, MaxCrashes,
          MaxEdits
CONSTANTS log, net

MCIds == {log, net}

Release(i, v, s, ok) ==
  [id |-> i, version |-> v, source |-> s, stable |-> TRUE, active |-> ok, fits |-> TRUE]

MCIndexes == {{Release(log, 1, "official", TRUE), Release(net, 1, "official", TRUE)},
              {Release(log, 1, "official", FALSE), Release(log, 2, "official", TRUE),
               Release(net, 2, "mine", TRUE)}}

Old(i) == [package |-> [id |-> i, version |-> 1, source |-> "official"],
           record |-> TRUE, marker |-> FALSE, files |-> "whole"]
Unrecorded == [package |-> Missing, record |-> FALSE, marker |-> FALSE, files |-> "owners"]

MCBefore == {[active |-> (log :> Old(log)) @@ (net :> Old(net)), trash |-> "none"],
             [active |-> (log :> Missing) @@ (net :> Unrecorded), trash |-> "foreign"]}

VARIABLES
  part,
  active, left, trash, index, op, pc, offered, requests, entries, todo, prepared, cur,
  victim, next, commands, faults, crashes, edits

Install == INSTANCE PluginInstallProps WITH None <- Missing

ASSUME PluginsAssumption == Install!InstallAssumption

plugins == <<active, left, trash, index, op, pc, offered, requests, entries, todo, prepared,
             cur, victim, next, commands, faults, crashes, edits>>
outside == <<part, plugins, vars>>

\* One state of the part that rests.
NoCommand == Install!Init /\ trash = "none"
NoBrowser == Init

OutsideInit ==
  \/ part = "browser" /\ Init /\ NoCommand
  \/ part = "plugins" /\ Install!Init /\ NoBrowser

OfBrowser == part = "browser" /\ UNCHANGED <<part, plugins>>
OfPlugins == part = "plugins" /\ UNCHANGED <<part, vars>>

OutsideNext ==
  \/ OfBrowser /\ Next
  \/ OfPlugins /\ Install!Next

OutsideSpec ==
  /\ OutsideInit /\ [][OutsideNext]_outside
  /\ \A h \in Helpers : WF_outside(OfBrowser /\ HelperAnswers(h))
  /\ \A h \in Helpers, c \in Contexts :
       WF_outside(OfBrowser /\ [pod |-> h, ctx |-> c] \in deletes
                            /\ DeleteRuns([pod |-> h, ctx |-> c]))

-----------------------------------------------------------------------------
\* Recovery can finish what any command left (PluginInstallProps).
RecoveryFinishes == part = "plugins" => Install!RecoveryFinishes

\* An interruption leaves a plugin old or new (PluginInstallProps).
KeepsPlugins == Install!KeepsPlugins
=============================================================================
