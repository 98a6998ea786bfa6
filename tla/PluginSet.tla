------------------------------ MODULE PluginSet ------------------------------
(***************************************************************************)
(* What installing, updating and removing plugins promises, seen from the  *)
(* next start of the program: each plugin is what it was, or what a        *)
(* command was asked to make of it, or what its owner made of it.  A       *)
(* command changes a plugin at most once, in one step, and only a plugin   *)
(* that is as it was installed.                                            *)
(***************************************************************************)
CONSTANTS
    Ids,        \* plugin ids
    Packages,   \* what can be installed: a release of a plugin
    Absent,     \* no such plugin
    Owners      \* something its owner made or changed

VARIABLES
    installed,  \* [Ids -> Packages, Absent or Owners]
    asked       \* [Ids -> SUBSET (Packages \cup {Absent})]: what the running
                \* command may still make of each plugin

vars == <<installed, asked>>

Outcomes == Packages \cup {Absent}

TypeOK ==
    /\ installed \in [Ids -> Outcomes \cup {Owners}]
    /\ asked \in [Ids -> SUBSET Outcomes]

Init ==
    /\ installed \in [Ids -> Outcomes \cup {Owners}]
    /\ asked = [i \in Ids |-> {}]

(* A command begins, learns what is wanted, gives some of it up, or ends. *)
Ask ==
    /\ asked' \in [Ids -> SUBSET Outcomes]
    /\ UNCHANGED installed

Change(i) ==
    /\ installed[i] # Owners
    /\ \E p \in asked[i] : installed' = [installed EXCEPT ![i] = p]
    /\ asked' = [asked EXCEPT ![i] = {}]

(* Plugins are ordinary directories, which their owner edits at will; no
   command touches what the owner made of them. *)
Edit(i) ==
    /\ installed' = [installed EXCEPT ![i] = Owners]
    /\ UNCHANGED asked

Next == Ask \/ \E i \in Ids : Change(i) \/ Edit(i)

Spec == Init /\ [][Next]_vars
==============================================================================
