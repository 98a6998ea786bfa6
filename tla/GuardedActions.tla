--------------------------- MODULE GuardedActions ---------------------------
(***************************************************************************)
(* What happens between asking for a change of the cluster and making it:  *)
(* the manifest browser (src/src/app/dir.rs), the guardrails               *)
(* (src/src/app/guardrails.rs), the dialog that confirms                   *)
(* (src/src/app/overlays.rs), and what lands meanwhile: a context switch   *)
(* (src/src/app/pickers.rs), or a view that had to find its namespaces     *)
(* first (src/src/app/namespace_patterns.rs).  Deleting rows stands for    *)
(* the actions that start at the table.                                    *)
(***************************************************************************)
EXTENDS Naturals, FiniteSets

CONSTANTS
  Contexts, NoContext,
  Kinds, NoKind,   \* kinds of object the table can list
  Files,           \* manifests in the directory on screen
  Guard,           \* Guard[c][verb]: "deny" or the confirmation level
  ReadOnly,        \* contexts whose configuration is read-only
  MaxGen,          \* bound: generations
  MaxRequests,     \* bound: renders asked for, and moves of the selection
  MaxEdits         \* bound: edits of the files from outside

Verbs == {"apply", "delete", "delete rows"}
Levels == {"plain", "type name", "type context"}

ASSUME GuardedActionsAssumption ==
  /\ NoContext \notin Contexts
  /\ NoKind \notin Kinds
  /\ Guard \in [Contexts -> [Verbs -> Levels \cup {"deny"}]]
  /\ ReadOnly \subseteq Contexts
  /\ MaxGen \in Nat /\ MaxRequests \in Nat /\ MaxEdits \in Nat

VARIABLES
  context,       \* cluster.context
  generation,
  switch,        \* the connection under way: its context, or NoContext
  rows,          \* history: whose rows the table shows, NoContext when cleared
  kind,          \* the kind they are of (self.kind)
  lookup,        \* the kind to open once the namespaces of a pattern are found, or NoKind
  mode,          \* "table", "dir", "diff", "confirm", "prompt", "command"
  paletteReturn,
  selected,      \* the manifest under the cursor
  content,       \* content[f]: the edit f holds
  request,       \* dir.request
  plans,         \* renders under way
  preview,       \* dir.preview, at most one plan
  dialog,        \* the action confirm_action or prompt_kind holds, at most one
  diffed,        \* history: plans whose diff was on screen
  ran            \* history: what was run, with the context it ran against

browser == <<selected, content, request>>
view == <<kind, lookup>>
vars == <<context, generation, switch, rows, view, mode, paletteReturn, browser, plans, preview,
          dialog, diffed, ran>>

\* DirPlan; rendered is the edit in its snapshot, base the context kubectl was given.
Plan == [verb : Verbs, file : Files, rendered : Nat, base : Contexts, request : Nat, gen : Nat]
\* ConfirmAction with what its dialog says: named is the context it names.
\* For rows it also says which kind: "Delete pods/web?"
Dialog == [plan : Plan, named : Contexts, level : Levels, kind : Kinds]

Init ==
  /\ context \in Contexts /\ generation = 0 /\ switch = NoContext
  /\ rows = context /\ kind \in Kinds /\ lookup = NoKind
  /\ mode = "table" /\ paletteReturn = "table"
  /\ selected \in Files /\ content = [f \in Files |-> 0] /\ request = 0
  /\ plans = {} /\ preview = {} /\ dialog = {} /\ diffed = {} /\ ran = {}

-----------------------------------------------------------------------------
(* Guardrails and dialogs.                                                 *)

\* guard, dir_confirm and begin_guarded: the dialog opens unless the guardrails of
\* the context on screen deny the action.
Confirm(plan) ==
  LET level == Guard[context][plan.verb] IN
  IF level = "deny"
  THEN UNCHANGED <<mode, dialog>>
  ELSE /\ dialog' = {[plan |-> plan, named |-> context, level |-> level,
                      kind |-> kind]}
       /\ mode' = IF level = "plain" THEN "confirm" ELSE "prompt"

\* The view a dialog returns to.
Below(d) == IF d.plan.verb = "delete rows" THEN "table" ELSE "dir"

\* Mutant: a mistyped name runs the action too.
AcceptAnything ==
  \E d \in dialog :
    /\ mode \in {"confirm", "prompt"}
    /\ \E right \in BOOLEAN :
         ran' = ran \cup {[dialog |-> d, typed |-> mode = "prompt" /\ right, context |-> context,
                           kind |-> kind, rows |-> rows, applied |-> d.plan.rendered]}
    /\ dialog' = {} /\ mode' = Below(d)
    /\ UNCHANGED <<context, generation, switch, rows, view, paletteReturn, browser, plans, preview, diffed>>
\* Mutant: the manifest is read again.
AcceptReading ==
  \E d \in dialog :
    /\ mode \in {"confirm", "prompt"}
    /\ ran' = ran \cup {[dialog |-> d, typed |-> mode = "prompt", context |-> context,
                         kind |-> kind, rows |-> rows, applied |-> content[d.plan.file]]}
    /\ dialog' = {} /\ mode' = Below(d)
    /\ UNCHANGED <<context, generation, switch, rows, view, paletteReturn, browser, plans, preview, diffed>>

\* Accept of key_confirm and key_prompt: run_confirm_action against the connected
\* cluster, or nothing when the typed text does not match.
Accept ==
  \E d \in dialog :
    /\ mode \in {"confirm", "prompt"}
    /\ \/ ran' = ran \cup {[dialog |-> d, typed |-> mode = "prompt", context |-> context,
                            kind |-> kind, rows |-> rows, applied |-> d.plan.rendered]}
       \/ mode = "prompt" /\ UNCHANGED ran
    /\ dialog' = {} /\ mode' = Below(d)
    /\ UNCHANGED <<context, generation, switch, rows, view, paletteReturn, browser, plans, preview, diffed>>

Cancel ==
  \E d \in dialog :
    /\ mode \in {"confirm", "prompt"}
    /\ dialog' = {} /\ mode' = Below(d)
    /\ UNCHANGED <<context, generation, switch, rows, view, paletteReturn, browser, plans, preview, diffed, ran>>

\* The delete key on the rows of the table.
DeleteRows ==
  /\ mode = "table" /\ rows # NoContext /\ context \notin ReadOnly
  /\ Confirm([verb |-> "delete rows", file |-> selected, rendered |-> 0, base |-> rows,
              request |-> 0, gen |-> generation])
  /\ UNCHANGED <<context, generation, switch, rows, view, paletteReturn, browser, plans, preview, diffed, ran>>

-----------------------------------------------------------------------------
(* The manifest browser.                                                   *)

\* key_dir and load_dir: the selection moves or the listing is read again.
Select(f) ==
  /\ mode = "dir" /\ request < MaxRequests
  /\ selected' = f /\ request' = request + 1
  /\ UNCHANGED <<context, generation, switch, rows, view, mode, paletteReturn, content, plans, preview,
                 dialog, diffed, ran>>

\* Another program writes the manifest.
Edit(f) ==
  /\ content[f] < MaxEdits /\ content' = [content EXCEPT ![f] = @ + 1]
  /\ UNCHANGED <<context, generation, switch, rows, view, mode, paletteReturn, selected, request, plans,
                 preview, dialog, diffed, ran>>

\* dir_plan: the task is given the context kubectl is to use.
AskPlan(verb) ==
  /\ mode = "dir" /\ verb # "delete rows" /\ context \notin ReadOnly /\ request < MaxRequests
  /\ request' = request + 1
  /\ plans' = plans \cup {[verb |-> verb, file |-> selected, rendered |-> MaxEdits + 1,
                           base |-> context, request |-> request + 1, gen |-> generation]}
  /\ UNCHANGED <<context, generation, switch, rows, view, mode, paletteReturn, selected, content, preview,
                 dialog, diffed, ran>>

\* plan: the dry run reads the file once.
Render(plan) ==
  /\ plan.rendered = MaxEdits + 1
  /\ plans' = (plans \ {plan}) \cup {[plan EXCEPT !.rendered = content[plan.file]]}
  /\ UNCHANGED <<context, generation, switch, rows, view, mode, paletteReturn, browser, preview, dialog,
                 diffed, ran>>

\* Msg::DirPlan of another generation, of an earlier request, or after the browser
\* was left.
Stale(plan) == plan.gen # generation \/ plan.request # request \/ mode # "dir"

\* finish_dir_plan: a diff opens, or the dialog of a delete; a render that failed, and
\* a diff that is empty, open nothing.
FinishPlan(plan) ==
  /\ plan.rendered <= MaxEdits
  /\ plans' = plans \ {plan}
  /\ \/ UNCHANGED <<mode, preview, dialog, diffed>>
     \/ /\ ~Stale(plan) /\ plan.verb = "apply"
        /\ preview' = {plan} /\ mode' = "diff" /\ diffed' = diffed \cup {plan}
        /\ UNCHANGED dialog
     \/ /\ ~Stale(plan) /\ plan.verb = "delete"
        /\ Confirm(plan)
        /\ UNCHANGED <<preview, diffed>>
  /\ UNCHANGED <<context, generation, switch, rows, view, paletteReturn, browser, ran>>

\* dir_request_apply
RequestApply ==
  /\ mode = "diff" /\ preview # {} /\ context \notin ReadOnly
  /\ preview' = {}
  /\ \E plan \in preview :
       IF Guard[context][plan.verb] = "deny" THEN mode' = "dir" /\ UNCHANGED dialog ELSE Confirm(plan)
  /\ UNCHANGED <<context, generation, switch, rows, view, paletteReturn, browser, plans, diffed, ran>>

\* Back from the diff, and from the browser.
CloseDiff ==
  /\ mode = "diff" /\ mode' = "dir" /\ preview' = {}
  /\ UNCHANGED <<context, generation, switch, rows, view, paletteReturn, browser, plans, dialog, diffed, ran>>

CloseDir ==
  /\ mode = "dir" /\ mode' = "table"
  /\ UNCHANGED <<context, generation, switch, rows, view, paletteReturn, browser, plans, preview, dialog, diffed, ran>>

-----------------------------------------------------------------------------
(* The palette, and switching.                                             *)

\* open_palette: from any view, dialogs included (a prompt takes the key as text).
OpenPalette ==
  /\ mode \notin {"command", "prompt"} /\ paletteReturn' = mode /\ mode' = "command"
  /\ UNCHANGED <<context, generation, switch, rows, view, browser, plans, preview, dialog, diffed, ran>>

LeavePalette ==
  /\ mode = "command" /\ mode' = paletteReturn
  /\ UNCHANGED <<context, generation, switch, rows, view, paletteReturn, browser, plans, preview, dialog, diffed, ran>>

\* palette_accept, what every command has in common: it starts from the table, and
\* the preview goes with its diff.
Command == mode = "command" /\ paletteReturn' = "table" /\ preview' = {}

\* :dir lists the directory again.
OpenDir ==
  /\ Command /\ request < MaxRequests
  /\ mode' = "dir" /\ request' = request + 1
  /\ UNCHANGED <<context, generation, switch, rows, view, selected, content, plans, dialog, diffed, ran>>

\* start_watch: the table fills with rows of the kind, and a switch and a lookup
\* under way go stale.
StartWatch(k) ==
  /\ generation < MaxGen /\ generation' = generation + 1 /\ switch' = NoContext
  /\ kind' = k /\ lookup' = NoKind /\ rows' = context
  /\ UNCHANGED context

\* A view opens.
OpenView(k) ==
  /\ Command /\ mode' = "table" /\ StartWatch(k)
  /\ UNCHANGED <<browser, plans, dialog, diffed, ran>>

\* switch_kind_ns, apply_resource_query: a view of the namespaces that match a pattern
\* waits until they are found; the view on screen stays, and stays in use.
AskLookup(k) ==
  /\ Command /\ mode' = "table" /\ lookup' = k
  /\ UNCHANGED <<context, generation, switch, rows, kind, browser, plans, dialog, diffed, ran>>

\* finish_namespace_pattern: the view opens, whatever is on screen.
LookupLands ==
  /\ lookup # NoKind /\ StartWatch(lookup)
  /\ UNCHANGED <<mode, paletteReturn, browser, plans, preview, dialog, diffed, ran>>

\* None match, or the API server does not say.
LookupFails ==
  /\ lookup # NoKind /\ lookup' = NoKind
  /\ UNCHANGED <<context, generation, switch, rows, kind, mode, paletteReturn, browser, plans,
                 preview, dialog, diffed, ran>>

\* Mutant: the rows stay in the table until the new context's come.
SwitchKeepingRows(c) ==
  /\ Command /\ generation < MaxGen /\ c # switch
  /\ c # context
  /\ mode' = "table" /\ generation' = generation + 1 /\ switch' = c
  /\ lookup' = NoKind
  /\ UNCHANGED <<context, rows, kind, browser, plans, dialog, diffed, ran>>

\* switch_context_inner
SwitchContext(c) ==
  /\ Command /\ generation < MaxGen /\ c # switch
  /\ c # context
  /\ mode' = "table" /\ generation' = generation + 1 /\ switch' = c /\ rows' = NoContext
  /\ lookup' = NoKind
  /\ UNCHANGED <<context, kind, browser, plans, dialog, diffed, ran>>

\* Msg::ContextSwitched: apply_context_switch takes over the context, its read-only
\* setting and its guardrails, and opens a view, whatever is on screen.
SwitchLands ==
  /\ switch # NoContext /\ generation < MaxGen
  /\ context' = switch /\ rows' = switch /\ switch' = NoContext /\ generation' = generation + 1
  /\ kind' \in Kinds /\ lookup' = NoKind
  /\ UNCHANGED <<mode, paletteReturn, browser, plans, preview, dialog, diffed, ran>>

SwitchFails ==
  /\ switch # NoContext /\ switch' = NoContext
  /\ UNCHANGED <<context, generation, rows, view, mode, paletteReturn, browser, plans, preview, dialog, diffed, ran>>

Next ==
  \/ Accept \/ Cancel \/ DeleteRows
  \/ \E f \in Files : Select(f) \/ Edit(f)
  \/ \E verb \in Verbs : AskPlan(verb)
  \/ \E plan \in plans : Render(plan) \/ FinishPlan(plan)
  \/ RequestApply \/ CloseDiff \/ CloseDir
  \/ OpenPalette \/ LeavePalette \/ OpenDir
  \/ \E k \in Kinds : OpenView(k) \/ AskLookup(k)
  \/ LookupLands \/ LookupFails
  \/ \E c \in Contexts : SwitchContext(c)
  \/ SwitchLands \/ SwitchFails

Spec == Init /\ [][Next]_vars
=============================================================================
