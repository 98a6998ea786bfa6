------------------------ MODULE GuardedActionsProofs ------------------------
(***************************************************************************)
(* What runs is what was shown, under the rules of the context its dialog  *)
(* named, for any contexts, guardrails, manifests and bounds.              *)
(***************************************************************************)
EXTENDS GuardedActionsProps, TLAPS

\* The dialog can still be answered: it is on screen or under the palette.
Live(form) == mode = form \/ (mode = "command" /\ paletteReturn = form)

\* The table shows rows of the connected context only while no switch is under way.
RowsOfContext ==
  /\ rows # NoContext => rows = context /\ switch = NoContext
  /\ paletteReturn \notin {"command", "prompt"}

\* A render of this generation was asked for in this context, which is not read-only.
PlansOfContext ==
  \A p \in plans : /\ p.verb \in {"apply", "delete"}
                   /\ p.gen <= generation /\ p.base \notin ReadOnly
                   /\ p.gen = generation => p.base = context

\* A dialog follows the guardrails of the context it names, and an apply its diff.
DialogsGuarded ==
  \A d \in dialog :
    /\ Guard[d.named][d.plan.verb] = d.level /\ d.named \notin ReadOnly
    /\ d.plan.verb = "apply" => d.plan \in diffed
    /\ d.plan.verb = "delete rows" => d.plan.base = d.named

\* A dialog that can be answered has the form its level asks for, and no switch is
\* under way, or has landed, over one for rows.
DialogsLive ==
  \A d \in dialog :
    /\ Live("confirm") => d.level = "plain"
    /\ (Live("confirm") \/ Live("prompt")) /\ d.plan.verb = "delete rows"
         => d.named = context /\ switch = NoContext

PreviewsDiffed == preview \subseteq {p \in diffed : p.verb = "apply"}

Inv ==
  /\ TypeOK /\ RowsOfContext /\ PlansOfContext /\ DialogsGuarded /\ DialogsLive /\ PreviewsDiffed
  /\ AppliesWhatWasShown /\ GuardrailsHold /\ RowsDeletedWhereShown /\ PreviewOnScreen

\* It holds at the start.
LEMMA InitInv == Init => Inv
BY GuardedActionsAssumption
DEF Init, Inv, TypeOK, RowsOfContext, PlansOfContext, DialogsGuarded, DialogsLive, PreviewsDiffed,
    AppliesWhatWasShown, GuardrailsHold, RowsDeletedWhereShown, PreviewOnScreen, Modes

\* Answering a dialog runs its action, within the rules it was opened under.
LEMMA AcceptInv == ASSUME Inv, Accept PROVE Inv'
<1>1. PICK d \in dialog :
        /\ mode \in {"confirm", "prompt"}
        /\ \/ ran' = ran \cup {[dialog |-> d, typed |-> mode = "prompt", context |-> context,
                                kind |-> kind, rows |-> rows, applied |-> d.plan.rendered]}
           \/ UNCHANGED ran
        /\ dialog' = {} /\ mode' = Below(d)
  BY DEF Accept
<1>2. UNCHANGED <<context, generation, switch, rows, view, paletteReturn, browser, plans, preview, diffed>>
  BY DEF Accept
<1>3. d \in Dialog /\ d.plan \in Plan /\ d.named \in Contexts /\ d.level \in Levels
  BY DEF Inv, TypeOK, Dialog
<1>4. mode' \in {"table", "dir"} /\ preview = {}
  BY <1>1 DEF Below, Inv, PreviewOnScreen
<1>5. ASSUME NEW r, r = [dialog |-> d, typed |-> mode = "prompt", context |-> context,
                         kind |-> kind, rows |-> rows, applied |-> d.plan.rendered]
      PROVE  /\ r \in [dialog : Dialog, typed : BOOLEAN, context : Contexts,
                       kind : Kinds, rows : Contexts \cup {NoContext}, applied : Nat]
             /\ r.dialog.plan.verb = "apply" => r.dialog.plan \in diffed /\ r.applied = r.dialog.plan.rendered
             /\ Guard[r.dialog.named][r.dialog.plan.verb] = r.dialog.level
             /\ r.dialog.level # "plain" => r.typed
             /\ r.dialog.named \notin ReadOnly
             /\ r.dialog.plan.verb = "delete rows" => r.context = r.dialog.named /\ r.dialog.plan.base = r.context
  <2>1. /\ r.dialog = d /\ r.typed = (mode = "prompt") /\ r.context = context
        /\ r.rows = rows /\ r.applied = d.plan.rendered
    BY <1>5
  <2>2. r \in [dialog : Dialog, typed : BOOLEAN, context : Contexts,
               kind : Kinds, rows : Contexts \cup {NoContext}, applied : Nat]
    BY <1>3, <1>5 DEF Inv, TypeOK, Plan
  <2>3. d.plan.verb = "apply" => d.plan \in diffed
    BY DEF Inv, DialogsGuarded
  <2>4. Guard[d.named][d.plan.verb] = d.level /\ d.named \notin ReadOnly
    BY DEF Inv, DialogsGuarded
  <2>5. d.level # "plain" => mode = "prompt"
    BY <1>1 DEF Inv, DialogsLive, Live
  <2>6. d.plan.verb = "delete rows" => context = d.named /\ d.plan.base = context
    BY <1>1 DEF Inv, DialogsLive, DialogsGuarded, Live
  <2> QED
    BY <2>1, <2>2, <2>3, <2>4, <2>5, <2>6
<1>6. ran' \subseteq [dialog : Dialog, typed : BOOLEAN, context : Contexts,
                      kind : Kinds, rows : Contexts \cup {NoContext}, applied : Nat]
  BY <1>1, <1>5 DEF Inv, TypeOK
<1>7. AppliesWhatWasShown'
  BY <1>1, <1>2, <1>5 DEF Inv, AppliesWhatWasShown
<1>8. GuardrailsHold'
  BY <1>1, <1>5 DEF Inv, GuardrailsHold
<1>9. RowsDeletedWhereShown'
  BY <1>1, <1>5 DEF Inv, RowsDeletedWhereShown
<1>10. TypeOK'
  BY <1>1, <1>2, <1>4, <1>6 DEF Inv, TypeOK, Modes, browser, view
<1>11. (RowsOfContext /\ PlansOfContext /\ DialogsGuarded /\ DialogsLive /\ PreviewsDiffed /\ PreviewOnScreen)'
  BY <1>1, <1>2, <1>4
  DEF Inv, RowsOfContext, PlansOfContext, DialogsGuarded, DialogsLive, PreviewsDiffed, PreviewOnScreen
<1> QED
  BY <1>7, <1>8, <1>9, <1>10, <1>11 DEF Inv

\* A dialog opens only with the confirmation the guardrails ask for.
LEMMA ConfirmOpens ==
  ASSUME Inv, NEW plan \in Plan, Confirm(plan), Guard[context][plan.verb] # "deny"
  PROVE  \E d \in Dialog : /\ dialog' = {d} /\ d.plan = plan /\ d.named = context
                           /\ d.level = Guard[context][plan.verb]
                           /\ mode' = IF d.level = "plain" THEN "confirm" ELSE "prompt"
<1> DEFINE d == [plan |-> plan, named |-> context, level |-> Guard[context][plan.verb],
              kind |-> kind]
<1>1. Guard[context][plan.verb] \in Levels
  BY GuardedActionsAssumption DEF Inv, TypeOK, Plan
<1>2. d \in Dialog
  BY <1>1 DEF Inv, TypeOK, Dialog
<1>3. dialog' = {d} /\ mode' = IF d.level = "plain" THEN "confirm" ELSE "prompt"
  BY DEF Confirm
<1> QED
  BY <1>2, <1>3

\* What a plan needs to be confirmed under the invariant.
LEMMA ConfirmInv ==
  ASSUME Inv, NEW plan \in Plan, Confirm(plan),
         context \notin ReadOnly,
         plan.verb = "apply" => plan \in diffed,
         plan.verb = "delete rows" => plan.base = context /\ switch = NoContext,
         preview' = {} \/ (mode' = mode /\ preview' = preview) \/ (mode # "diff" /\ mode # "command" /\ preview' = preview),
         plans' \subseteq plans,
         UNCHANGED <<context, generation, switch, rows, view, paletteReturn, browser, diffed, ran>>
  PROVE  Inv'
<1>0. TypeOK
  BY GuardedActionsAssumption DEF Inv
<1>1. CASE Guard[context][plan.verb] = "deny"
  <2>1. UNCHANGED <<mode, dialog>>
    BY <1>1 DEF Confirm
  <2> QED
    BY <2>1 DEF Inv, TypeOK, RowsOfContext, PlansOfContext, DialogsGuarded, DialogsLive, PreviewsDiffed,
         AppliesWhatWasShown, GuardrailsHold, RowsDeletedWhereShown, PreviewOnScreen, Live, browser, view
<1>2. CASE Guard[context][plan.verb] # "deny"
  <2>1. PICK d \in Dialog : /\ dialog' = {d} /\ d.plan = plan /\ d.named = context
                           /\ d.level = Guard[context][plan.verb]
                           /\ mode' = IF d.level = "plain" THEN "confirm" ELSE "prompt"
    BY <1>2, ConfirmOpens
  <2>2. PreviewOnScreen' /\ PreviewsDiffed'
    BY <2>1 DEF Inv, PreviewOnScreen, PreviewsDiffed
  <2>3. DialogsGuarded'
    BY <2>1 DEF DialogsGuarded
  <2>4. DialogsLive'
    BY <2>1 DEF Inv, RowsOfContext, DialogsLive, Live
  <2>5. TypeOK'
    BY <2>1 DEF Inv, TypeOK, Modes, PreviewsDiffed, browser, view
  <2>6. (RowsOfContext /\ PlansOfContext /\ AppliesWhatWasShown /\ GuardrailsHold /\ RowsDeletedWhereShown)'
    BY DEF Inv, RowsOfContext, PlansOfContext, AppliesWhatWasShown, GuardrailsHold, RowsDeletedWhereShown
  <2> QED
    BY <2>2, <2>3, <2>4, <2>5, <2>6 DEF Inv
<1> QED
  BY <1>1, <1>2

\* What already ran, and what was asked, stays within the rules.
LEMMA RanKept ==
  ASSUME Inv, UNCHANGED <<diffed, ran>>
  PROVE  (AppliesWhatWasShown /\ GuardrailsHold /\ RowsDeletedWhereShown)'
BY DEF Inv, AppliesWhatWasShown, GuardrailsHold, RowsDeletedWhereShown

\* A dialog left alone stays as guarded as it was.
LEMMA DialogsKept == ASSUME Inv, UNCHANGED <<dialog, diffed>> PROVE DialogsGuarded'
BY DEF Inv, DialogsGuarded

\* The steps that touch neither a dialog nor what ran.
LEMMA BrowserInv ==
  ASSUME Inv,
         \/ \E f \in Files : Select(f) \/ Edit(f)
         \/ CloseDiff \/ CloseDir
  PROVE  Inv'
<1>1. ASSUME NEW f \in Files, Select(f) PROVE Inv'
  <2>1. (RowsOfContext /\ DialogsLive)'
    BY <1>1 DEF Select, Inv, TypeOK, RowsOfContext, DialogsLive, Live
  <2>2. PlansOfContext'
    BY <1>1 DEF Select, Inv, TypeOK, Plan, PlansOfContext
  <2>3. (PreviewsDiffed /\ PreviewOnScreen)'
    BY <1>1 DEF Select, Inv, TypeOK, RowsOfContext, PreviewsDiffed, PreviewOnScreen
  <2>4. TypeOK'
    BY <1>1 DEF Select, Inv, TypeOK, RowsOfContext, Modes, browser, view
  <2> QED
    BY <1>1, <2>1, <2>2, <2>3, <2>4, RanKept, DialogsKept DEF Select, Inv
<1>2. ASSUME NEW f \in Files, Edit(f) PROVE Inv'
  <2>1. (RowsOfContext /\ DialogsLive)'
    BY <1>2 DEF Edit, Inv, TypeOK, RowsOfContext, DialogsLive, Live
  <2>2. PlansOfContext'
    BY <1>2 DEF Edit, Inv, TypeOK, Plan, PlansOfContext
  <2>3. (PreviewsDiffed /\ PreviewOnScreen)'
    BY <1>2 DEF Edit, Inv, TypeOK, RowsOfContext, PreviewsDiffed, PreviewOnScreen
  <2>4. TypeOK'
    BY <1>2 DEF Edit, Inv, TypeOK, RowsOfContext, Modes, browser, view
  <2> QED
    BY <1>2, <2>1, <2>2, <2>3, <2>4, RanKept, DialogsKept DEF Edit, Inv
<1>3. CASE CloseDiff
  <2>1. (RowsOfContext /\ DialogsLive)'
    BY <1>3 DEF CloseDiff, Inv, TypeOK, RowsOfContext, DialogsLive, Live
  <2>2. PlansOfContext'
    BY <1>3 DEF CloseDiff, Inv, TypeOK, Plan, PlansOfContext
  <2>3. (PreviewsDiffed /\ PreviewOnScreen)'
    BY <1>3 DEF CloseDiff, Inv, TypeOK, RowsOfContext, PreviewsDiffed, PreviewOnScreen
  <2>4. TypeOK'
    BY <1>3 DEF CloseDiff, Inv, TypeOK, RowsOfContext, Modes, browser, view
  <2> QED
    BY <1>3, <2>1, <2>2, <2>3, <2>4, RanKept, DialogsKept DEF CloseDiff, Inv
<1>4. CASE CloseDir
  <2>1. (RowsOfContext /\ DialogsLive)'
    BY <1>4 DEF CloseDir, Inv, TypeOK, RowsOfContext, DialogsLive, Live
  <2>2. PlansOfContext'
    BY <1>4 DEF CloseDir, Inv, TypeOK, Plan, PlansOfContext
  <2>3. (PreviewsDiffed /\ PreviewOnScreen)'
    BY <1>4 DEF CloseDir, Inv, TypeOK, RowsOfContext, PreviewsDiffed, PreviewOnScreen
  <2>4. TypeOK'
    BY <1>4 DEF CloseDir, Inv, TypeOK, RowsOfContext, Modes, browser, view
  <2> QED
    BY <1>4, <2>1, <2>2, <2>3, <2>4, RanKept, DialogsKept DEF CloseDir, Inv
<1> QED
  BY <1>1, <1>2, <1>3, <1>4

\* A render asked for in this context, carried out, and shown.
LEMMA PlanInv ==
  ASSUME Inv,
         \/ \E verb \in Verbs : AskPlan(verb)
         \/ \E plan \in plans : Render(plan) \/ FinishPlan(plan)
  PROVE  Inv'
<1>0. MaxEdits \in Nat
  BY GuardedActionsAssumption
<1>1. ASSUME NEW verb \in Verbs, AskPlan(verb) PROVE Inv'
  <2> DEFINE p == [verb |-> verb, file |-> selected, rendered |-> MaxEdits + 1,
                   base |-> context, request |-> request + 1, gen |-> generation]
  <2>1. p \in Plan
    BY <1>0, <1>1 DEF Inv, TypeOK, Plan
  <2>2. plans' = plans \cup {p} /\ verb \in {"apply", "delete"} /\ context \notin ReadOnly
    BY <1>1 DEF AskPlan, Verbs
  <2>3. PlansOfContext'
    <3>1. p.verb = verb /\ p.base = context /\ p.gen = generation
      OBVIOUS
    <3>2. UNCHANGED <<generation, context>> /\ generation \in Nat
      BY <1>1 DEF AskPlan, Inv, TypeOK
    <3>3. ASSUME NEW q \in plans'
          PROVE  /\ q.verb \in {"apply", "delete"} /\ q.gen <= generation
                 /\ q.base \notin ReadOnly /\ (q.gen = generation => q.base = context)
      <4> HIDE DEF p
      <4>1. CASE q \in plans
        BY <4>1 DEF Inv, PlansOfContext
      <4>2. CASE q = p
        <5>1. q.verb \in {"apply", "delete"}
          BY <4>2, <3>1, <2>2
        <5>2. q.gen <= generation
          BY <4>2, <3>1, <3>2
        <5>3. q.base \notin ReadOnly /\ (q.gen = generation => q.base = context)
          BY <4>2, <3>1, <2>2
        <5> QED
          BY <5>1, <5>2, <5>3
      <4> QED
        BY <3>3, <4>1, <4>2, <2>2
    <3> QED
      BY <3>2, <3>3 DEF PlansOfContext
  <2>4. TypeOK'
    <3>1. request' \in Nat
      <4>1. request \in Nat
        BY DEF Inv, TypeOK
      <4>2. request' = request + 1
        BY <1>1 DEF AskPlan
      <4> QED
        BY <4>1, <4>2
    <3> HIDE DEF p
    <3> QED
      BY <1>1, <2>1, <2>2, <3>1 DEF AskPlan, Inv, TypeOK, view
  <2> QED
    BY <1>1, <2>3, <2>4
    DEF AskPlan, Inv, RowsOfContext, DialogsGuarded, DialogsLive, PreviewsDiffed,
        AppliesWhatWasShown, GuardrailsHold, RowsDeletedWhereShown, PreviewOnScreen, Live
<1>2. ASSUME NEW plan \in plans, Render(plan) PROVE Inv'
  <2> DEFINE p == [plan EXCEPT !.rendered = content[plan.file]]
  <2>1. plan \in Plan
    BY DEF Inv, TypeOK
  <2>2. p \in Plan /\ p.verb = plan.verb /\ p.base = plan.base /\ p.gen = plan.gen
    BY <2>1 DEF Inv, TypeOK, Plan
  <2>3. plans' = (plans \ {plan}) \cup {p}
    BY <1>2 DEF Render
  <2>4. PlansOfContext'
    BY <1>2, <2>2, <2>3 DEF Render, Inv, PlansOfContext
  <2>5. TypeOK'
    BY <1>2, <2>2, <2>3 DEF Render, Inv, TypeOK, browser, view
  <2> QED
    BY <1>2, <2>4, <2>5
    DEF Render, Inv, RowsOfContext, DialogsGuarded, DialogsLive, PreviewsDiffed,
        AppliesWhatWasShown, GuardrailsHold, RowsDeletedWhereShown, PreviewOnScreen, Live
<1>3. ASSUME NEW plan \in plans, FinishPlan(plan) PROVE Inv'
  <2>1. plan \in Plan /\ plans' \subseteq plans
    BY <1>3 DEF FinishPlan, Inv, TypeOK
  <2>2. CASE UNCHANGED <<mode, preview, dialog, diffed>>
    <3>1. (RowsOfContext /\ DialogsLive)'
      BY <1>3, <2>1, <2>2 DEF FinishPlan, Inv, TypeOK, RowsOfContext, DialogsLive, Live
    <3>2. PlansOfContext'
      BY <1>3, <2>1, <2>2 DEF FinishPlan, Inv, TypeOK, Plan, PlansOfContext
    <3>3. (PreviewsDiffed /\ PreviewOnScreen)'
      BY <1>3, <2>1, <2>2 DEF FinishPlan, Inv, TypeOK, RowsOfContext, PreviewsDiffed, PreviewOnScreen
    <3>4. TypeOK'
      BY <1>3, <2>1, <2>2 DEF FinishPlan, Inv, TypeOK, RowsOfContext, Modes, browser, view
    <3> QED
      BY <1>3, <2>1, <2>2, <3>1, <3>2, <3>3, <3>4, RanKept, DialogsKept DEF FinishPlan, Inv
  <2>3. CASE /\ plan.verb = "apply" /\ preview' = {plan} /\ mode' = "diff"
             /\ diffed' = diffed \cup {plan} /\ UNCHANGED dialog
    <3>1. TypeOK'
      BY <1>3, <2>1, <2>3 DEF FinishPlan, Inv, TypeOK, Modes, browser, view
    <3>2. (PreviewsDiffed /\ PreviewOnScreen)'
      BY <2>3 DEF PreviewsDiffed, PreviewOnScreen
    <3>3. (RowsOfContext /\ PlansOfContext /\ DialogsGuarded /\ DialogsLive)'
      BY <1>3, <2>1, <2>3
      DEF FinishPlan, Inv, RowsOfContext, PlansOfContext, DialogsGuarded, DialogsLive, Live
    <3>4. (AppliesWhatWasShown /\ GuardrailsHold /\ RowsDeletedWhereShown)'
      BY <1>3, <2>3 DEF FinishPlan, Inv, AppliesWhatWasShown, GuardrailsHold, RowsDeletedWhereShown
    <3> QED
      BY <3>1, <3>2, <3>3, <3>4 DEF Inv
  <2>4. CASE ~Stale(plan) /\ plan.verb = "delete" /\ Confirm(plan) /\ UNCHANGED <<preview, diffed>>
    <3>1. context \notin ReadOnly /\ mode = "dir"
      BY <2>4 DEF Stale, Inv, PlansOfContext
    <3>2. UNCHANGED <<context, generation, switch, rows, view, paletteReturn, browser, diffed, ran>>
      BY <1>3, <2>4 DEF FinishPlan
    <3> QED
      BY <2>1, <2>4, <3>1, <3>2, ConfirmInv
  <2> QED
    BY <1>3, <2>2, <2>3, <2>4 DEF FinishPlan
<1> QED
  BY <1>1, <1>2, <1>3

\* The actions that open a dialog.
LEMMA AskInv == ASSUME Inv, DeleteRows \/ RequestApply PROVE Inv'
<1>1. CASE DeleteRows
  <2> DEFINE p == [verb |-> "delete rows", file |-> selected, rendered |-> 0, base |-> rows,
                   request |-> 0, gen |-> generation]
  <2>1. rows = context /\ switch = NoContext /\ mode = "table"
    BY <1>1 DEF DeleteRows, Inv, RowsOfContext
  <2>2. p \in Plan /\ p.verb = "delete rows" /\ p.base = context
    BY <2>1 DEF Inv, TypeOK, Plan, Verbs
  <2>3. Confirm(p)
    BY <1>1 DEF DeleteRows
  <2> QED
    BY <1>1, <2>1, <2>2, <2>3, ConfirmInv DEF DeleteRows
<1>2. CASE RequestApply
  <2>1. PICK plan \in preview :
          IF Guard[context][plan.verb] = "deny" THEN mode' = "dir" /\ UNCHANGED dialog ELSE Confirm(plan)
    BY <1>2 DEF RequestApply
  <2>2. plan \in Plan /\ plan.verb = "apply" /\ plan \in diffed
    BY DEF Inv, TypeOK, PreviewsDiffed
  <2>3. /\ preview' = {} /\ context \notin ReadOnly /\ mode = "diff"
        /\ UNCHANGED <<context, generation, switch, rows, view, paletteReturn, browser, plans, diffed, ran>>
    BY <1>2 DEF RequestApply
  <2>4. CASE Confirm(plan)
    BY <2>2, <2>3, <2>4, ConfirmInv
  <2>5. CASE mode' = "dir" /\ UNCHANGED dialog
    BY <2>3, <2>5 DEF Inv, TypeOK, RowsOfContext, PlansOfContext, DialogsGuarded, DialogsLive, PreviewsDiffed,
       AppliesWhatWasShown, GuardrailsHold, RowsDeletedWhereShown, PreviewOnScreen, Live, Modes, browser, view
  <2> QED
    BY <2>1, <2>4, <2>5
<1> QED
  BY <1>1, <1>2

\* The palette, and the commands that change what is connected or shown.
LEMMA PaletteInv == 
  ASSUME Inv,
         \/ OpenPalette \/ LeavePalette \/ OpenDir
         \/ \E k \in Kinds : OpenView(k) \/ AskLookup(k)
         \/ LookupLands \/ LookupFails
  PROVE  Inv'
<1>1. CASE OpenPalette
  <2>1. (RowsOfContext /\ DialogsLive)'
    BY <1>1 DEF OpenPalette, Inv, TypeOK, RowsOfContext, DialogsLive, Live
  <2>2. PlansOfContext'
    BY <1>1 DEF OpenPalette, Inv, TypeOK, Plan, PlansOfContext
  <2>3. (PreviewsDiffed /\ PreviewOnScreen)'
    BY <1>1 DEF OpenPalette, Inv, TypeOK, RowsOfContext, PreviewsDiffed, PreviewOnScreen
  <2>4. TypeOK'
    BY <1>1 DEF OpenPalette, Inv, TypeOK, RowsOfContext, Modes, browser, view
  <2> QED
    BY <1>1, <2>1, <2>2, <2>3, <2>4, RanKept, DialogsKept DEF OpenPalette, Inv
<1>2. CASE LeavePalette
  <2>1. (RowsOfContext /\ DialogsLive)'
    BY <1>2 DEF LeavePalette, Inv, TypeOK, RowsOfContext, DialogsLive, Live
  <2>2. PlansOfContext'
    BY <1>2 DEF LeavePalette, Inv, TypeOK, Plan, PlansOfContext
  <2>3. (PreviewsDiffed /\ PreviewOnScreen)'
    BY <1>2 DEF LeavePalette, Inv, TypeOK, RowsOfContext, PreviewsDiffed, PreviewOnScreen
  <2>4. TypeOK'
    BY <1>2 DEF LeavePalette, Inv, TypeOK, RowsOfContext, Modes, browser, view
  <2> QED
    BY <1>2, <2>1, <2>2, <2>3, <2>4, RanKept, DialogsKept DEF LeavePalette, Inv
<1>3. CASE OpenDir
  <2>1. (RowsOfContext /\ DialogsLive)'
    BY <1>3 DEF OpenDir, Command, Inv, TypeOK, RowsOfContext, DialogsLive, Live
  <2>2. PlansOfContext'
    BY <1>3 DEF OpenDir, Command, Inv, TypeOK, Plan, PlansOfContext
  <2>3. (PreviewsDiffed /\ PreviewOnScreen)'
    BY <1>3 DEF OpenDir, Command, Inv, TypeOK, RowsOfContext, PreviewsDiffed, PreviewOnScreen
  <2>4. TypeOK'
    BY <1>3 DEF OpenDir, Command, Inv, TypeOK, RowsOfContext, Modes, browser, view
  <2> QED
    BY <1>3, <2>1, <2>2, <2>3, <2>4, RanKept, DialogsKept DEF OpenDir, Command, Inv
<1>4. ASSUME NEW k \in Kinds, OpenView(k) PROVE Inv'
  <2>1. (RowsOfContext /\ DialogsLive)'
    BY <1>4 DEF OpenView, StartWatch, Command, Inv, TypeOK, RowsOfContext, DialogsLive, Live
  <2>2. PlansOfContext'
    BY <1>4 DEF OpenView, StartWatch, Command, Inv, TypeOK, Plan, PlansOfContext
  <2>3. (PreviewsDiffed /\ PreviewOnScreen)'
    BY <1>4 DEF OpenView, StartWatch, Command, Inv, TypeOK, RowsOfContext, PreviewsDiffed, PreviewOnScreen
  <2>4. TypeOK'
    BY <1>4 DEF OpenView, StartWatch, Command, Inv, TypeOK, RowsOfContext, Modes, browser, view
  <2> QED
    BY <1>4, <2>1, <2>2, <2>3, <2>4, RanKept, DialogsKept DEF OpenView, StartWatch, Command, Inv
<1>5. ASSUME NEW k \in Kinds, AskLookup(k) PROVE Inv'
  <2>1. (RowsOfContext /\ DialogsLive)'
    BY <1>5 DEF AskLookup, Command, Inv, TypeOK, RowsOfContext, DialogsLive, Live
  <2>2. PlansOfContext'
    BY <1>5 DEF AskLookup, Command, Inv, TypeOK, Plan, PlansOfContext
  <2>3. (PreviewsDiffed /\ PreviewOnScreen)'
    BY <1>5 DEF AskLookup, Command, Inv, TypeOK, RowsOfContext, PreviewsDiffed, PreviewOnScreen
  <2>4. TypeOK'
    BY <1>5 DEF AskLookup, Command, Inv, TypeOK, RowsOfContext, Modes, browser, view
  <2> QED
    BY <1>5, <2>1, <2>2, <2>3, <2>4, RanKept, DialogsKept DEF AskLookup, Command, Inv
<1>6. CASE LookupLands
  <2>1. (RowsOfContext /\ DialogsLive)'
    BY <1>6 DEF LookupLands, StartWatch, Inv, TypeOK, RowsOfContext, DialogsLive, Live
  <2>2. PlansOfContext'
    BY <1>6 DEF LookupLands, StartWatch, Inv, TypeOK, Plan, PlansOfContext
  <2>3. (PreviewsDiffed /\ PreviewOnScreen)'
    BY <1>6 DEF LookupLands, StartWatch, Inv, TypeOK, RowsOfContext, PreviewsDiffed, PreviewOnScreen
  <2>4. TypeOK'
    BY <1>6 DEF LookupLands, StartWatch, Inv, TypeOK, RowsOfContext, Modes, browser, view
  <2> QED
    BY <1>6, <2>1, <2>2, <2>3, <2>4, RanKept, DialogsKept DEF LookupLands, StartWatch, Inv
<1>7. CASE LookupFails
  <2>1. (RowsOfContext /\ DialogsLive)'
    BY <1>7 DEF LookupFails, Inv, TypeOK, RowsOfContext, DialogsLive, Live
  <2>2. PlansOfContext'
    BY <1>7 DEF LookupFails, Inv, TypeOK, Plan, PlansOfContext
  <2>3. (PreviewsDiffed /\ PreviewOnScreen)'
    BY <1>7 DEF LookupFails, Inv, TypeOK, RowsOfContext, PreviewsDiffed, PreviewOnScreen
  <2>4. TypeOK'
    BY <1>7 DEF LookupFails, Inv, TypeOK, RowsOfContext, Modes, browser, view
  <2> QED
    BY <1>7, <2>1, <2>2, <2>3, <2>4, RanKept, DialogsKept DEF LookupFails, Inv
<1> QED
  BY <1>1, <1>2, <1>3, <1>4, <1>5, <1>6, <1>7

\* A context switch, begun, landed or failed, keeps the invariant.
LEMMA SwitchInv ==
  ASSUME Inv, (\E c \in Contexts : SwitchContext(c)) \/ SwitchLands \/ SwitchFails
  PROVE  Inv'
<1>0. NoContext \notin Contexts
  BY GuardedActionsAssumption
<1>1. ASSUME NEW c \in Contexts, SwitchContext(c) PROVE Inv'
  <2>1. (RowsOfContext /\ DialogsLive)'
    BY <1>1 DEF SwitchContext, Command, Inv, TypeOK, RowsOfContext, DialogsLive, Live
  <2>2. PlansOfContext'
    BY <1>1 DEF SwitchContext, Command, Inv, TypeOK, Plan, PlansOfContext
  <2>3. (PreviewsDiffed /\ PreviewOnScreen)'
    BY <1>1 DEF SwitchContext, Command, Inv, TypeOK, RowsOfContext, PreviewsDiffed, PreviewOnScreen
  <2>4. TypeOK'
    BY <1>1 DEF SwitchContext, Command, Inv, TypeOK, RowsOfContext, Modes, browser, view
  <2> QED
    BY <1>1, <2>1, <2>2, <2>3, <2>4, RanKept, DialogsKept DEF SwitchContext, Command, Inv
<1>2. CASE SwitchLands
  <2>1. (RowsOfContext /\ DialogsLive)'
    BY <1>0, <1>2 DEF SwitchLands, Inv, TypeOK, RowsOfContext, DialogsLive, Live
  <2>2. PlansOfContext'
    BY <1>0, <1>2 DEF SwitchLands, Inv, TypeOK, Plan, PlansOfContext
  <2>3. (PreviewsDiffed /\ PreviewOnScreen)'
    BY <1>0, <1>2 DEF SwitchLands, Inv, TypeOK, RowsOfContext, PreviewsDiffed, PreviewOnScreen
  <2>4. TypeOK'
    BY <1>0, <1>2 DEF SwitchLands, Inv, TypeOK, RowsOfContext, Modes, browser, view
  <2> QED
    BY <1>2, <2>1, <2>2, <2>3, <2>4, RanKept, DialogsKept DEF SwitchLands, Inv
<1>3. CASE SwitchFails
  <2>1. (RowsOfContext /\ DialogsLive)'
    BY <1>3 DEF SwitchFails, Inv, TypeOK, RowsOfContext, DialogsLive, Live
  <2>2. PlansOfContext'
    BY <1>3 DEF SwitchFails, Inv, TypeOK, Plan, PlansOfContext
  <2>3. (PreviewsDiffed /\ PreviewOnScreen)'
    BY <1>3 DEF SwitchFails, Inv, TypeOK, RowsOfContext, PreviewsDiffed, PreviewOnScreen
  <2>4. TypeOK'
    BY <1>3 DEF SwitchFails, Inv, TypeOK, RowsOfContext, Modes, browser, view
  <2> QED
    BY <1>3, <2>1, <2>2, <2>3, <2>4, RanKept, DialogsKept DEF SwitchFails, Inv
<1> QED
  BY <1>1, <1>2, <1>3

\* Every step does.
LEMMA NextInv == ASSUME Inv, [Next]_vars PROVE Inv'
<1>1. CASE UNCHANGED vars
  BY <1>1 DEF vars, Inv, TypeOK, RowsOfContext, PlansOfContext, DialogsGuarded, DialogsLive, PreviewsDiffed,
       AppliesWhatWasShown, GuardrailsHold, RowsDeletedWhereShown, PreviewOnScreen, Live, Modes, browser, view
<1>2. CASE Cancel
  BY ZenonT(40), <1>2 DEF Cancel, Below, Inv, TypeOK, RowsOfContext, PlansOfContext, DialogsGuarded, DialogsLive, PreviewsDiffed,
       AppliesWhatWasShown, GuardrailsHold, RowsDeletedWhereShown, PreviewOnScreen, Live, Modes, browser, view
<1> QED
  BY <1>1, <1>2, AcceptInv, BrowserInv, PlanInv, AskInv, PaletteInv, SwitchInv DEF Next

\* The invariant holds throughout.
LEMMA Invariance == Spec => []Inv
BY InitInv, NextInv, PTL DEF Spec

\* What is applied is what a diff showed.
THEOREM AppliesOnlyShown == Spec => []AppliesWhatWasShown
<1>1. Inv => AppliesWhatWasShown
  BY DEF Inv
<1> QED
  BY <1>1, Invariance, PTL

\* Nothing runs outside the guardrails of the context its dialog named.
THEOREM Guarded == Spec => []GuardrailsHold
<1>1. Inv => GuardrailsHold
  BY DEF Inv
<1> QED
  BY <1>1, Invariance, PTL

\* Rows are deleted only where they were shown.
THEOREM DeletedWhereShown == Spec => []RowsDeletedWhereShown
<1>1. Inv => RowsDeletedWhereShown
  BY DEF Inv
<1> QED
  BY <1>1, Invariance, PTL

\* A preview can be confirmed only where it is seen.
THEOREM PreviewSeen == Spec => []PreviewOnScreen
<1>1. Inv => PreviewOnScreen
  BY DEF Inv
<1> QED
  BY <1>1, Invariance, PTL
=============================================================================
