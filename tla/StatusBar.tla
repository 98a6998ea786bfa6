----------------------------- MODULE StatusBar -----------------------------
(***************************************************************************)
(* The one status line that every operation shares (src/src/app/actions.rs *)
(* and the handlers that report to it).  An operation claims the bar when  *)
(* it starts and presents its claim with its result; process-level news    *)
(* borrows the bar; a tick takes old messages off it.                      *)
(*                                                                         *)
(* A text is [what, by]: by is the claim it speaks for, 0 for none.        *)
(***************************************************************************)
EXTENDS Naturals

CONSTANTS
  Kinds,     \* kinds of operation in play: "action", "drain", "transfer", "report", "poll"
  MaxClaims, \* bound: operations started
  MaxGen,    \* bound: tables opened
  MaxNews    \* bound: notices and watch failures

ASSUME StatusBarAssumption ==
  /\ Kinds \subseteq {"action", "drain", "transfer", "report", "poll"}
  /\ MaxClaims \in Nat /\ MaxGen \in Nat /\ MaxNews \in Nat

VARIABLES
  flash,           \* the text
  flashErr,        \* it is an error
  flashSticky,     \* the welcome hint
  flashSeen,       \* the text of the last tick
  old,             \* FLASH_TTL has passed since flash_since
  statusClaim,     \* the owner: [claim, text, pending]
  nextStatusClaim,
  watchErrorFlash, \* the watch failure on the bar
  ops,             \* ops[i]: the operation of claim i
  lastActionError, \* what :debug shows of the last failure
  shown,           \* shown[i]: what claim i last wrote as progress
  generation,
  news,
  displaced        \* history: claims older than the user's last message or table

bar == <<flash, flashErr, flashSticky, flashSeen, old, statusClaim, watchErrorFlash>>
vars == <<bar, nextStatusClaim, ops, lastActionError, shown, generation, news, displaced>>

Claims == 1 .. MaxClaims
Whats == {"none", "hint", "direct", "connecting", "progress", "refreshed", "warning",
          "done", "failed", "notice", "watch failed"}
Text == [what : Whats, by : Nat]
Says(what, by) == [what |-> what, by |-> by]
Empty == Says("none", 0)
NoOwner == [claim |-> 0, text |-> Empty, pending |-> FALSE]
Owner(claim, text, pending) == [claim |-> claim, text |-> text, pending |-> pending]

\* The convention that marks progress; "draining nodes..." does not follow it.
EndsWithEllipsis(text) ==
  \/ text.what = "connecting"
  \/ /\ text.what \in {"progress", "refreshed"}
     /\ text.by \in Claims /\ ops[text.by].kind # "drain"

Running(i) == ops[i].state = "running"

Init ==
  /\ flash = Says("hint", 0) /\ flashErr = FALSE /\ flashSticky = TRUE
  /\ flashSeen = flash /\ old = FALSE
  /\ statusClaim = NoOwner /\ nextStatusClaim = 0
  /\ watchErrorFlash = Empty
  /\ ops = [i \in Claims |-> [kind |-> "none", state |-> "idle", gen |-> 0]]
  /\ lastActionError = Empty
  /\ shown = [i \in Claims |-> Empty]
  /\ generation = 0 /\ news = 0 /\ displaced = {}

-----------------------------------------------------------------------------
(* The methods every caller goes through.                                  *)

\* set_flash, then what the caller makes of the error flag and the claim.
SetFlash(text, err, owner) ==
  /\ flash' = text /\ flashErr' = err /\ flashSticky' = FALSE
  /\ flashSeen' = text /\ old' = FALSE
  /\ statusClaim' = owner

SetFlashForgetting(text, err, owner) ==
  SetFlash(text, err, owner) /\ watchErrorFlash' = Empty

\* Mutant: whoever holds the claim's text may write.
OwnsByText(i) == flash = statusClaim.text
OwnsStatus(i) == statusClaim.claim = i /\ flash = statusClaim.text

\* Mutant: a notice ends the claim.
BorrowedForGood(text) == NoOwner
Borrowed(text) ==
  IF statusClaim = NoOwner THEN NoOwner ELSE [statusClaim EXCEPT !.text = text]

\* A stale failure borrows the bar while nothing but progress is on it.
SetClaimedStatus(i, text, err) ==
  \/ /\ OwnsStatus(i)
     /\ SetFlashForgetting(text, err, Owner(i, text, FALSE))
  \/ /\ ~OwnsStatus(i) /\ err /\ EndsWithEllipsis(flash)
     /\ SetFlashForgetting(text, TRUE, Borrowed(text))
  \/ /\ ~OwnsStatus(i) /\ ~(err /\ EndsWithEllipsis(flash))
     /\ UNCHANGED bar

\* A report's progress goes; an error that borrowed its place stays.
ClearClaimedStatus(i) ==
  LET clears == OwnsStatus(i) /\ ~flashErr IN
  /\ statusClaim' = IF OwnsStatus(i) THEN NoOwner ELSE statusClaim
  /\ flash' = IF clears THEN Empty ELSE flash
  /\ flashSeen' = IF clears THEN Empty ELSE flashSeen
  /\ flashSticky' = (flashSticky /\ ~clears)
  /\ UNCHANGED <<flashErr, old, watchErrorFlash>>

\* The handlers of most results drop those of an abandoned table; a drain's looks
\* for the drain on screen instead.
Heard(i) ==
  IF ops[i].kind = "drain"
  THEN \A j \in Claims : j > i => ops[j].kind # "drain"
  ELSE ops[i].gen = generation

-----------------------------------------------------------------------------
(* The user.                                                               *)

\* claim_status
Start(kind) ==
  LET i == nextStatusClaim + 1
      text == Says("progress", i)
  IN /\ i \in Claims
     /\ nextStatusClaim' = i
     /\ ops' = [ops EXCEPT ![i] = [kind |-> kind, state |-> "running", gen |-> generation]]
     /\ shown' = [shown EXCEPT ![i] = text]
     /\ SetFlashForgetting(text, FALSE, Owner(i, text, TRUE))
     /\ UNCHANGED <<generation, news, displaced, lastActionError>>

\* An action answers at once, through set_flash.
Answer ==
  /\ SetFlashForgetting(Says("direct", 0), FALSE, NoOwner)
  /\ displaced' = 1 .. nextStatusClaim
  /\ UNCHANGED <<nextStatusClaim, ops, shown, generation, news, lastActionError>>

\* An action writes self.flash itself; the next tick notices.
Assign(what) ==
  /\ flash' = Says(what, 0) /\ flashErr' = FALSE
  /\ displaced' = 1 .. nextStatusClaim
  /\ UNCHANGED <<flashSticky, flashSeen, old, statusClaim, watchErrorFlash,
                 nextStatusClaim, ops, shown, generation, news, lastActionError>>

\* flash_warn: an action is refused.
Refuse ==
  /\ flash' = Says("direct", 0) /\ flashErr' = TRUE /\ statusClaim' = NoOwner
  /\ displaced' = 1 .. nextStatusClaim
  /\ UNCHANGED <<flashSticky, flashSeen, old, watchErrorFlash,
                 nextStatusClaim, ops, shown, generation, news, lastActionError>>

\* start_watch and bump_generation: the abandoned table's notice and progress go,
\* and its reports and polls with it.
Leave ==
  LET failure == watchErrorFlash = flash
      text == IF failure THEN Empty ELSE flash
      progress == EndsWithEllipsis(text)
  IN /\ generation < MaxGen /\ generation' = generation + 1
     /\ watchErrorFlash' = Empty
     /\ flash' = IF progress THEN Empty ELSE text
     /\ flashErr' = (flashErr /\ ~failure /\ ~progress)
     /\ flashSticky' = (flashSticky /\ ~failure)
     /\ flashSeen' = IF failure THEN Empty ELSE flashSeen
     /\ old' = (old /\ ~failure)
     /\ statusClaim' = NoOwner
     /\ ops' = [i \in Claims |-> IF ops[i].kind \in {"report", "poll"}
                                 THEN [ops[i] EXCEPT !.state = "done"] ELSE ops[i]]
     /\ displaced' = 1 .. nextStatusClaim
     /\ UNCHANGED <<nextStatusClaim, shown, news, lastActionError>>

-----------------------------------------------------------------------------
(* The operations.                                                         *)

\* ActionResult, Exported, CopyDone, Drain, ...: the result presents its claim.
Finish(i) ==
  /\ Running(i) /\ ops[i].kind \in {"action", "drain", "transfer"}
  /\ IF Heard(i) THEN SetClaimedStatus(i, Says("done", i), FALSE) ELSE UNCHANGED bar
  /\ ops' = [ops EXCEPT ![i].state = "done"]
  /\ UNCHANGED <<lastActionError, nextStatusClaim, shown, generation, news, displaced>>

\* A failure, one of several when many objects are deleted.
Fail(i) ==
  /\ ops[i].state \in {"running", "failed"} /\ ops[i].kind \in {"action", "drain", "transfer"}
  /\ IF Heard(i)
     THEN SetClaimedStatus(i, Says("failed", i), TRUE) /\ lastActionError' = Says("failed", i)
     ELSE UNCHANGED <<bar, lastActionError>>
  /\ ops' = [ops EXCEPT ![i].state = IF ops[i].kind = "action" THEN "failed" ELSE "done"]
  /\ UNCHANGED <<nextStatusClaim, shown, generation, news, displaced>>

\* Describe, Explain, ...: the document opens; the bar is cleared, or warns.
FinishReport(i) ==
  /\ Running(i) /\ ops[i].kind = "report"
  /\ \/ ClearClaimedStatus(i) /\ UNCHANGED lastActionError
     \/ SetClaimedStatus(i, Says("failed", i), TRUE) /\ lastActionError' = Says("failed", i)
  /\ ops' = [ops EXCEPT ![i].state = "done"]
  /\ UNCHANGED <<nextStatusClaim, shown, generation, news, displaced>>

\* set_claimed_progress: never over what borrowed the bar.
Progress(i) ==
  /\ Running(i) /\ ops[i].kind = "transfer"
  /\ OwnsStatus(i) /\ flash \in {Empty, shown[i]}
  /\ SetFlashForgetting(Says("refreshed", i), FALSE, Owner(i, Says("refreshed", i), TRUE))
  /\ shown' = [shown EXCEPT ![i] = Says("refreshed", i)]
  /\ UNCHANGED <<nextStatusClaim, ops, generation, news, displaced, lastActionError>>

\* set_recurring_status: each poll of a dashboard, complete or not.
Poll(i) ==
  /\ Running(i) /\ ops[i].kind = "poll" /\ OwnsStatus(i)
  /\ \/ SetFlashForgetting(Empty, FALSE, Owner(i, Empty, TRUE))
     \/ SetFlashForgetting(Says("warning", i), TRUE, Owner(i, Says("warning", i), TRUE))
  /\ UNCHANGED <<nextStatusClaim, ops, shown, generation, news, displaced, lastActionError>>

-----------------------------------------------------------------------------
(* The process and the watch.                                              *)

\* borrow_status: notifications, failed state writes, internal errors.
Notice(err) ==
  /\ news < MaxNews /\ news' = news + 1
  /\ SetFlashForgetting(Says("notice", 0), err, Borrowed(Says("notice", 0)))
  /\ UNCHANGED <<nextStatusClaim, ops, shown, generation, displaced, lastActionError>>

\* set_watch_error_flash
WatchFails ==
  /\ news < MaxNews /\ news' = news + 1
  /\ SetFlash(Says("watch failed", 0), TRUE, Borrowed(Says("watch failed", 0)))
  /\ watchErrorFlash' = Says("watch failed", 0)
  /\ UNCHANGED <<nextStatusClaim, ops, shown, generation, displaced, lastActionError>>

\* clear_watch_error_flash: only its own text goes.
WatchRecovers ==
  /\ watchErrorFlash # Empty
  /\ IF watchErrorFlash = flash
     THEN SetFlash(Empty, FALSE, Borrowed(Empty))
     ELSE UNCHANGED <<flash, flashErr, flashSticky, flashSeen, old, statusClaim>>
  /\ watchErrorFlash' = Empty
  /\ UNCHANGED <<nextStatusClaim, ops, shown, generation, news, displaced, lastActionError>>

Age ==
  /\ ~old /\ old' = TRUE
  /\ UNCHANGED <<flash, flashErr, flashSticky, flashSeen, statusClaim, watchErrorFlash,
                 nextStatusClaim, ops, shown, generation, news, displaced, lastActionError>>

Expires(text) == text # Empty /\ text = flashSeen /\ old /\ ~flashErr /\ ~flashSticky

\* expire_flash sees a text written past set_flash ...
Notices ==
  /\ flash # flashSeen
  /\ statusClaim' = NoOwner /\ flashSeen' = flash
  /\ old' = FALSE /\ flashSticky' = FALSE
  /\ UNCHANGED <<flash, flashErr, watchErrorFlash,
                 nextStatusClaim, ops, shown, generation, news, displaced, lastActionError>>

\* ... or takes an old confirmation off; a running operation keeps its claim.
Expire ==
  /\ Expires(flash) /\ ~EndsWithEllipsis(flash)
  /\ flash' = Empty /\ flashSeen' = Empty
  /\ statusClaim' = IF statusClaim.pending /\ statusClaim.text = flash
                    THEN [statusClaim EXCEPT !.text = Empty] ELSE NoOwner
  /\ UNCHANGED <<flashErr, flashSticky, old, watchErrorFlash,
                 nextStatusClaim, ops, shown, generation, news, displaced, lastActionError>>

Next ==
  \/ \E kind \in Kinds : Start(kind)
  \/ \E what \in {"direct", "connecting"} : Assign(what)
  \/ Answer \/ Refuse \/ Leave
  \/ \E i \in Claims : Finish(i) \/ Fail(i) \/ FinishReport(i) \/ Progress(i) \/ Poll(i)
  \/ \E err \in BOOLEAN : Notice(err)
  \/ WatchFails \/ WatchRecovers \/ Age \/ Notices \/ Expire

Spec == Init /\ [][Next]_vars
=============================================================================
