--------------------------- MODULE StatusBarProps ---------------------------
(***************************************************************************)
(* Who may write the status bar, and what may never be taken off it.       *)
(***************************************************************************)
EXTENDS StatusBar

TypeOK ==
  /\ flash \in Text /\ flashSeen \in Text /\ watchErrorFlash \in Text
  /\ flashErr \in BOOLEAN /\ flashSticky \in BOOLEAN /\ old \in BOOLEAN
  /\ statusClaim \in [claim : Nat, text : Text, pending : BOOLEAN]
  /\ nextStatusClaim \in Nat
  /\ ops \in [Claims -> [kind : Kinds \cup {"none"}, state : {"idle", "running", "failed", "done"},
                     gen : Nat]]
  /\ lastActionError \in Text
  /\ shown \in [Claims -> Text]
  /\ generation \in Nat /\ news \in Nat /\ displaced \subseteq Nat

\* The owner, if there is one, is the operation started last, and it owns the text
\* the last tick saw: once anything else is on the bar, the next tick drops it.
OwnerIsNewest ==
  /\ statusClaim.claim \in {0, nextStatusClaim}
  /\ statusClaim # NoOwner => statusClaim.text = flashSeen

\* A confirmation on the bar is that of the operation started last: a late
\* success of an older one is dropped, even after borrowing and expiry have
\* changed the text in between.
NewestConfirms == flash.what = "done" => flash.by = nextStatusClaim

\* What the proof uses, and the owner's text with it.
StatusInv == TypeOK /\ OwnerIsNewest

\* The newest operation reports, unless the user has moved on: borrowed notices,
\* stale failures, progress and expiry on the way do not cost it its claim.
NewestReports ==
  \A i \in Claims :
    /\ ops[i].kind \in {"action", "drain", "transfer"}
    /\ Running(i) /\ ops'[i].state = "done"
    /\ i = nextStatusClaim /\ i \notin displaced
    => flash'.by = i

\* An error stays until something new takes its place: time, progress, a finished
\* report or another table never take it off. Its own recovery does, and so does
\* the next poll of a dashboard, an error borrowed from another operation included.
ErrorsStay ==
  flashErr /\ ~flashErr' =>
    \/ flash'.what \in {"direct", "connecting", "progress", "done", "notice"}
    \/ flash = watchErrorFlash
    \/ \E i \in Claims : OwnsStatus(i) /\ ops[i].kind = "poll"

\* What the user is told is not lost: neither the newest operation's result nor
\* an error.
OutcomesSeen == [][NewestReports /\ ErrorsStay]_vars
=============================================================================
