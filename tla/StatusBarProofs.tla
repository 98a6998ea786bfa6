-------------------------- MODULE StatusBarProofs --------------------------
(***************************************************************************)
(* TLAPS proofs about three of the parts of MCStatusBar.                   *)
(*   - StatusBar, for any number of operations, notices and tables: only   *)
(*     the operation started last may confirm itself on the bar; it always *)
(*     gets to, unless the user has moved on; an error stays until there   *)
(*     is something new to show.                                           *)
(*   - SecretEdit, for any Secrets, values and requests: no change of a    *)
(*     Secret is overwritten unseen.                                       *)
(*   - SecretFiles, for any processes and directories: every plaintext on  *)
(*     the disk has somebody who will remove it.                           *)
(***************************************************************************)
EXTENDS MCStatusBar, TLAPS

Inv == StatusInv /\ NewestConfirms

\* Every text the methods write is one.
LEMMA Texts ==
  /\ \A what \in Whats, who \in Nat : /\ Says(what, who) \in Text
                                      /\ Says(what, who).what = what /\ Says(what, who).by = who
  /\ Empty \in Text /\ Empty.what = "none"
  /\ NoOwner \in [claim : Nat, text : Text, pending : BOOLEAN]
  /\ NoOwner.claim = 0 /\ NoOwner.text = Empty
BY DEF Says, Text, Whats, Empty, NoOwner

\* Borrowing keeps the owner and gives it the borrowed text.
LEMMA Borrowing ==
  ASSUME Inv, NEW text \in Text
  PROVE  /\ Borrowed(text) \in [claim : Nat, text : Text, pending : BOOLEAN]
         /\ Borrowed(text).claim \in {0, nextStatusClaim}
         /\ Borrowed(text) # NoOwner => Borrowed(text).text = text
BY Texts DEF Inv, StatusInv, TypeOK, OwnerIsNewest, Borrowed

\* What the methods do to the bar, whoever calls them.
BarInv ==
  /\ flash \in Text /\ flashSeen \in Text /\ watchErrorFlash \in Text
  /\ flashErr \in BOOLEAN /\ flashSticky \in BOOLEAN /\ old \in BOOLEAN
  /\ statusClaim \in [claim : Nat, text : Text, pending : BOOLEAN]
  /\ statusClaim.claim \in {0, nextStatusClaim}
  /\ statusClaim # NoOwner => statusClaim.text = flashSeen
  /\ flash.what = "done" => flash.by = nextStatusClaim

RestInv ==
  /\ nextStatusClaim \in Nat
  /\ ops \in [Claims -> [kind : Kinds \cup {"none"}, state : {"idle", "running", "failed", "done"},
                                        gen : Nat]]
  /\ shown \in [Claims -> Text]
  /\ generation \in Nat /\ news \in Nat /\ displaced \subseteq Nat
  /\ lastActionError \in Text

\* The two parts are the invariant.
LEMMA InvParts == Inv <=> BarInv /\ RestInv
BY DEF Inv, StatusInv, TypeOK, OwnerIsNewest, NewestConfirms, BarInv, RestInv

\* The result of an operation keeps the bar's part, its claim being the newest or
\* its success being dropped.
LEMMA ClaimedStatus ==
  ASSUME Inv, NEW i \in Claims, nextStatusClaim' = nextStatusClaim,
         \/ SetClaimedStatus(i, Says("done", i), FALSE)
         \/ SetClaimedStatus(i, Says("failed", i), TRUE)
  PROVE  BarInv'
<1>0. i \in Nat /\ i # 0 /\ nextStatusClaim \in Nat
  BY InvParts DEF Claims, RestInv
<1>1. PICK text \in {Says("done", i), Says("failed", i)}, err \in BOOLEAN :
         SetClaimedStatus(i, text, err) /\ (text.what = "done" => ~err)
  BY <1>0, Texts DEF Says, Text, Whats
<1>2. text \in Text /\ text.by = i
  <2>1. /\ Says("done", i) \in Text /\ Says("done", i).by = i
        /\ Says("failed", i) \in Text /\ Says("failed", i).by = i
    BY <1>0 DEF Says, Text, Whats
  <2> QED
    BY <1>1, <2>1
<1>3. CASE OwnsStatus(i) /\ SetFlashForgetting(text, err, Owner(i, text, FALSE))
  <2>1. i = nextStatusClaim
    BY <1>0, <1>3, InvParts DEF OwnsStatus, BarInv
  <2>2. /\ Owner(i, text, FALSE) \in [claim : Nat, text : Text, pending : BOOLEAN]
        /\ Owner(i, text, FALSE).claim = i /\ Owner(i, text, FALSE).text = text
    BY <1>0, <1>2 DEF Owner
  <2> QED
    BY <1>2, <1>3, <2>1, <2>2, Texts DEF SetFlashForgetting, SetFlash, BarInv
<1>4. CASE err /\ SetFlashForgetting(text, TRUE, Borrowed(text))
  <2>1. text.what # "done"
    BY <1>1, <1>4
  <2> QED
    BY <1>2, <1>4, <2>1, Borrowing, Texts DEF SetFlashForgetting, SetFlash, BarInv
<1>5. CASE UNCHANGED bar
  BY <1>5, InvParts DEF bar, BarInv
<1> QED
  BY <1>1, <1>3, <1>4, <1>5 DEF SetClaimedStatus

\* Every step keeps the invariant.
LEMMA NextInv == ASSUME Inv, [Next]_vars PROVE Inv'
<1>0. BarInv /\ RestInv
  BY InvParts
<1>a. SUFFICES BarInv' /\ RestInv'
  BY DEF Inv, StatusInv, TypeOK, OwnerIsNewest, NewestConfirms, BarInv, RestInv
<1>1. ASSUME NEW kind \in Kinds, Start(kind) PROVE BarInv' /\ RestInv'
  <2> DEFINE i == nextStatusClaim + 1
             text == Says("progress", i)
  <2>0. i \in Nat
    BY <1>0 DEF RestInv
  <2>1. text \in Text /\ text.what = "progress"
    BY <2>0 DEF Says, Text, Whats
  <2>2. /\ Owner(i, text, TRUE) \in [claim : Nat, text : Text, pending : BOOLEAN]
        /\ Owner(i, text, TRUE).claim = i /\ Owner(i, text, TRUE).text = text
    BY <2>0, <2>1 DEF Owner
  <2>3. BarInv'
    BY <1>1, <2>0, <2>1, <2>2, Texts DEF Start, SetFlashForgetting, SetFlash, BarInv
  <2>4. RestInv'
    BY <1>0, <1>1, <2>0, <2>1 DEF Start, RestInv
  <2> QED
    BY <2>3, <2>4
<1>2. CASE Answer \/ Refuse \/ \E what \in {"direct", "connecting"} : Assign(what)
  <2>1. Says("direct", 0) \in Text /\ Says("direct", 0).what = "direct"
    BY Texts DEF Says, Text, Whats
  <2>2. \A what \in {"direct", "connecting"} : Says(what, 0) \in Text /\ Says(what, 0).what = what
    BY Texts DEF Says, Text, Whats
  <2>3. nextStatusClaim' = nextStatusClaim
    BY <1>2 DEF Answer, Refuse, Assign
  <2>4. BarInv'
    <3>1. CASE Answer
      BY <1>0, <2>1, <2>3, <3>1, Texts DEF Answer, SetFlashForgetting, SetFlash, BarInv
    <3>2. CASE Refuse
      BY <1>0, <2>1, <2>3, <3>2, Texts DEF Refuse, BarInv
    <3>3. ASSUME NEW what \in {"direct", "connecting"}, Assign(what) PROVE BarInv'
      BY <1>0, <2>2, <2>3, <3>3 DEF Assign, BarInv
    <3> QED
      BY <1>2, <3>1, <3>2, <3>3
  <2>5. RestInv'
    <3>1. displaced' \subseteq Nat
      <4>1. displaced' = 1 .. nextStatusClaim
        BY <1>2 DEF Answer, Refuse, Assign
      <4>2. nextStatusClaim \in Nat
        BY <1>0 DEF RestInv
      <4> QED
        BY <4>1, <4>2
    <3> QED
      BY <1>0, <1>2, <3>1 DEF Answer, Refuse, Assign, RestInv
  <2> QED
    BY <2>4, <2>5
<1>3. CASE Leave
  <2>1. BarInv'
    BY <1>0, <1>3, Texts DEF Leave, BarInv
  <2>2. RestInv'
    <3>1. ops' \in [Claims -> [kind : Kinds \cup {"none"}, state : {"idle", "running", "failed", "done"},
                                        gen : Nat]]
      BY <1>0, <1>3 DEF Leave, RestInv
    <3> QED
      BY <1>0, <1>3, <3>1 DEF Leave, RestInv
  <2> QED
    BY <2>1, <2>2
<1>4. ASSUME NEW i \in Claims, Finish(i) \/ Fail(i) \/ FinishReport(i) \/ Progress(i) \/ Poll(i)
      PROVE  BarInv' /\ RestInv'
  <2>0. i \in Nat /\ i # 0 /\ nextStatusClaim' = nextStatusClaim
    <3>1. i \in Nat /\ i # 0
      BY StatusBarAssumption DEF Claims
    <3> QED
      BY <1>4, <3>1 DEF Finish, Fail, FinishReport, Progress, Poll
  <2>1. ASSUME Finish(i) \/ Fail(i) PROVE BarInv'
    <3>1. CASE UNCHANGED bar
      BY <1>0, <2>0, <3>1 DEF bar, BarInv
    <3>2. CASE \/ SetClaimedStatus(i, Says("done", i), FALSE)
               \/ SetClaimedStatus(i, Says("failed", i), TRUE)
      BY <2>0, <3>2, ClaimedStatus
    <3> QED
      BY <2>1, <3>1, <3>2 DEF Finish, Fail
  <2>2. ASSUME FinishReport(i) PROVE BarInv'
    <3>1. ASSUME ClearClaimedStatus(i) PROVE BarInv'
      BY <1>0, <2>0, <3>1, Texts DEF ClearClaimedStatus, BarInv
    <3>2. ASSUME SetClaimedStatus(i, Says("failed", i), TRUE) PROVE BarInv'
      BY <2>0, <3>2, ClaimedStatus
    <3> QED
      BY <2>2, <3>1, <3>2 DEF FinishReport
  <2>3. ASSUME NEW text \in {Empty, Says("refreshed", i), Says("warning", i)}, NEW err \in BOOLEAN,
               OwnsStatus(i), SetFlashForgetting(text, err, Owner(i, text, TRUE))
        PROVE  BarInv'
    <3>1. text \in Text /\ text.what # "done"
      <4>1. /\ Says("refreshed", i) \in Text /\ Says("refreshed", i).what # "done"
            /\ Says("warning", i) \in Text /\ Says("warning", i).what # "done"
        BY <2>0 DEF Says, Text, Whats
      <4> QED
        BY <2>3, <4>1, Texts
    <3>2. /\ Owner(i, text, TRUE) \in [claim : Nat, text : Text, pending : BOOLEAN]
          /\ Owner(i, text, TRUE).claim = i /\ Owner(i, text, TRUE).text = text
      BY <2>0, <3>1 DEF Owner
    <3>3. i = nextStatusClaim
      BY <1>0, <2>0, <2>3 DEF OwnsStatus, BarInv
    <3> QED
      BY <2>0, <2>3, <3>1, <3>2, <3>3, Texts DEF SetFlashForgetting, SetFlash, BarInv
  <2>4. ASSUME Progress(i) PROVE BarInv'
    BY <2>3, <2>4 DEF Progress
  <2>5. ASSUME Poll(i) PROVE BarInv'
    BY <2>3, <2>5 DEF Poll
  <2>6. BarInv'
    BY <1>4, <2>1, <2>2, <2>4, <2>5
  <2>7. ops' \in [Claims -> [kind : Kinds \cup {"none"}, state : {"idle", "running", "failed", "done"},
                                        gen : Nat]]
    BY ZenonT(40), <1>0, <1>4 DEF Finish, Fail, FinishReport, Progress, Poll, RestInv
  <2>8. shown' \in [Claims -> Text]
    <3>1. Says("refreshed", i) \in Text
      BY <2>0, Texts DEF Says, Text, Whats
    <3> QED
      BY <1>0, <1>4, <3>1 DEF Finish, Fail, FinishReport, Progress, Poll, RestInv
  <2>a. lastActionError' \in Text
    <3>1. Says("failed", i) \in Text
      BY <2>0, Texts DEF Says, Text, Whats
    <3> QED
      BY <1>0, <1>4, <3>1 DEF Finish, Fail, FinishReport, Progress, Poll, RestInv
  <2>9. RestInv'
    BY <1>0, <1>4, <2>0, <2>7, <2>8, <2>a DEF Finish, Fail, FinishReport, Progress, Poll, RestInv
  <2> QED
    BY <2>6, <2>9
<1>5. ASSUME NEW err \in BOOLEAN, Notice(err) PROVE BarInv' /\ RestInv'
  <2>1. Says("notice", 0) \in Text /\ Says("notice", 0).what = "notice"
    BY Texts DEF Says, Text, Whats
  <2>2. BarInv'
    BY <1>0, <1>5, <2>1, Borrowing, Texts DEF Notice, SetFlashForgetting, SetFlash, BarInv
  <2>3. RestInv'
    BY <1>0, <1>5 DEF Notice, RestInv
  <2> QED
    BY <2>2, <2>3
<1>6. CASE WatchFails
  <2>1. Says("watch failed", 0) \in Text /\ Says("watch failed", 0).what = "watch failed"
    BY Texts DEF Says, Text, Whats
  <2>2. BarInv'
    BY <1>0, <1>6, <2>1, Borrowing, Texts DEF WatchFails, SetFlash, BarInv
  <2>3. RestInv'
    <3>1. news' = news + 1 /\ UNCHANGED <<nextStatusClaim, ops, shown, generation, displaced, lastActionError>>
      BY <1>6 DEF WatchFails
    <3> QED
      BY <1>0, <3>1 DEF RestInv
  <2> QED
    BY <2>2, <2>3
<1>7. CASE WatchRecovers
  <2>1. BarInv'
    <3>1. CASE watchErrorFlash = flash
      <4>1. SetFlash(Empty, FALSE, Borrowed(Empty)) /\ watchErrorFlash' = Empty /\ nextStatusClaim' = nextStatusClaim
        BY <1>7, <3>1 DEF WatchRecovers
      <4> QED
        BY <1>0, <4>1, Borrowing, Texts DEF SetFlash, BarInv
    <3>2. CASE watchErrorFlash # flash
      BY <1>0, <1>7, <3>2, Texts DEF WatchRecovers, BarInv
    <3> QED
      BY <3>1, <3>2
  <2>2. RestInv'
    BY <1>0, <1>7 DEF WatchRecovers, RestInv
  <2> QED
    BY <2>1, <2>2
<1>8. CASE Age \/ Notices \/ Expire
  <2>1. [statusClaim EXCEPT !.text = Empty] \in [claim : Nat, text : Text, pending : BOOLEAN]
        /\ [statusClaim EXCEPT !.text = Empty].claim = statusClaim.claim
        /\ [statusClaim EXCEPT !.text = Empty].text = Empty
    BY <1>0, Texts DEF BarInv
  <2>2. BarInv'
    BY <1>0, <1>8, <2>1, Texts DEF Age, Notices, Expire, BarInv
  <2>3. RestInv'
    BY <1>0, <1>8 DEF Age, Notices, Expire, RestInv
  <2> QED
    BY <2>2, <2>3
<1>9. CASE UNCHANGED vars
  BY <1>0, <1>9 DEF vars, bar, BarInv, RestInv
<1> QED
  BY <1>1, <1>2, <1>3, <1>4, <1>5, <1>6, <1>7, <1>8, <1>9 DEF Next

\* The invariant holds at the start.
LEMMA InitInv == Init => Inv
<1> SUFFICES ASSUME Init PROVE BarInv /\ RestInv
  BY InvParts
<1>1. Says("hint", 0) \in Text /\ Says("hint", 0).what = "hint"
  BY Texts DEF Says, Text, Whats
<1>2. BarInv
  BY <1>1, Texts DEF Init, BarInv
<1>3. RestInv
  BY Texts DEF Init, RestInv
<1> QED
  BY <1>2, <1>3

\* The invariant holds throughout.
LEMMA Invariance == Spec => []Inv
BY InitInv, NextInv, PTL DEF Spec

\* The owner of the bar is the operation started last, and every text is a text.
THEOREM OwnerNewest == Spec => []StatusInv
<1>1. Inv => StatusInv
  BY DEF Inv
<1> QED
  BY <1>1, Invariance, PTL

\* A late success of an older operation never shows.
THEOREM OnlyNewestConfirms == Spec => []NewestConfirms
<1>1. Inv => NewestConfirms
  BY DEF Inv
<1> QED
  BY <1>1, Invariance, PTL

-----------------------------------------------------------------------------
(* What the user is told is not lost.                                      *)

Reporting == {"action", "drain", "transfer"}

\* The bar is claim i's: the text is, and a tick or its expiry leaves it so.
Holds(i) == OwnsStatus(i) /\ statusClaim.pending /\ flash = flashSeen

\* While the newest operation runs and the user has not moved on, the bar is its own
\* and its table is the one on screen.
Awaited(i) ==
  i = nextStatusClaim /\ i \notin displaced /\ ops[i].kind \in Reporting /\ Running(i)
NewestHolds ==
  \A i \in Claims : Awaited(i) => Holds(i) /\ ops[i].gen = generation

\* A claim nobody has taken is no drain's.
Unclaimed == \A i \in Claims : i > nextStatusClaim => ops[i].kind # "drain"

\* Progress is never an error, and only progress is remembered as shown.
ErrorsAreNews ==
  /\ flashErr => flash.what \in {"direct", "warning", "failed", "notice", "watch failed"}
  /\ \A i \in Claims : shown[i].what \in {"none", "progress", "refreshed"}

OutcomeInv == Inv /\ NewestHolds /\ Unclaimed /\ ErrorsAreNews

\* What anybody borrows the bar for, its owner keeps it.
LEMMA BorrowingHolds ==
  ASSUME Inv, NEW i \in Claims, Holds(i), NEW text, NEW err,
         SetFlash(text, err, Borrowed(text))
  PROVE  Holds(i)'
<1>1. i # 0 /\ statusClaim \in [claim : Nat, text : Text, pending : BOOLEAN]
  BY InvParts, StatusBarAssumption DEF Claims, BarInv
<1>2. statusClaim # NoOwner
  BY <1>1, Texts DEF Holds, OwnsStatus
<1>3. /\ Borrowed(text).claim = i /\ Borrowed(text).text = text
      /\ Borrowed(text).pending
  BY <1>1, <1>2 DEF Borrowed, Holds, OwnsStatus
<1> QED
  BY <1>3 DEF SetFlash, Holds, OwnsStatus

\* Nor does the result of another operation take it.
LEMMA OthersHold ==
  ASSUME Inv, NEW i \in Claims, Holds(i), NEW j \in Claims, j # i, NEW text, NEW err,
         SetClaimedStatus(j, text, err)
  PROVE  Holds(i)'
<1>1. ~OwnsStatus(j)
  BY DEF Holds, OwnsStatus
<1>2. CASE SetFlashForgetting(text, TRUE, Borrowed(text))
  BY <1>2, BorrowingHolds DEF SetFlashForgetting
<1>3. CASE UNCHANGED bar
  BY <1>3 DEF bar, Holds, OwnsStatus
<1> QED
  BY <1>1, <1>2, <1>3 DEF SetClaimedStatus

\* Until it reports or the user moves on, the newest operation holds the bar.
LEMMA HoldsStep == ASSUME OutcomeInv, [Next]_vars PROVE NewestHolds'
<1> SUFFICES ASSUME NEW i \in Claims, Awaited(i)'
             PROVE  Holds(i)' /\ ops'[i].gen = generation'
  BY DEF NewestHolds
<1>0. BarInv /\ RestInv /\ Inv /\ i \in Nat /\ i # 0
  BY InvParts, StatusBarAssumption DEF Claims, OutcomeInv
<1>1. CASE Awaited(i) /\ UNCHANGED <<ops, generation>> /\ Holds(i)'
  BY <1>1 DEF OutcomeInv, NewestHolds
<1>2. ASSUME NEW kind \in Kinds, Start(kind)
      PROVE  Holds(i)' /\ ops'[i].gen = generation'
  <2>1. i = nextStatusClaim + 1
    BY <1>2 DEF Start, Awaited
  <2>2. /\ ops'[i] = [kind |-> kind, state |-> "running", gen |-> generation]
        /\ generation' = generation
    BY <1>0, <1>2, <2>1 DEF Start, RestInv
  <2>3. SetFlash(Says("progress", i), FALSE, Owner(i, Says("progress", i), TRUE))
    BY <1>2, <2>1 DEF Start, SetFlashForgetting
  <2> QED
    BY <2>2, <2>3 DEF SetFlash, Owner, Holds, OwnsStatus
<1>3. CASE Answer \/ Refuse \/ Leave \/ \E what \in {"direct", "connecting"} : Assign(what)
  <2>1. displaced' = 1 .. nextStatusClaim /\ nextStatusClaim' = nextStatusClaim
    BY <1>3 DEF Answer, Refuse, Leave, Assign
  <2>2. i \in 1 .. nextStatusClaim
    BY <1>0, <2>1 DEF Awaited, RestInv
  <2> QED
    BY <2>1, <2>2 DEF Awaited
<1>4. ASSUME NEW j \in Claims, Finish(j) \/ Fail(j) \/ FinishReport(j) \/ Progress(j) \/ Poll(j)
      PROVE  Holds(i)' /\ ops'[i].gen = generation'
  <2>0. UNCHANGED <<nextStatusClaim, displaced, generation>>
    BY <1>4 DEF Finish, Fail, FinishReport, Progress, Poll
  <2>a. ops' = ops \/ \E state \in {"done", "failed"} : ops' = [ops EXCEPT ![j].state = state]
    BY <1>4 DEF Finish, Fail, FinishReport, Progress, Poll
  <2>1. /\ ops'[i].kind = ops[i].kind /\ ops'[i].gen = ops[i].gen
        /\ (ops'[i].state = "running" => ops[i].state = "running")
    BY <1>0, <2>a DEF RestInv
  <2>2. Awaited(i)
    BY <2>0, <2>1 DEF Awaited, Running
  <2>3. Holds(i) /\ ops[i].gen = generation
    BY <2>2 DEF OutcomeInv, NewestHolds
  <2>4. ASSUME Finish(j) \/ Fail(j) PROVE Holds(i)'
    <3>1. j # i
      BY ZenonT(40), <1>0, <2>4, <2>2 DEF Finish, Fail, Awaited, Running, RestInv
    <3>2. CASE UNCHANGED bar
      BY <2>3, <3>2 DEF bar, Holds, OwnsStatus
    <3>3. CASE \/ SetClaimedStatus(j, Says("done", j), FALSE)
               \/ SetClaimedStatus(j, Says("failed", j), TRUE)
      BY <1>0, <2>3, <3>1, <3>3, OthersHold
    <3> QED
      BY <2>4, <3>2, <3>3 DEF Finish, Fail
  <2>5. ASSUME FinishReport(j) PROVE Holds(i)'
    <3>1. j # i
      BY <2>5, <2>2 DEF FinishReport, Awaited, Reporting
    <3>2. CASE ClearClaimedStatus(j)
      BY <2>3, <3>1, <3>2 DEF ClearClaimedStatus, Holds, OwnsStatus
    <3>3. CASE SetClaimedStatus(j, Says("failed", j), TRUE)
      BY <1>0, <2>3, <3>1, <3>3, OthersHold
    <3> QED
      BY <2>5, <3>2, <3>3 DEF FinishReport
  <2>6. ASSUME Progress(j) PROVE Holds(i)'
    <3>1. j = i
      BY <2>3, <2>6 DEF Progress, Holds, OwnsStatus
    <3> QED
      BY <2>6, <3>1 DEF Progress, SetFlashForgetting, SetFlash, Owner, Holds, OwnsStatus
  <2>7. ~Poll(j)
    BY <2>2, <2>3 DEF Poll, Awaited, Reporting, Holds, OwnsStatus
  <2> QED
    BY <1>4, <2>0, <2>1, <2>3, <2>4, <2>5, <2>6, <2>7
<1>5. ASSUME NEW err \in BOOLEAN, Notice(err) \/ WatchFails \/ WatchRecovers \/ Age \/ Notices \/ Expire
      PROVE  Holds(i)' /\ ops'[i].gen = generation'
  <2>1. UNCHANGED <<nextStatusClaim, displaced, generation, ops>>
    BY <1>5 DEF Notice, WatchFails, WatchRecovers, Age, Notices, Expire
  <2>2. Holds(i) /\ ops[i].gen = generation
    BY <2>1 DEF OutcomeInv, NewestHolds, Awaited, Running
  <2>3. CASE Notice(err)
    BY <1>0, <2>2, <2>3, BorrowingHolds DEF Notice, SetFlashForgetting
  <2>4. CASE WatchFails
    BY <1>0, <2>2, <2>4, BorrowingHolds DEF WatchFails
  <2>5. CASE WatchRecovers
    <3>1. CASE SetFlash(Empty, FALSE, Borrowed(Empty))
      BY <1>0, <2>1, <2>2, <3>1, BorrowingHolds
    <3>2. CASE UNCHANGED <<flash, flashErr, flashSticky, flashSeen, old, statusClaim>>
      BY <2>1, <2>2, <3>2 DEF Holds, OwnsStatus
    <3> QED
      BY <2>5, <3>1, <3>2 DEF WatchRecovers
  <2>6. CASE Age
    BY <2>2, <2>6 DEF Age, Holds, OwnsStatus
  <2>7. ~Notices
    BY <2>2 DEF Notices, Holds
  <2>8. CASE Expire
    BY <1>0, <2>2, <2>8 DEF Expire, Holds, OwnsStatus, BarInv
  <2> QED
    BY <1>5, <2>1, <2>2, <2>3, <2>4, <2>5, <2>6, <2>7, <2>8
<1>6. CASE UNCHANGED vars
  BY <1>6 DEF vars, bar, OutcomeInv, NewestHolds, Awaited, Running, Holds, OwnsStatus
<1> QED
  BY <1>2, <1>3, <1>4, <1>5, <1>6 DEF Next

\* Claims are taken in order.
LEMMA UnclaimedStep == ASSUME OutcomeInv, [Next]_vars PROVE Unclaimed'
<1> SUFFICES ASSUME NEW i \in Claims, i > nextStatusClaim'
             PROVE  ops'[i].kind # "drain"
  BY DEF Unclaimed
<1>0. RestInv /\ i \in Nat
  BY InvParts, StatusBarAssumption DEF Claims, OutcomeInv
<1>1. nextStatusClaim' \in {nextStatusClaim, nextStatusClaim + 1}
  BY DEF Next, Start, Assign, Answer, Refuse, Leave, Finish, Fail, FinishReport, Progress, Poll,
         Notice, WatchFails, WatchRecovers, Age, Notices, Expire, vars
<1>2. i > nextStatusClaim
  BY <1>0, <1>1 DEF RestInv
<1>3. ops[i].kind # "drain"
  BY <1>2 DEF OutcomeInv, Unclaimed
<1>4. ops'[i].kind = ops[i].kind
  <2>1. ASSUME NEW kind \in Kinds, Start(kind) PROVE ops'[i].kind = ops[i].kind
    BY <1>0, <2>1 DEF Start, RestInv
  <2>2. CASE Leave
    BY <1>0, <2>2 DEF Leave, RestInv
  <2>3. ASSUME NEW j \in Claims, Finish(j) \/ Fail(j) \/ FinishReport(j) \/ Progress(j) \/ Poll(j)
        PROVE  ops'[i].kind = ops[i].kind
    BY <1>0, <2>3 DEF Finish, Fail, FinishReport, Progress, Poll, RestInv
  <2>4. CASE UNCHANGED ops
    BY <2>4
  <2> QED
    BY <2>1, <2>2, <2>3, <2>4
    DEF Next, Assign, Answer, Refuse, Notice, WatchFails, WatchRecovers, Age, Notices, Expire, vars
<1> QED
  BY <1>3, <1>4


\* Whatever is written as an error is one, and progress never is.
LEMMA ErrorsStep == ASSUME OutcomeInv, [Next]_vars PROVE ErrorsAreNews'
<1>0. BarInv /\ RestInv /\ Inv
  BY InvParts DEF OutcomeInv
<1>1. (flashErr => flash.what \in {"direct", "warning", "failed", "notice", "watch failed"})'
  <2>1. CASE UNCHANGED <<flash, flashErr>> \/ ~flashErr'
    BY <2>1 DEF OutcomeInv, ErrorsAreNews
  <2>3. \A what, i : Says(what, i).what = what
    BY DEF Says
  <2>4. ASSUME NEW i \in Claims, SetClaimedStatus(i, Says("failed", i), TRUE)
        PROVE  (flashErr => flash.what \in {"direct", "warning", "failed", "notice", "watch failed"})'
    BY <2>1, <2>3, <2>4 DEF SetClaimedStatus, SetFlashForgetting, SetFlash, bar
  <2>5. ASSUME NEW i \in Claims, SetClaimedStatus(i, Says("done", i), FALSE)
        PROVE  UNCHANGED <<flash, flashErr>> \/ ~flashErr'
    BY <2>5 DEF SetClaimedStatus, SetFlashForgetting, SetFlash, bar
  <2>6. ASSUME NEW i \in Claims, Finish(i) \/ Fail(i)
        PROVE  (flashErr => flash.what \in {"direct", "warning", "failed", "notice", "watch failed"})'
    BY <2>1, <2>4, <2>5, <2>6 DEF Finish, Fail, bar
  <2>7. ASSUME NEW i \in Claims, FinishReport(i)
        PROVE  (flashErr => flash.what \in {"direct", "warning", "failed", "notice", "watch failed"})'
    BY <1>0, <2>1, <2>4, <2>7 DEF FinishReport, ClearClaimedStatus, BarInv
  <2>8. ASSUME NEW i \in Claims, Progress(i) \/ Poll(i)
        PROVE  (flashErr => flash.what \in {"direct", "warning", "failed", "notice", "watch failed"})'
    BY <2>3, <2>8 DEF Progress, Poll, SetFlashForgetting, SetFlash
  <2>9. CASE Answer \/ Refuse \/ WatchFails \/ \E err \in BOOLEAN : Notice(err)
    BY <2>3, <2>9 DEF Answer, Refuse, WatchFails, Notice, SetFlashForgetting, SetFlash
  <2>10. CASE (\E kind \in Kinds : Start(kind)) \/ \E what \in {"direct", "connecting"} : Assign(what)
    BY <2>1, <2>10 DEF Start, Assign, SetFlashForgetting, SetFlash
  <2>11. CASE Leave
    BY <1>0, <2>1, <2>11 DEF Leave, BarInv
  <2>12. CASE WatchRecovers
    BY <2>1, <2>12 DEF WatchRecovers, SetFlash
  <2>13. CASE Age \/ Notices \/ Expire \/ UNCHANGED vars
    BY <2>1, <2>13 DEF Age, Notices, Expire, Expires, vars, bar
  <2> QED
    BY <2>6, <2>7, <2>8, <2>9, <2>10, <2>11, <2>12, <2>13 DEF Next
<1>2. (\A i \in Claims : shown[i].what \in {"none", "progress", "refreshed"})'
  <2>0. shown \in [Claims -> Text] /\ \A i \in Claims : shown[i].what \in {"none", "progress", "refreshed"}
    BY <1>0 DEF OutcomeInv, ErrorsAreNews, RestInv
  <2>1. CASE UNCHANGED shown
    BY <2>0, <2>1
  <2>2. ASSUME NEW i \in Claims, NEW what \in {"progress", "refreshed"},
               shown' = [shown EXCEPT ![i] = Says(what, i)]
        PROVE  (\A j \in Claims : shown[j].what \in {"none", "progress", "refreshed"})'
    BY <2>0, <2>2 DEF Says
  <2>3. ASSUME NEW kind \in Kinds, Start(kind)
        PROVE  (\A j \in Claims : shown[j].what \in {"none", "progress", "refreshed"})'
    BY <2>2, <2>3 DEF Start
  <2>4. ASSUME NEW i \in Claims, Progress(i)
        PROVE  (\A j \in Claims : shown[j].what \in {"none", "progress", "refreshed"})'
    BY <2>2, <2>4 DEF Progress
  <2> QED
    BY <2>1, <2>3, <2>4
    DEF Next, Assign, Answer, Refuse, Leave, Finish, Fail, FinishReport, Poll,
        Notice, WatchFails, WatchRecovers, Age, Notices, Expire, vars
<1> QED
  BY <1>1, <1>2 DEF ErrorsAreNews

\* The newest operation's own step is the one that ends it, and it reports.
LEMMA Reports == ASSUME OutcomeInv, [Next]_vars PROVE NewestReports
<1> SUFFICES ASSUME NEW i \in Claims, Awaited(i), ops'[i].state = "done"
             PROVE  flash'.by = i
  BY DEF NewestReports, Awaited, Reporting
<1>0. RestInv /\ Holds(i) /\ ops[i].gen = generation /\ i \in Nat /\ Running(i)
  BY InvParts, StatusBarAssumption DEF Claims, OutcomeInv, NewestHolds, Awaited
<1>1. Heard(i)
  BY <1>0, StatusBarAssumption DEF Heard, OutcomeInv, Unclaimed, Awaited, Claims
<1>2. ASSUME NEW j \in Claims, Finish(j) \/ Fail(j) \/ FinishReport(j) \/ Progress(j) \/ Poll(j)
      PROVE  j = i /\ (Finish(i) \/ Fail(i))
  <2>1. ops' = ops \/ (ops' = [ops EXCEPT ![j].state = ops'[j].state])
    BY <1>0, <1>2 DEF Finish, Fail, FinishReport, Progress, Poll, RestInv
  <2>2. j = i
    BY <1>0, <2>1 DEF RestInv, Running
  <2> QED
    BY <1>0, <1>2, <2>2 DEF FinishReport, Progress, Poll, Running, Awaited, Reporting
<1>3. ASSUME Finish(i) \/ Fail(i) PROVE flash'.by = i
  <2>1. \/ SetClaimedStatus(i, Says("done", i), FALSE)
        \/ SetClaimedStatus(i, Says("failed", i), TRUE)
    BY <1>1, <1>3 DEF Finish, Fail
  <2>2. flash' = Says("done", i) \/ flash' = Says("failed", i)
    BY <1>0, <2>1 DEF Holds, SetClaimedStatus, SetFlashForgetting, SetFlash
  <2> QED
    BY <2>2 DEF Says
<1>4. ASSUME NEW kind \in Kinds, Start(kind) PROVE FALSE
  BY <1>0, <1>4 DEF Start, RestInv, Running, Awaited
<1>5. ~Leave
  BY <1>0 DEF Leave, RestInv, Running, Awaited, Reporting
<1>6. ops' # ops
  BY <1>0 DEF Running
<1> QED
  BY <1>2, <1>3, <1>4, <1>5, <1>6
  DEF Next, Assign, Answer, Refuse, Notice, WatchFails, WatchRecovers, Age, Notices, Expire, vars

\* Every way an error goes.
LEMMA Errors == ASSUME OutcomeInv, [Next]_vars PROVE ErrorsStay
<1> SUFFICES ASSUME flashErr, ~flashErr'
             PROVE  \/ flash'.what \in {"direct", "connecting", "progress", "done", "notice"}
                    \/ flash = watchErrorFlash
                    \/ \E i \in Claims : OwnsStatus(i) /\ ops[i].kind = "poll"
  BY DEF ErrorsStay
<1>0. /\ flash.what \in {"direct", "warning", "failed", "notice", "watch failed"}
      /\ \A i \in Claims : shown[i].what \in {"none", "progress", "refreshed"}
      /\ flash # Empty
  BY Texts DEF OutcomeInv, ErrorsAreNews
<1>1. \A what, i : Says(what, i).what = what
  BY DEF Says
<1>2. ASSUME NEW kind \in Kinds, Start(kind) PROVE flash'.what = "progress"
  BY <1>1, <1>2 DEF Start, SetFlashForgetting, SetFlash
<1>3. CASE Answer \/ \E what \in {"direct", "connecting"} : Assign(what)
  BY <1>1, <1>3 DEF Answer, Assign, SetFlashForgetting, SetFlash
<1>4. CASE Leave
  <2>1. ~EndsWithEllipsis(flash)
    BY <1>0 DEF EndsWithEllipsis
  <2> QED
    BY <1>4, <2>1 DEF Leave
<1>5. ASSUME NEW i \in Claims, Finish(i) \/ Fail(i) \/ FinishReport(i) PROVE flash'.what = "done"
  <2>1. ASSUME SetClaimedStatus(i, Says("done", i), FALSE) PROVE flash'.what = "done"
    BY <1>1, <2>1 DEF SetClaimedStatus, SetFlashForgetting, SetFlash, bar
  <2>2. ~SetClaimedStatus(i, Says("failed", i), TRUE)
    BY DEF SetClaimedStatus, SetFlashForgetting, SetFlash, bar
  <2>3. ~ClearClaimedStatus(i)
    BY DEF ClearClaimedStatus
  <2> QED
    BY <1>5, <2>1, <2>2, <2>3 DEF Finish, Fail, FinishReport, bar
<1>6. ASSUME NEW i \in Claims PROVE ~Progress(i)
  BY <1>0 DEF Progress
<1>7. ASSUME NEW i \in Claims, Poll(i) PROVE OwnsStatus(i) /\ ops[i].kind = "poll"
  BY <1>7 DEF Poll
<1>8. ASSUME NEW err \in BOOLEAN, Notice(err) PROVE flash'.what = "notice"
  BY <1>1, <1>8 DEF Notice, SetFlashForgetting, SetFlash
<1>9. CASE WatchRecovers
  BY <1>9 DEF WatchRecovers
<1>10. CASE Refuse \/ WatchFails \/ Age \/ Notices \/ Expire \/ UNCHANGED vars
  BY <1>10 DEF Refuse, WatchFails, Age, Notices, Expire, SetFlash, vars, bar
<1> QED
  BY <1>2, <1>3, <1>4, <1>5, <1>6, <1>7, <1>8, <1>9, <1>10 DEF Next

\* The strengthened invariant holds throughout.
LEMMA OutcomeInvariance == Spec => []OutcomeInv
<1>1. Init => OutcomeInv
  <2> SUFFICES ASSUME Init PROVE NewestHolds /\ Unclaimed /\ ErrorsAreNews
    BY InitInv DEF OutcomeInv
  <2>1. \A i \in Claims : ops[i].kind = "none" /\ ops[i].state = "idle" /\ shown[i] = Empty
    BY DEF Init
  <2> QED
    BY <2>1, Texts DEF Init, NewestHolds, Awaited, Running, Unclaimed, ErrorsAreNews
<1>2. OutcomeInv /\ [Next]_vars => OutcomeInv'
  <2> SUFFICES ASSUME OutcomeInv, [Next]_vars PROVE OutcomeInv'
    OBVIOUS
  <2> QED
    BY NextInv, HoldsStep, UnclaimedStep, ErrorsStep DEF OutcomeInv
<1> QED
  BY <1>1, <1>2, PTL DEF Spec

\* What the user is told is not lost: the newest operation reports, and an error
\* stays until something new takes its place.
THEOREM Outcomes == Spec => OutcomesSeen
<1>1. OutcomeInv /\ [Next]_vars => NewestReports /\ ErrorsStay
  <2> SUFFICES ASSUME OutcomeInv, [Next]_vars PROVE NewestReports /\ ErrorsStay
    OBVIOUS
  <2> QED
    BY Reports, Errors
<1> QED
  BY <1>1, OutcomeInvariance, PTL DEF Spec, OutcomesSeen


-----------------------------------------------------------------------------
(* Editing a Secret (SecretEdit).                                          *)

Content == [rv : Nat, value : Values]
Read == [secret : Secrets, request : Nat, sent : BOOLEAN, got : Content]
Change == [secret : Secrets, rv : Nat, shown : Values, on : Secrets, value : Values]

\* Version rv of s held v: a later one may hold anything.
Held(s, rv, v) == rv <= stored[s].rv /\ (rv = stored[s].rv => v = stored[s].value)

\* A change is one of the Secret in the document, and knows what it held.
OfDocument(c) == c.on = c.secret /\ Held(c.secret, c.rv, c.shown)

EditTypes ==
  /\ stored \in [Secrets -> Content] /\ request \in Nat /\ waiting \in BOOLEAN
  /\ reads \subseteq Read /\ edit \subseteq Change /\ patches \subseteq Change
  /\ screen \in {"table", "document", "editor", "confirm", "palette"}

EditInv ==
  /\ EditTypes
  /\ IF screen = "table" THEN ~waiting ELSE document \in Secrets
  /\ \A r \in reads :
       /\ r.request <= request /\ (waiting /\ r.request = request => r.secret = document)
       /\ Held(r.secret, r.got.rv, r.got.value)
  /\ \A e \in edit : OfDocument(e)
  /\ \A p \in patches : OfDocument(p)


\* A write forgets no version.
LEMMA Written ==
  ASSUME EditTypes, NEW s \in Secrets, NEW v \in Values, Editing!Write(s, v)
  PROVE  /\ stored' \in [Secrets -> Content]
         /\ \A t \in Secrets, rv \in Nat, val \in Values : Held(t, rv, val) => Held(t, rv, val)'
<1>1. stored \in [Secrets -> Content] /\ stored[s] \in Content /\ stored[s].rv \in Nat
  BY DEF EditTypes, Content
<1> DEFINE new == [rv |-> stored[s].rv + 1, value |-> v]
<1>2. stored' = [stored EXCEPT ![s] = new]
  BY DEF Editing!Write
<1>3. new \in Content /\ new.rv = stored[s].rv + 1
  BY <1>1 DEF Content
<1> HIDE DEF new
<1>4. stored' \in [Secrets -> Content]
  BY <1>1, <1>2, <1>3
<1>5. ASSUME NEW t \in Secrets, NEW rv \in Nat, NEW val \in Values, Held(t, rv, val)
      PROVE  Held(t, rv, val)'
  <2>1. CASE t = s
    <3>1. stored'[t].rv = stored[t].rv + 1 /\ stored[t].rv \in Nat
      BY <1>1, <1>2, <1>3, <2>1
    <3> QED
      BY <1>5, <3>1 DEF Held
  <2>2. CASE t # s
    <3>1. stored'[t] = stored[t]
      BY <1>1, <1>2, <2>2
    <3> QED
      BY <1>5, <3>1 DEF Held
  <2> QED
    BY <2>1, <2>2
<1> QED
  BY <1>4, <1>5

\* What was read, edited or sent stays true of the Secret when it is written.
LEMMA WriteStep ==
  ASSUME EditInv, NEW s \in Secrets, NEW v \in Values, Editing!Write(s, v),
         UNCHANGED <<screen, document, request, waiting, reads, edit>>, patches' \subseteq patches
  PROVE  EditInv'
<1>1. EditTypes
  BY DEF EditInv
<1>2. /\ stored' \in [Secrets -> Content]
      /\ \A t \in Secrets, rv \in Nat, val \in Values : Held(t, rv, val) => Held(t, rv, val)'
  BY <1>1, Written
<1>3. EditTypes'
  BY <1>1, <1>2 DEF EditTypes
<1>4. ASSUME NEW r \in reads PROVE Held(r.secret, r.got.rv, r.got.value)'
  <2>1. r.secret \in Secrets /\ r.got.rv \in Nat /\ r.got.value \in Values
    BY <1>1 DEF EditTypes, Read, Content
  <2>2. Held(r.secret, r.got.rv, r.got.value)
    BY DEF EditInv
  <2> QED
    BY <1>2, <2>1, <2>2
<1>5. ASSUME NEW c \in Change, OfDocument(c) PROVE OfDocument(c)'
  <2>1. c.secret \in Secrets /\ c.rv \in Nat /\ c.shown \in Values
    BY DEF Change
  <2> QED
    BY <1>2, <1>5, <2>1 DEF OfDocument
<1>6. edit \subseteq Change /\ patches \subseteq Change
  BY <1>1 DEF EditTypes
<1> QED
  BY <1>3, <1>4, <1>5, <1>6 DEF EditInv

\* What a read brings is what the Secret is, and it is opened as the document it was for.
LEMMA ReadStep ==
  ASSUME EditInv, NEW r \in reads, Editing!ReadAnswers(r) \/ Editing!ReadLands(r)
  PROVE  EditInv'
<1>1. /\ EditTypes /\ r \in Read /\ r.secret \in Secrets /\ r.got \in Content
      /\ r.request \in Nat /\ stored[r.secret] \in Content
      /\ stored[r.secret].rv \in Nat /\ r.got.rv \in Nat /\ r.got.value \in Values
  BY DEF EditInv, EditTypes, Read, Content
<1>2. CASE Editing!ReadAnswers(r)
  <2> DEFINE a == [r EXCEPT !.sent = TRUE, !.got = stored[r.secret]]
  <2>1. /\ reads' = (reads \ {r}) \cup {a}
        /\ UNCHANGED <<stored, screen, document, request, waiting, edit, patches>>
    BY <1>2 DEF Editing!ReadAnswers, Editing!user
  <2>2. /\ a \in Read /\ a.secret = r.secret /\ a.request = r.request
        /\ a.got = stored[r.secret]
    BY <1>1 DEF Read
  <2> HIDE DEF a
  <2>3. EditTypes'
    BY <1>1, <2>1, <2>2 DEF EditTypes
  <2>4. Held(a.secret, a.got.rv, a.got.value)
    BY <1>1, <2>2 DEF Held
  <2> QED
    BY <2>1, <2>2, <2>3, <2>4 DEF EditInv, Held, OfDocument
<1>3. CASE Editing!ReadLands(r)
  <2> DEFINE e == [secret |-> r.secret, rv |-> r.got.rv, shown |-> r.got.value,
                   on |-> document, value |-> r.got.value]
  <2>1. /\ reads' = reads \ {r} /\ UNCHANGED <<stored, document, request, patches>>
        /\ \/ UNCHANGED <<screen, edit>> /\ waiting' \in {waiting, FALSE}
           \/ /\ Editing!Awaited(r) /\ waiting' = FALSE
              /\ screen = "document" /\ screen' = "editor" /\ edit' = {e}
    BY <1>3 DEF Editing!ReadLands
  <2>2. CASE UNCHANGED <<screen, edit>> /\ waiting' \in {waiting, FALSE}
    <3>0. waiting' \in BOOLEAN /\ (waiting' => waiting)
      <4>1. waiting \in BOOLEAN
        BY <1>1 DEF EditTypes
      <4>2. waiting' = waiting \/ waiting' = FALSE
        BY <2>2
      <4>3. CASE waiting' = waiting
        BY Zenon, <4>1, <4>3
      <4>4. CASE waiting' = FALSE
        BY Zenon, <4>4
      <4> QED
        BY ONLY <4>2, <4>3, <4>4
    <3>1. EditTypes'
      BY <1>1, <2>1, <2>2, <3>0 DEF EditTypes
    <3> QED
      BY <2>1, <2>2, <3>0, <3>1 DEF EditInv, Held, OfDocument
  <2>3. CASE /\ Editing!Awaited(r) /\ waiting' = FALSE
             /\ screen = "document" /\ screen' = "editor" /\ edit' = {e}
    <3>1. r.secret = document /\ Held(r.secret, r.got.rv, r.got.value)
      BY <2>3 DEF EditInv, Editing!Awaited
    <3>2. e \in Change /\ OfDocument(e)
      BY <1>1, <3>1 DEF Change, OfDocument
    <3> HIDE DEF e
    <3>3. EditTypes'
      BY <1>1, <2>1, <2>3, <3>2 DEF EditTypes
    <3> QED
      BY <1>1, <2>1, <2>3, <3>1, <3>2, <3>3 DEF EditInv, Held, OfDocument
  <2> QED
    BY <2>1, <2>2, <2>3
<1> QED
  BY <1>2, <1>3

\* Pressing e reads the Secret in the document, with a number of its own.
LEMMA PressStep == ASSUME EditInv, Editing!PressE PROVE EditInv'
<1> DEFINE r == [secret |-> document, request |-> request', sent |-> FALSE,
                 got |-> stored[document]]
<1>1. /\ screen = "document" /\ request' = request + 1 /\ waiting' = TRUE
      /\ reads' = reads \cup {r} /\ UNCHANGED <<stored, screen, document, edit, patches>>
  BY DEF Editing!PressE
<1>2. /\ EditTypes /\ request \in Nat /\ document \in Secrets
      /\ stored[document] \in Content /\ stored[document].rv \in Nat
  BY <1>1 DEF EditInv, EditTypes, Content
<1>3. /\ r \in Read /\ r.secret = document /\ r.request = request'
      /\ r.got = stored[document]
  BY <1>1, <1>2 DEF Read
<1> HIDE DEF r
<1>4. EditTypes'
  BY <1>1, <1>2, <1>3 DEF EditTypes
<1>5. ASSUME NEW q \in reads'
      PROVE  /\ q.request <= request' /\ (q.request = request' => q.secret = document')
             /\ Held(q.secret, q.got.rv, q.got.value)'
  <2>1. CASE q = r
    BY <1>1, <1>2, <1>3, <2>1 DEF Held
  <2>2. CASE q \in reads
    <3>1. q.request <= request /\ q.request \in Nat /\ Held(q.secret, q.got.rv, q.got.value)
      BY <1>2, <2>2 DEF EditInv, EditTypes, Read
    <3> QED
      BY <1>1, <1>2, <3>1 DEF Held
  <2> QED
    BY <1>1, <2>1, <2>2
<1> QED
  BY <1>1, <1>2, <1>4, <1>5 DEF EditInv, Held, OfDocument

\* The steps of the editor and the dialog: a change keeps what it was shown.
LEMMA EditorStep ==
  ASSUME EditInv,
         \/ Editing!EditNothing \/ (\E v \in Values : Editing!EditSaves(v))
         \/ Editing!Accept \/ Editing!Cancel
         \/ Editing!OpenPalette \/ Editing!LeavePalette
  PROVE  EditInv'
<1>1. /\ EditTypes /\ edit \subseteq Change
      /\ IF screen = "table" THEN ~waiting ELSE document \in Secrets
  BY DEF EditInv, EditTypes
<1>2. ASSUME NEW e \in edit
      PROVE  /\ Editing!Patch(e) \in Change /\ OfDocument(Editing!Patch(e))
             /\ \A v \in Values : [e EXCEPT !.value = v] \in Change
                                  /\ OfDocument([e EXCEPT !.value = v])
  <2>1. e \in Change /\ OfDocument(e)
    BY <1>1 DEF EditInv
  <2>2. /\ Editing!Patch(e) \in Change
        /\ Editing!Patch(e).on = e.on /\ Editing!Patch(e).secret = e.secret
        /\ Editing!Patch(e).rv = e.rv /\ Editing!Patch(e).shown = e.shown
    BY <2>1 DEF Editing!Patch, Change
  <2>3. ASSUME NEW v \in Values
        PROVE  LET c == [e EXCEPT !.value = v]
               IN  /\ c \in Change /\ c.on = e.on /\ c.secret = e.secret
                   /\ c.rv = e.rv /\ c.shown = e.shown
    BY <2>1 DEF Change
  <2> QED
    BY <2>1, <2>2, <2>3 DEF OfDocument
<1>3. /\ UNCHANGED <<stored, document, request, waiting, reads>>
      /\ screen # "table" /\ screen' \in {"document", "confirm", "palette"}
      /\ \A c \in edit' : c \in edit \/ \E e \in edit, v \in Values : c = [e EXCEPT !.value = v]
      /\ \A c \in patches' : c \in patches \/ \E e \in edit : c = Editing!Patch(e)
  BY DEF Editing!EditNothing, Editing!EditSaves, Editing!Accept, Editing!Cancel,
         Editing!OpenPalette, Editing!LeavePalette
<1>4. \A c \in edit' \cup patches' : c \in Change /\ OfDocument(c)
  <2>1. \A c \in edit \cup patches : c \in Change /\ OfDocument(c)
    BY <1>1 DEF EditInv, EditTypes
  <2> QED
    BY <1>2, <1>3, <2>1
<1>5. EditTypes'
  BY <1>1, <1>3, <1>4 DEF EditTypes
<1> QED
  BY <1>1, <1>3, <1>4, <1>5 DEF EditInv, Held, OfDocument

\* Leaving the document, or showing one, waits for no read.
LEMMA DocumentStep ==
  ASSUME EditInv, Editing!Leave \/ Editing!Command \/ \E s \in Secrets : Editing!Show(s)
  PROVE  EditInv'
<1>1. /\ UNCHANGED <<stored, request, patches>> /\ reads' \subseteq reads /\ edit' \subseteq edit
      /\ waiting' = FALSE
      /\ \/ screen' = "table"
         \/ screen' = "document" /\ document' \in Secrets
  BY DEF EditInv, EditTypes, Editing!Leave, Editing!Command, Editing!Show
<1>2. EditTypes'
  BY <1>1 DEF EditInv, EditTypes
<1> QED
  BY <1>1, <1>2 DEF EditInv, Held, OfDocument

\* Every step of an edit, and of everybody else, keeps what is known of the Secrets.
LEMMA EditStep == ASSUME EditInv, [Editing!Next]_secrets PROVE EditInv'
<1>1. CASE UNCHANGED secrets
  <2>1. UNCHANGED <<stored, screen, document, request, waiting, reads, edit, patches>>
    BY <1>1 DEF secrets
  <2> QED
    BY <2>1 DEF EditInv, EditTypes, Held, OfDocument
<1>2. ASSUME NEW s \in Secrets, NEW v \in Values, Editing!OthersWrite(s, v) PROVE EditInv'
  BY <1>2, WriteStep DEF Editing!OthersWrite, Editing!user
<1>3. ASSUME NEW p \in patches, Editing!Server(p) PROVE EditInv'
  <2>1. /\ patches' = patches \ {p} /\ UNCHANGED <<screen, document, request, waiting, reads, edit>>
        /\ Editing!Write(p.secret, p.value) \/ UNCHANGED stored
    BY <1>3 DEF Editing!Server, Editing!user
  <2>2. p.secret \in Secrets /\ p.value \in Values
    BY DEF EditInv, EditTypes, Change
  <2>3. CASE Editing!Write(p.secret, p.value)
    BY <2>1, <2>2, <2>3, WriteStep
  <2>4. CASE UNCHANGED stored
    BY <2>1, <2>4 DEF EditInv, EditTypes, Held, OfDocument
  <2> QED
    BY <2>1, <2>3, <2>4
<1> QED
  BY <1>1, <1>2, <1>3, ReadStep, PressStep, EditorStep, DocumentStep DEF Editing!Next

\* Nothing is read yet.
LEMMA EditInit == ASSUME Editing!Init PROVE EditInv
<1>1. /\ stored \in [Secrets -> [rv : {0}, value : Values]] /\ [rv : {0}, value : Values] \subseteq Content
      /\ screen = "table" /\ request = 0 /\ waiting = FALSE
      /\ reads = {} /\ edit = {} /\ patches = {}
  BY DEF Editing!Init, Content
<1>2. stored \in [Secrets -> Content]
  BY <1>1
<1> QED
  BY <1>1, <1>2 DEF EditInv, EditTypes

\* A patch that the server takes is pinned to what the editor showed.
LEMMA EditSees ==
  ASSUME EditInv, [Editing!Next]_secrets
  PROVE  Editing!SeesWhatItOverwrites
<1> SUFFICES ASSUME NEW p \in patches, p \notin patches', stored' # stored
             PROVE  p.secret = p.on /\ p.shown = stored[p.secret].value
  BY DEF Editing!SeesWhatItOverwrites
<1>1. Editing!Server(p)
  <2>1. \E q \in patches : Editing!Server(q)
    BY DEF Editing!Next, Editing!OthersWrite, Editing!ReadAnswers, Editing!ReadLands,
           Editing!Show, Editing!Leave, Editing!PressE, Editing!EditNothing,
           Editing!EditSaves, Editing!Accept, Editing!Cancel, Editing!OpenPalette,
           Editing!LeavePalette, Editing!Command, secrets
  <2> QED
    BY <2>1 DEF Editing!Server
<1>2. p \in Change /\ OfDocument(p) /\ p.rv # Unpinned
  BY PartsAssumption DEF EditInv, EditTypes, Change, Editing!SecretEditAssumption
<1>3. p.rv = stored[p.secret].rv
  BY <1>1, <1>2 DEF Editing!Server
<1> QED
  BY <1>2, <1>3 DEF OfDocument, Held

\* When a patch changes a Secret, it is the one whose document was on screen, and it holds
\* what the editor showed: request_document_edit, finish_secret_edit, apply_secret_edit.
THEOREM OverwritesSeen == PartsSpec => NothingUnseenOverwritten
<1> DEFINE EI == part = "editing" => EditInv
<1>1. PartsInit => EI
  BY EditInit DEF PartsInit
<1>2. EI /\ [PartsNext]_parts => EI'
  <2> SUFFICES ASSUME EI, [PartsNext]_parts, part' = "editing" PROVE EditInv'
    OBVIOUS
  <2>1. part = "editing" /\ [Editing!Next]_secrets
    BY DEF PartsNext, OfBar, OfView, OfPlaintext, OfEditing, parts
  <2> QED
    BY <2>1, EditStep
<1>3. EI /\ [PartsNext]_parts => [part = "editing" => Editing!SeesWhatItOverwrites]_parts
  <2> SUFFICES ASSUME EI, [PartsNext]_parts, part = "editing" PROVE Editing!SeesWhatItOverwrites
    OBVIOUS
  <2>1. [Editing!Next]_secrets
    BY DEF PartsNext, OfBar, OfView, OfPlaintext, OfEditing, parts
  <2> QED
    BY <2>1, EditSees
<1> QED
  BY <1>1, <1>2, <1>3, PTL DEF PartsSpec, NothingUnseenOverwritten

-----------------------------------------------------------------------------
(* The plaintext on the disk (SecretFiles).                                *)

Dirs == Plaintext!Dirs
Lock == Plaintext!Lock
Secret == Plaintext!Secret
Making == {"made", "opened", "locked"}
Open == {"named", "editor", "closed"}
Sweeper == [step : {"lists", "has", "removes"}, todo : SUBSET Dirs, dir : Dirs \cup {0},
            owes : SUBSET Dirs]

FileTypes ==
  /\ entries \in [Dirs -> SUBSET {Lock, Plaintext!Staging, Secret}]
  /\ there \subseteq Dirs /\ aged \subseteq there /\ made \in 0 .. MaxDirs
  /\ by \in [Dirs -> Procs \cup {Nobody}] /\ holder \in [Dirs -> Procs \cup {Nobody}]
  /\ at \in [Procs -> Making \cup Open \cup {"off", "idle", "removes"}]
  /\ mine \in [Procs -> Dirs \cup {0}] /\ sweep \in [Procs -> Sweeper]

NoSweep(d) == \A q \in Procs : sweep[q].dir # d

\* A directory that is not made yet.
Unmade(d) == entries[d] = {} /\ d \notin there /\ by[d] = Nobody /\ NoSweep(d)

\* The directory of an edit, while it is made and while it is used: no sweep is at it.
Kept(p, d) ==
  /\ d \in there /\ NoSweep(d)
  /\ at[p] \in Making => Lock \notin entries[d] /\ Secret \notin entries[d] /\ d \notin aged
  /\ at[p] \in Open => Lock \in entries[d] /\ (Secret \in entries[d] <=> at[p] = "editor")
  /\ at[p] \in {"locked"} \cup Open => holder[d] = p

Idles(p) == at[p] \in {"off", "idle"}
Owned(p) ==
  IF Idles(p) THEN mine[p] = 0
  ELSE /\ mine[p] \in Dirs /\ by[mine[p]] = p
       /\ at[p] # "removes" => Kept(p, mine[p])

\* A sweep can still remove what it owes: it is at it, or will be.
Ahead(p, d) ==
  /\ d \in sweep[p].todo /\ holder[d] = Nobody /\ (Lock \in entries[d] \/ d \in aged)
  /\ NoSweep(d)
Pays(p, d) ==
  /\ by[d] = Nobody /\ d <= made
  /\ Secret \in entries[d] => d \in there /\ (Ahead(p, d) \/ sweep[p].dir = d)

FilesInv ==
  /\ FileTypes
  /\ \A d \in Dirs : d > made => Unmade(d)
  /\ \A p \in Procs : Owned(p)
  /\ \A d \in Dirs : Secret \in entries[d] /\ by[d] # Nobody => mine[by[d]] = d
  /\ \A p \in Procs : sweep[p].step = "lists" <=> sweep[p].dir = 0
  /\ \A p \in Procs : \A d \in sweep[p].owes : Pays(p, d)

\* The names of the files, and the numbers of the directories.
LEMMA Names ==
  /\ Lock # Secret /\ Lock # Plaintext!Staging /\ Secret # Plaintext!Staging
  /\ Nobody \notin Procs /\ MaxDirs \in Nat
  /\ Dirs = 1 .. MaxDirs /\ \A d \in Dirs : d \in Nat /\ d > 0
BY PartsAssumption
   DEF Lock, Secret, Dirs, Plaintext!Lock, Plaintext!Secret, Plaintext!Staging, Plaintext!Dirs,
       Plaintext!SecretFilesAssumption

\* The directory of an edit is that of no other, and a sweep owes nothing there.
LEMMA OwnsAlone ==
  ASSUME FilesInv, NEW p \in Procs, ~Idles(p)
  PROVE  /\ mine[p] \in Dirs /\ by[mine[p]] = p /\ mine[p] <= made
         /\ \A q \in Procs : q # p => mine[q] # mine[p]
         /\ \A q \in Procs : mine[p] \notin sweep[q].owes
<1>1. mine[p] \in Dirs /\ by[mine[p]] = p /\ p # Nobody
  BY Names DEF FilesInv, Owned
<1>2. mine[p] <= made
  <2>1. mine[p] \in Nat /\ made \in Nat /\ ~(mine[p] > made)
    BY <1>1, Names DEF FilesInv, Unmade, FileTypes
  <2> QED
    BY <2>1
<1>3. ASSUME NEW q \in Procs, q # p PROVE mine[q] # mine[p]
  <2>1. mine[q] = 0 \/ by[mine[q]] = q
    BY DEF FilesInv, Owned
  <2> QED
    BY <1>1, <1>3, <2>1, Names
<1>4. \A q \in Procs : mine[p] \notin sweep[q].owes
  BY <1>1 DEF FilesInv, Pays
<1> QED
  BY <1>1, <1>2, <1>3, <1>4

\* Places an event loop goes to, and files put in a directory.
LEMMA Going ==
  ASSUME FileTypes, NEW p \in Procs, NEW to \in Making \cup Open \cup {"off", "idle", "removes"},
         at' = [at EXCEPT ![p] = to]
  PROVE  /\ at' \in [Procs -> Making \cup Open \cup {"off", "idle", "removes"}]
         /\ at'[p] = to /\ \A q \in Procs : q # p => at'[q] = at[q]
BY DEF FileTypes

LEMMA Putting ==
  ASSUME FileTypes, NEW d \in Dirs, NEW put \in SUBSET {Lock, Plaintext!Staging, Secret},
         Plaintext!Put(d, put)
  PROVE  /\ entries' \in [Dirs -> SUBSET {Lock, Plaintext!Staging, Secret}]
         /\ entries'[d] = put /\ aged' \subseteq there /\ aged' \subseteq aged /\ d \notin aged'
         /\ \A e \in Dirs : e # d => entries'[e] = entries[e] /\ (e \in aged' <=> e \in aged)
BY DEF FileTypes, Plaintext!Put

\* A step of an edit in its own directory: it leaves it as it is to be kept, or it is
\* no longer kept.
LEMMA OwnStep ==
  ASSUME FilesInv, NEW p \in Procs, ~Idles(p), ~Idles(p)', FileTypes',
         UNCHANGED <<there, by, made, mine, sweep>>,
         \A q \in Procs : q # p => at'[q] = at[q],
         \A d \in Dirs : d # mine[p] =>
           entries'[d] = entries[d] /\ holder'[d] = holder[d] /\ (d \in aged' <=> d \in aged),
         at'[p] # "removes" => Kept(p, mine[p])'
  PROVE  FilesInv'
<1> DEFINE m == mine[p]
<1>1. /\ m \in Dirs /\ by[m] = p /\ m <= made /\ p # Nobody
      /\ \A q \in Procs : q # p => mine[q] # m
      /\ \A q \in Procs : m \notin sweep[q].owes
      /\ FileTypes
  BY OwnsAlone, Names DEF FilesInv
<1>2. m' = m
  OBVIOUS
<1>4. ASSUME NEW d \in Dirs, d > made PROVE Unmade(d)'
  <2>1. d # m
    <3>1. d \in Nat /\ m \in Nat /\ made \in Nat /\ m <= made
      BY <1>1, Names DEF FileTypes
    <3> HIDE DEF m
    <3> QED
      BY <1>4, <3>1
  <2> QED
    BY <1>4, <2>1 DEF FilesInv, Unmade, NoSweep
<1>5. ASSUME NEW q \in Procs PROVE Owned(q)'
  <2>1. CASE q = p
    BY <1>1, <2>1 DEF Owned, Idles
  <2>2. CASE q # p
    <3>1. Owned(q) /\ mine[q] # m /\ at'[q] = at[q] /\ mine' = mine /\ by' = by
      BY <1>1, <2>2 DEF FilesInv
    <3>2. mine[q] \in Dirs /\ Kept(q, mine[q]) => Kept(q, mine[q])'
      BY <3>1 DEF Kept, NoSweep
    <3> QED
      BY <3>1, <3>2 DEF Owned, Idles
  <2> QED
    BY <2>1, <2>2
<1>6. ASSUME NEW d \in Dirs, Secret \in entries'[d], by'[d] # Nobody PROVE mine'[by'[d]] = d
  <2>1. CASE d = m
    BY <1>1, <2>1
  <2>2. CASE d # m
    BY <1>6, <2>2 DEF FilesInv
  <2> QED
    BY <2>1, <2>2
<1>7. ASSUME NEW q \in Procs, NEW d \in sweep[q].owes PROVE Pays(q, d)'
  <2>1. d \in Dirs /\ d # m /\ Pays(q, d)
    BY <1>1 DEF FileTypes, Sweeper, FilesInv
  <2> QED
    BY <2>1 DEF Pays, Ahead, NoSweep
<1> QED
  BY <1>4, <1>5, <1>6, <1>7, Names DEF FilesInv, Lock, Secret

\* private_file and finish_secret_edit, one system call after the other.
LEMMA EditsStep ==
  ASSUME FilesInv, NEW p \in Procs,
         \/ Plaintext!OpenStaging(p) \/ Plaintext!TakeLock(p) \/ Plaintext!RenameLock(p)
         \/ Plaintext!WriteSecret(p) \/ Plaintext!CreateFails(p) \/ Plaintext!EditorCloses(p)
         \/ Plaintext!EditorFails(p) \/ Plaintext!EditEnds(p) \/ Plaintext!RemoveFile(p)
  PROVE  FilesInv'
<1> DEFINE m == mine[p]
           Files == {Lock, Plaintext!Staging, Secret}
<1>0. ~Idles(p) /\ UNCHANGED <<there, by, made, mine, sweep>>
  BY DEF Idles, Plaintext!OpenStaging, Plaintext!TakeLock, Plaintext!RenameLock,
         Plaintext!WriteSecret, Plaintext!CreateFails, Plaintext!EditorCloses,
         Plaintext!EditorFails, Plaintext!EditEnds, Plaintext!RemoveFile, Plaintext!Goes,
         Plaintext!Put, Plaintext!Release, Plaintext!RemovesFrom, Plaintext!disk
<1>1. /\ m \in Dirs /\ FileTypes /\ (at[p] # "removes" => Kept(p, m))
      /\ entries[m] \subseteq Files /\ p # Nobody /\ m' = m
  BY <1>0, OwnsAlone, Names DEF FilesInv, Owned, FileTypes
<1> HIDE DEF m
<1>2. ASSUME NEW put \in SUBSET Files, Plaintext!Put(m, put), UNCHANGED holder,
             NEW to \in {"opened", "named", "editor", "closed", "removes"},
             at' = [at EXCEPT ![p] = to],
             to = "opened" => at[p] = "made" /\ Lock \notin put /\ Secret \notin put,
             to \in Open => /\ at[p] \in {"locked"} \cup Open /\ Lock \in put
                            /\ (Secret \in put <=> to = "editor")
      PROVE  FilesInv'
  <2>1. /\ at' \in [Procs -> Making \cup Open \cup {"off", "idle", "removes"}]
        /\ at'[p] = to /\ \A q \in Procs : q # p => at'[q] = at[q]
    BY <1>1, <1>2, Going DEF Making, Open
  <2>2. /\ entries' \in [Dirs -> SUBSET Files]
        /\ entries'[m] = put /\ aged' \subseteq there /\ m \notin aged'
        /\ \A e \in Dirs : e # m => entries'[e] = entries[e] /\ (e \in aged' <=> e \in aged)
    BY <1>1, <1>2, Putting
  <2>3. FileTypes'
    BY <1>0, <1>1, <1>2, <2>1, <2>2 DEF FileTypes
  <2>4. to # "removes" => at[p] # "removes"
    BY <1>2 DEF Making, Open
  <2>5. to # "removes" => Kept(p, m)'
    <3> SUFFICES ASSUME to # "removes" PROVE Kept(p, m)'
      OBVIOUS
    <3>1. Kept(p, m) /\ (to = "opened" \/ to \in Open)
      BY <1>1, <2>4 DEF Open
    <3>2. m \in there' /\ NoSweep(m)'
      BY <1>0, <1>1, <3>1 DEF Kept, NoSweep
    <3>3. CASE to = "opened"
      <4>1. at'[p] = "opened" /\ Lock \notin entries'[m] /\ Secret \notin entries'[m] /\ m \notin aged'
        BY <1>2, <2>1, <2>2, <3>3
      <4> QED
        BY <1>1, <3>2, <4>1 DEF Kept, Open
    <3>4. CASE to \in Open
      <4>1. /\ at'[p] = to /\ Lock \in entries'[m] /\ (Secret \in entries'[m] <=> to = "editor")
            /\ holder'[m] = p
        BY <1>2, <2>1, <2>2, <3>1, <3>4 DEF Kept
      <4>2. to \notin Making
        BY <3>4 DEF Open, Making
      <4> QED
        BY <1>1, <3>2, <4>1, <4>2 DEF Kept
    <3> QED
      BY <3>1, <3>3, <3>4
  <2>6. ~Idles(p)'
    BY <1>2, <2>1 DEF Idles
  <2> QED
    BY <1>0, <1>2, <2>1, <2>2, <2>3, <2>5, <2>6, OwnStep DEF m
<1>3. ASSUME NEW k \in Procs \cup {Nobody}, holder' = [holder EXCEPT ![m] = k],
             UNCHANGED <<entries, aged>>, NEW to \in {"locked", "removes"},
             at' = [at EXCEPT ![p] = to],
             to = "locked" => at[p] = "opened" /\ k = p
      PROVE  FilesInv'
  <2>1. /\ at' \in [Procs -> Making \cup Open \cup {"off", "idle", "removes"}]
        /\ at'[p] = to /\ \A q \in Procs : q # p => at'[q] = at[q]
    BY <1>1, <1>3, Going DEF Making, Open
  <2>2. /\ holder' \in [Dirs -> Procs \cup {Nobody}] /\ holder'[m] = k
        /\ \A e \in Dirs : e # m => holder'[e] = holder[e]
    BY <1>1, <1>3 DEF FileTypes
  <2>3. FileTypes'
    BY <1>0, <1>1, <1>3, <2>1, <2>2 DEF FileTypes
  <2>4. to # "removes" => Kept(p, m)'
    <3> SUFFICES ASSUME to # "removes" PROVE Kept(p, m)'
      OBVIOUS
    <3>1. Kept(p, m) /\ at[p] = "opened" /\ at'[p] = "locked" /\ holder'[m] = p
      BY <1>1, <1>3, <2>1, <2>2
    <3>2. /\ m \in there' /\ NoSweep(m)' /\ Lock \notin entries'[m] /\ Secret \notin entries'[m]
          /\ m \notin aged'
      BY <1>0, <1>1, <1>3, <3>1 DEF Kept, NoSweep, Making
    <3> QED
      BY <1>1, <3>1, <3>2 DEF Kept, Open
  <2>5. ~Idles(p)'
    BY <1>3, <2>1 DEF Idles
  <2> QED
    BY <1>0, <1>3, <2>1, <2>2, <2>3, <2>4, <2>5, OwnStep DEF m
<1>4. CASE Plaintext!OpenStaging(p)
  <2>1. /\ at[p] = "made" /\ at' = [at EXCEPT ![p] = "opened"]
        /\ Plaintext!Put(m, {Plaintext!Staging}) /\ UNCHANGED holder
    BY <1>4 DEF Plaintext!OpenStaging, Plaintext!Goes, m
  <2> QED
    BY <1>2, <2>1, Names DEF Open
<1>5. CASE Plaintext!TakeLock(p)
  BY <1>3, <1>5 DEF Plaintext!TakeLock, Plaintext!Goes, Plaintext!disk, m
<1>6. CASE Plaintext!RenameLock(p)
  <2>1. /\ at[p] = "locked" /\ at' = [at EXCEPT ![p] = "named"]
        /\ Plaintext!Put(m, {Lock}) /\ UNCHANGED holder
    BY <1>6 DEF Plaintext!RenameLock, Plaintext!Goes, m, Lock
  <2> QED
    BY <1>2, <2>1, Names
<1>7. CASE Plaintext!WriteSecret(p)
  <2>1. /\ at[p] \in {"named", "closed"} /\ at' = [at EXCEPT ![p] = "editor"]
        /\ Plaintext!Put(m, entries[m] \cup {Secret}) /\ UNCHANGED holder
    BY <1>7 DEF Plaintext!WriteSecret, m, Secret
  <2>2. Lock \in entries[m]
    BY <1>1, <2>1 DEF Kept, Open
  <2> QED
    BY <1>1, <1>2, <2>1, <2>2 DEF Open
<1>8. CASE Plaintext!EditorCloses(p)
  <2>1. /\ at[p] = "editor" /\ at' = [at EXCEPT ![p] = "closed"]
        /\ Plaintext!Put(m, entries[m] \ {Secret}) /\ UNCHANGED holder
    BY <1>8 DEF Plaintext!EditorCloses, Plaintext!Goes, m, Secret
  <2>2. Lock \in entries[m]
    BY <1>1, <2>1 DEF Kept, Open
  <2> QED
    BY <1>1, <1>2, <2>1, <2>2, Names DEF Open
<1>9. CASE Plaintext!CreateFails(p) \/ Plaintext!EditorFails(p) \/ Plaintext!EditEnds(p)
  <2>1. Plaintext!Release(p)
    BY <1>9 DEF Plaintext!CreateFails, Plaintext!EditorFails, Plaintext!EditEnds
  <2> DEFINE k == IF holder[m] = p THEN Nobody ELSE holder[m]
  <2>2. k \in Procs \cup {Nobody} /\ holder' = [holder EXCEPT ![m] = k]
    BY <1>1, <2>1 DEF Plaintext!Release, FileTypes, m, Dirs
  <2>3. at' = [at EXCEPT ![p] = "removes"] /\ UNCHANGED <<entries, aged>>
    BY <2>1 DEF Plaintext!Release, Plaintext!disk
  <2> HIDE DEF k
  <2> QED
    BY <1>3, <2>2, <2>3
<1>10. CASE Plaintext!RemoveFile(p)
  <2>1. PICK f \in entries[m] : Plaintext!Put(m, entries[m] \ {f})
    BY <1>10 DEF Plaintext!RemoveFile, Plaintext!RemovesFrom, m
  <2>2. at[p] = "removes" /\ at' = [at EXCEPT ![p] = "removes"] /\ UNCHANGED holder
    BY <1>1, <1>10 DEF Plaintext!RemoveFile, FileTypes
  <2> QED
    BY <1>1, <1>2, <2>1, <2>2 DEF Open
<1> QED
  BY <1>4, <1>5, <1>6, <1>7, <1>8, <1>9, <1>10

\* What a step of somebody else leaves alone stays owned.
LEMMA StaysOwned ==
  ASSUME FilesInv, NEW q \in Procs, at'[q] = at[q], mine'[q] = mine[q],
         mine[q] \in Dirs => by'[mine[q]] = by[mine[q]],
         mine[q] \in Dirs /\ Kept(q, mine[q]) =>
           /\ mine[q] \in there' /\ NoSweep(mine[q])' /\ entries'[mine[q]] = entries[mine[q]]
           /\ holder[mine[q]] = q => holder'[mine[q]] = q
           /\ at[q] \in Making /\ mine[q] \in aged' => mine[q] \in aged
  PROVE  Owned(q)'
<1>1. Owned(q)
  BY DEF FilesInv
<1>2. NoSweep(mine[q])' => \A r \in Procs : sweep'[r].dir # mine'[q]
  BY DEF NoSweep
<1>3. mine[q] \in Dirs /\ Kept(q, mine[q]) => Kept(q, mine[q])'
  BY <1>2 DEF Kept, NoSweep
<1> QED
  BY <1>1, <1>3 DEF Owned, Idles

\* A sweep that removes a directory touches nothing else.
LEMMA Clears ==
  ASSUME FilesInv, NEW p \in Procs, sweep[p].dir \in Dirs, FileTypes',
         UNCHANGED <<by, holder, made, at, mine>>,
         \A d \in Dirs : d # sweep[p].dir =>
           entries'[d] = entries[d] /\ (d \in there' <=> d \in there) /\ (d \in aged' <=> d \in aged),
         entries'[sweep[p].dir] \subseteq entries[sweep[p].dir], there' \subseteq there,
         \A q \in Procs :
           /\ sweep'[q].todo = sweep[q].todo /\ sweep'[q].owes = sweep[q].owes
           /\ q # p => sweep'[q].dir = sweep[q].dir
           /\ sweep'[q].step = "lists" <=> sweep'[q].dir = 0,
         \/ sweep'[p].dir = sweep[p].dir /\ there' = there
         \/ sweep'[p].dir = 0 /\ entries'[sweep[p].dir] = {}
  PROVE  FilesInv'
<1> DEFINE s == sweep[p].dir
<1>1. /\ FileTypes /\ ~NoSweep(s) /\ \A q \in Procs : sweep[q].owes \subseteq Dirs
      /\ \A d \in Dirs : d # 0
  BY Names DEF FilesInv, FileTypes, Sweeper, NoSweep
<1>2. \A d \in Dirs : NoSweep(d) => NoSweep(d)'
  BY <1>1 DEF NoSweep
<1>3. ASSUME NEW d \in Dirs, d > made PROVE Unmade(d)'
  <2>1. Unmade(d)
    BY <1>3 DEF FilesInv
  <2>2. d # s
    BY <1>1, <2>1 DEF Unmade
  <2> QED
    BY <1>2, <2>1, <2>2 DEF Unmade
<1>4. ASSUME NEW q \in Procs PROVE Owned(q)'
  <2>1. ASSUME mine[q] \in Dirs, Kept(q, mine[q])
        PROVE  /\ mine[q] \in there' /\ NoSweep(mine[q])' /\ entries'[mine[q]] = entries[mine[q]]
               /\ holder'[mine[q]] = holder[mine[q]] /\ (mine[q] \in aged' => mine[q] \in aged)
    <3>1. NoSweep(mine[q]) /\ mine[q] # s /\ mine[q] \in there
      BY <1>1, <2>1 DEF Kept
    <3>2. NoSweep(mine[q])'
      <4> DEFINE d == mine[q]
      <4>1. d \in Dirs /\ NoSweep(d) /\ mine' = mine
        BY <2>1, <3>1
      <4> QED
        BY <1>2, <4>1
    <3> QED
      BY <2>1, <3>1, <3>2
  <2> QED
    BY <2>1, StaysOwned
<1>5. ASSUME NEW d \in Dirs, Secret \in entries'[d], by'[d] # Nobody PROVE mine'[by'[d]] = d
  BY <1>5 DEF FilesInv, Secret
<1>6. ASSUME NEW q \in Procs, NEW d \in sweep[q].owes PROVE Pays(q, d)'
  <2>1. d \in Dirs /\ Pays(q, d)
    BY <1>1 DEF FilesInv
  <2>2. CASE d # s
    <3>1. Ahead(q, d) => Ahead(q, d)'
      BY <1>2, <2>1, <2>2 DEF Ahead, Lock
    <3>2. sweep[q].dir = d => sweep'[q].dir = d
      BY <2>2
    <3> QED
      BY <2>1, <2>2, <3>1, <3>2 DEF Pays, Secret
  <2>3. CASE d = s
    <3>1. ~Ahead(q, d)
      BY <1>1, <2>3 DEF Ahead
    <3>2. by'[d] = Nobody /\ d <= made'
      BY <2>1 DEF Pays
    <3>3. ASSUME Secret \in entries'[d] PROVE d \in there' /\ sweep'[q].dir = d
      <4>1. Secret \in entries[d] /\ entries'[d] # {} /\ there' = there
        BY <2>3, <3>3
      <4> QED
        BY <2>1, <2>3, <3>1, <4>1 DEF Pays
    <3> QED
      BY <3>2, <3>3 DEF Pays, Secret
  <2> QED
    BY <2>2, <2>3
<1> QED
  BY <1>3, <1>4, <1>5, <1>6 DEF FilesInv, Secret, Dirs

\* A sweep goes for a directory that nobody keeps.
LEMMA GoesFor ==
  ASSUME FilesInv, NEW p \in Procs, NEW d \in Dirs, NEW step \in {"has", "removes"},
         d \in sweep[p].todo, d \in there,
         \/ Lock \in entries[d] /\ holder[d] = Nobody
         \/ Lock \notin entries[d] /\ d \in aged,
         Plaintext!GoesFor(p, step, d), UNCHANGED <<entries, there, aged>>,
         NEW h \in Procs \cup {Nobody}, holder' = [holder EXCEPT ![d] = h]
  PROVE  FilesInv'
<1>1. /\ FileTypes /\ sweep \in [Procs -> Sweeper] /\ sweep[p] \in Sweeper
      /\ UNCHANGED <<by, made, at, mine>> /\ sweep[p].dir = 0 /\ d # 0
      /\ \A e \in Dirs : e # 0 /\ e \in Nat
  BY Names DEF FilesInv, FileTypes, Plaintext!GoesFor
<1>2. /\ sweep'[p] = [sweep[p] EXCEPT !.step = step, !.todo = sweep[p].todo \ {d}, !.dir = d]
      /\ \A q \in Procs : q # p => sweep'[q] = [sweep[q] EXCEPT !.owes = @ \ {d}]
      /\ sweep' = [q \in Procs |-> sweep'[q]]
  BY DEF Plaintext!GoesFor, Plaintext!Rest
<1>3. /\ sweep'[p] \in Sweeper /\ sweep'[p].step = step /\ sweep'[p].dir = d
      /\ sweep'[p].todo = sweep[p].todo \ {d} /\ sweep'[p].owes = sweep[p].owes
  <2>1. /\ sweep[p].todo \ {d} \in SUBSET Dirs /\ step \in {"lists", "has", "removes"}
        /\ d \in Dirs \cup {0}
    BY <1>1 DEF Sweeper
  <2> QED
    BY <1>1, <1>2, <2>1 DEF Sweeper
<1>4. ASSUME NEW q \in Procs, q # p
      PROVE  /\ sweep'[q] \in Sweeper /\ sweep'[q].step = sweep[q].step
             /\ sweep'[q].dir = sweep[q].dir /\ sweep'[q].todo = sweep[q].todo
             /\ sweep'[q].owes = sweep[q].owes \ {d}
  <2>1. sweep[q] \in Sweeper
    BY <1>1
  <2> QED
    BY <1>2, <1>4, <2>1 DEF Sweeper
<1>5. sweep' \in [Procs -> Sweeper]
  BY <1>2, <1>3, <1>4
<1>6. /\ holder' \in [Dirs -> Procs \cup {Nobody}]
      /\ \A e \in Dirs : e # d => holder'[e] = holder[e]
  BY <1>1 DEF FileTypes
<1>7. FileTypes'
  BY <1>1, <1>5, <1>6 DEF FileTypes
<1>8. \A e \in Dirs : e # d /\ NoSweep(e) => NoSweep(e)'
  BY <1>1, <1>3, <1>4 DEF NoSweep
<1>9. ASSUME NEW e \in Dirs, e > made PROVE Unmade(e)'
  <2>1. Unmade(e) /\ e # d
    BY <1>9 DEF FilesInv, Unmade
  <2> QED
    BY <1>1, <1>8, <2>1 DEF Unmade
<1>10. ASSUME NEW q \in Procs PROVE Owned(q)'
  <2>1. ASSUME mine[q] \in Dirs, Kept(q, mine[q]), ~Idles(q), at[q] # "removes" PROVE mine[q] # d
    <3>1. at[q] \in Making \/ at[q] \in Open
      BY <1>1, <2>1 DEF FileTypes, Idles
    <3>2. q # Nobody
      BY Names
    <3> QED
      BY <2>1, <3>1, <3>2 DEF Kept
  <2>2. Owned(q) /\ at' = at /\ mine' = mine /\ by' = by
    BY <1>1 DEF FilesInv
  <2>3. CASE Idles(q) \/ at[q] = "removes"
    BY <2>2, <2>3 DEF Owned, Idles
  <2>4. CASE ~Idles(q) /\ at[q] # "removes"
    <3>1. mine[q] \in Dirs /\ Kept(q, mine[q]) /\ mine[q] # d
      BY <2>1, <2>2, <2>4 DEF Owned
    <3>2. NoSweep(mine[q])'
      <4> DEFINE e == mine[q]
      <4>1. e \in Dirs /\ e # d /\ NoSweep(e) /\ mine' = mine
        BY <2>2, <3>1 DEF Kept
      <4> QED
        BY <1>8, <4>1
    <3> QED
      BY <1>6, <2>2, <3>1, <3>2, StaysOwned DEF Kept
  <2> QED
    BY <2>3, <2>4
<1>11. ASSUME NEW e \in Dirs, Secret \in entries'[e], by'[e] # Nobody PROVE mine'[by'[e]] = e
  BY <1>1, <1>11 DEF FilesInv, Secret
<1>12. ASSUME NEW q \in Procs, NEW e \in sweep'[q].owes PROVE Pays(q, e)'
  <2>1. e \in sweep[q].owes /\ e \in Dirs /\ Pays(q, e) /\ (q # p => e # d)
    BY <1>1, <1>3, <1>4, <1>12 DEF FilesInv, Sweeper
  <2>2. by'[e] = Nobody /\ e <= made'
    BY <1>1, <2>1 DEF Pays
  <2>3. CASE e = d
    BY <1>3, <2>1, <2>2, <2>3 DEF Pays
  <2>4. CASE e # d
    <3>1. Ahead(q, e) => Ahead(q, e)'
      BY <1>3, <1>4, <1>6, <1>8, <2>1, <2>4 DEF Ahead, Lock
    <3>2. sweep[q].dir = e => sweep'[q].dir = e
      BY <1>1, <1>4, <2>1
    <3> QED
      BY <2>1, <2>2, <3>1, <3>2 DEF Pays, Secret
  <2> QED
    BY <2>3, <2>4
<1>13. \A q \in Procs : sweep'[q].step = "lists" <=> sweep'[q].dir = 0
  BY <1>1, <1>3, <1>4 DEF FilesInv
<1> QED
  BY <1>1, <1>7, <1>9, <1>10, <1>11, <1>12, <1>13 DEF FilesInv, Secret, Dirs

\* sweep_abandoned_in.
LEMMA SweepStep == ASSUME FilesInv, NEW p \in Procs, Plaintext!SweepSteps(p) PROVE FilesInv'
<1> DEFINE s == sweep[p]
<1>1. /\ FileTypes /\ sweep \in [Procs -> Sweeper] /\ s \in Sweeper /\ s.todo \subseteq Dirs
      /\ s.dir \in Dirs \cup {0} /\ (s.step = "lists" <=> s.dir = 0)
      /\ \A d \in Dirs : d # 0
  BY Names DEF FilesInv, FileTypes, Sweeper
<1>2. ASSUME NEW step \in {"lists", "has", "removes"}, NEW todo \in SUBSET Dirs,
             NEW dir \in Dirs \cup {0},
             sweep' = [sweep EXCEPT ![p].step = step, ![p].todo = todo, ![p].dir = dir]
      PROVE  /\ sweep' \in [Procs -> Sweeper] /\ sweep'[p].step = step /\ sweep'[p].todo = todo
             /\ sweep'[p].dir = dir /\ sweep'[p].owes = s.owes
             /\ \A q \in Procs : q # p => sweep'[q] = sweep[q]
  <2>1. /\ sweep'[p] = [s EXCEPT !.step = step, !.todo = todo, !.dir = dir]
        /\ \A q \in Procs : q # p => sweep'[q] = sweep[q]
    BY <1>1, <1>2
  <2>2. /\ sweep'[p] \in Sweeper /\ sweep'[p].step = step /\ sweep'[p].todo = todo
        /\ sweep'[p].dir = dir /\ sweep'[p].owes = s.owes
    BY <1>1, <2>1 DEF Sweeper
  <2>3. sweep' = [q \in Procs |-> sweep'[q]]
    BY <1>1, <1>2
  <2> QED
    BY <1>1, <2>1, <2>2, <2>3
<1>3. ASSUME NEW d \in Dirs, Plaintext!SweepSkips(p, d) PROVE FilesInv'
  <2>1. /\ d \in s.todo /\ s.step = "lists" /\ UNCHANGED <<entries, there, aged, holder, by, made, at, mine>>
        /\ \/ d \notin there
           \/ Lock \in entries[d] /\ holder[d] # Nobody
           \/ Lock \notin entries[d] /\ d \notin aged
        /\ sweep' = [sweep EXCEPT ![p].step = "lists", ![p].todo = s.todo \ {d}, ![p].dir = 0]
    BY <1>3 DEF Plaintext!SweepSkips, Plaintext!Sweeps, Plaintext!Rest, Plaintext!Locked,
                Plaintext!disk, Lock
  <2> DEFINE rest == s.todo \ {d}
  <2>2. rest \in SUBSET Dirs /\ s.dir = 0 /\ 0 \in Dirs \cup {0}
    BY <1>1, <2>1
  <2>3. /\ sweep' \in [Procs -> Sweeper] /\ sweep'[p].step = "lists" /\ sweep'[p].todo = s.todo \ {d}
        /\ sweep'[p].dir = 0 /\ sweep'[p].owes = s.owes
        /\ \A q \in Procs : q # p => sweep'[q] = sweep[q]
    <3>1. sweep' = [sweep EXCEPT ![p].step = "lists", ![p].todo = rest, ![p].dir = 0]
      BY <2>1
    <3> HIDE DEF rest
    <3> DEFINE step == "lists"
               dir == 0
    <3>a. step \in {"lists", "has", "removes"} /\ dir \in Dirs \cup {0} /\ rest \in SUBSET Dirs
      BY <2>2
    <3>b. sweep' = [sweep EXCEPT ![p].step = step, ![p].todo = rest, ![p].dir = dir]
      BY <3>1
    <3> HIDE DEF step, dir, s
    <3>c. /\ sweep' \in [Procs -> Sweeper] /\ sweep'[p].step = step /\ sweep'[p].todo = rest
          /\ sweep'[p].dir = dir /\ sweep'[p].owes = s.owes
          /\ \A q \in Procs : q # p => sweep'[q] = sweep[q]
      BY <1>2, <3>a, <3>b, Zenon
    <3>2. /\ sweep' \in [Procs -> Sweeper] /\ sweep'[p].step = "lists" /\ sweep'[p].todo = rest
          /\ sweep'[p].dir = 0 /\ sweep'[p].owes = s.owes
          /\ \A q \in Procs : q # p => sweep'[q] = sweep[q]
      BY <3>c DEF step, dir
    <3> QED
      BY <3>2 DEF rest
  <2>4. FileTypes'
    BY <1>1, <2>1, <2>3 DEF FileTypes
  <2>5. \A e \in Dirs : NoSweep(e)' <=> NoSweep(e)
    BY <2>2, <2>3 DEF NoSweep
  <2>6. ASSUME NEW q \in Procs PROVE Owned(q)'
    <3>1. mine[q] \in Dirs => (NoSweep(mine[q])' <=> NoSweep(mine[q]))
      <4>1. mine' = mine
        BY <2>1
      <4> QED
        BY <2>5, <4>1 DEF NoSweep
    <3> QED
      BY <2>1, <3>1, StaysOwned DEF Kept
  <2>7. ASSUME NEW q \in Procs, NEW e \in sweep'[q].owes PROVE Pays(q, e)'
    <3>1. e \in sweep[q].owes /\ e \in Dirs /\ Pays(q, e)
      BY <1>1, <2>3, <2>7 DEF FilesInv, Sweeper
    <3>2. ~(q = p /\ e = d /\ Secret \in entries[e])
      BY <1>1, <2>1, <2>2, <3>1 DEF Pays, Ahead
    <3>3. Secret \in entries[e] /\ Ahead(q, e) => Ahead(q, e)'
      BY <2>1, <2>3, <2>5, <3>1, <3>2 DEF Ahead, Lock
    <3>4. sweep[q].dir = e => sweep'[q].dir = e
      BY <1>1, <2>2, <2>3, <3>1
    <3> QED
      BY <2>1, <3>1, <3>3, <3>4 DEF Pays, Secret
  <2> QED
    BY <2>1, <2>2, <2>3, <2>4, <2>5, <2>6, <2>7 DEF FilesInv, Unmade, Secret, Dirs
<1>4. ASSUME NEW d \in Dirs, Plaintext!SweepTakesLock(p, d) PROVE FilesInv'
  <2>1. /\ d \in s.todo /\ d \in there /\ Lock \in entries[d] /\ holder[d] = Nobody
        /\ Plaintext!GoesFor(p, "has", d) /\ holder' = [holder EXCEPT ![d] = p]
        /\ UNCHANGED <<entries, there, aged>>
    BY <1>4 DEF Plaintext!SweepTakesLock, Plaintext!Locked, Plaintext!disk, Lock
  <2> QED
    BY <2>1, GoesFor
<1>5. ASSUME NEW d \in Dirs, Plaintext!SweepFindsOld(p, d) PROVE FilesInv'
  <2>1. /\ d \in s.todo /\ d \in there /\ Lock \notin entries[d] /\ d \in aged
        /\ Plaintext!GoesFor(p, "removes", d)
        /\ UNCHANGED <<entries, there, aged, holder>>
    BY <1>5 DEF Plaintext!SweepFindsOld, Plaintext!Locked, Plaintext!disk, Lock
  <2>2. holder[d] \in Procs \cup {Nobody} /\ holder' = [holder EXCEPT ![d] = holder[d]]
    BY <1>1, <2>1 DEF FileTypes
  <2> QED
    BY <2>1, <2>2, GoesFor
<1>6. CASE Plaintext!SweepReleases(p)
  <2>1. /\ s.step = "has" /\ UNCHANGED <<entries, there, aged, by, made, at, mine>>
        /\ sweep' = [sweep EXCEPT ![p].step = "removes", ![p].todo = s.todo, ![p].dir = s.dir]
        /\ holder' = [d \in Dirs |-> IF d = s.dir /\ holder[d] = p THEN Nobody ELSE holder[d]]
    BY <1>6 DEF Plaintext!SweepReleases, Plaintext!Sweeps, Plaintext!disk, Dirs
  <2>2. /\ sweep' \in [Procs -> Sweeper] /\ sweep'[p].step = "removes" /\ sweep'[p].todo = s.todo
        /\ sweep'[p].dir = s.dir /\ sweep'[p].owes = s.owes
        /\ \A q \in Procs : q # p => sweep'[q] = sweep[q]
    BY <1>1, <1>2, <2>1
  <2>3. /\ holder' \in [Dirs -> Procs \cup {Nobody}]
        /\ \A d \in Dirs : /\ d # s.dir => holder'[d] = holder[d]
                           /\ holder[d] = Nobody => holder'[d] = Nobody
    BY <1>1, <2>1 DEF FileTypes
  <2>4. FileTypes'
    BY <1>1, <2>1, <2>2, <2>3 DEF FileTypes
  <2>5. \A e \in Dirs : (NoSweep(e)' <=> NoSweep(e)) /\ (NoSweep(e) => e # s.dir)
    BY <2>2 DEF NoSweep
  <2>6. ASSUME NEW q \in Procs PROVE Owned(q)'
    <3>1. mine[q] \in Dirs /\ NoSweep(mine[q]) =>
            NoSweep(mine[q])' /\ holder'[mine[q]] = holder[mine[q]]
      <4>1. mine' = mine
        BY <2>1
      <4> QED
        BY <2>3, <2>5, <4>1 DEF NoSweep
    <3> QED
      BY <2>1, <3>1, StaysOwned DEF Kept
  <2>7. ASSUME NEW q \in Procs, NEW e \in sweep'[q].owes PROVE Pays(q, e)'
    <3>1. e \in sweep[q].owes /\ e \in Dirs /\ Pays(q, e)
      BY <1>1, <2>2, <2>7 DEF FilesInv, Sweeper
    <3>2. Ahead(q, e) => Ahead(q, e)'
      BY <2>1, <2>2, <2>3, <2>5, <3>1 DEF Ahead, Lock
    <3>3. sweep[q].dir = e => sweep'[q].dir = e
      BY <2>2, <3>1
    <3> QED
      BY <2>1, <3>1, <3>2, <3>3 DEF Pays, Secret
  <2>8. \A q \in Procs : sweep'[q].step = "lists" <=> sweep'[q].dir = 0
    BY <1>1, <2>1, <2>2 DEF FilesInv
  <2> QED
    BY <2>1, <2>4, <2>5, <2>6, <2>7, <2>8 DEF FilesInv, Unmade, Secret, Dirs
<1>7. CASE Plaintext!SweepRemovesFile(p)
  <2>1. s.step = "removes" /\ s.dir \in Dirs /\ UNCHANGED <<there, by, holder, made, at, mine, sweep>>
    BY <1>1, <1>7 DEF Plaintext!SweepRemovesFile, Plaintext!RemovesFrom
  <2>2. PICK f \in entries[s.dir] : Plaintext!Put(s.dir, entries[s.dir] \ {f})
    BY <1>7 DEF Plaintext!SweepRemovesFile, Plaintext!RemovesFrom
  <2>3. entries[s.dir] \ {f} \in SUBSET {Lock, Plaintext!Staging, Secret}
    BY <1>1, <2>1 DEF FileTypes
  <2>4. /\ entries' \in [Dirs -> SUBSET {Lock, Plaintext!Staging, Secret}]
        /\ entries'[s.dir] = entries[s.dir] \ {f} /\ aged' \subseteq there
        /\ \A e \in Dirs : e # s.dir => entries'[e] = entries[e] /\ (e \in aged' <=> e \in aged)
    BY <1>1, <2>1, <2>2, <2>3, Putting
  <2>5. FileTypes'
    BY <1>1, <2>1, <2>4 DEF FileTypes
  <2>6. \A q \in Procs : sweep'[q].step = "lists" <=> sweep'[q].dir = 0
    BY <2>1 DEF FilesInv
  <2> QED
    BY <2>1, <2>4, <2>5, <2>6, Clears
<1>8. CASE Plaintext!SweepRemovesDir(p)
  <2>1. /\ s.step = "removes" /\ s.dir \in Dirs /\ entries[s.dir] = {}
        /\ there' = there \ {s.dir} /\ aged' = aged \ {s.dir}
        /\ UNCHANGED <<entries, by, holder, made, at, mine>>
        /\ sweep' = [sweep EXCEPT ![p].step = "lists", ![p].todo = s.todo, ![p].dir = 0]
    BY <1>1, <1>8 DEF Plaintext!SweepRemovesDir, Plaintext!Sweeps, Plaintext!RemovesEmpty
  <2>2. /\ sweep' \in [Procs -> Sweeper] /\ sweep'[p].step = "lists" /\ sweep'[p].todo = s.todo
        /\ sweep'[p].dir = 0 /\ sweep'[p].owes = s.owes
        /\ \A q \in Procs : q # p => sweep'[q] = sweep[q]
    BY <1>1, <1>2, <2>1
  <2>3. FileTypes'
    BY <1>1, <2>1, <2>2 DEF FileTypes
  <2>4. \A q \in Procs :
          /\ sweep'[q].todo = sweep[q].todo /\ sweep'[q].owes = sweep[q].owes
          /\ q # p => sweep'[q].dir = sweep[q].dir
          /\ sweep'[q].step = "lists" <=> sweep'[q].dir = 0
    BY <2>2 DEF FilesInv
  <2> QED
    BY <2>1, <2>2, <2>3, <2>4, Clears
<1>9. Dirs = Plaintext!Dirs
  BY DEF Dirs
<1> HIDE DEF s
<1> QED
  BY <1>3, <1>4, <1>5, <1>6, <1>7, <1>8, <1>9
     DEF Plaintext!SweepSteps, Plaintext!SweepRemoves

\* A directory is made, or is gone with its edit.
LEMMA DirStep ==
  ASSUME FilesInv, NEW p \in Procs, Plaintext!MakeDir(p) \/ Plaintext!RemoveDir(p)
  PROVE  FilesInv'
<1>1. FileTypes /\ mine \in [Procs -> Dirs \cup {0}] /\ \A d \in Dirs : d \in Nat /\ d > 0
  BY Names DEF FilesInv, FileTypes
<1>2. CASE Plaintext!MakeDir(p)
  <2> DEFINE n == made + 1
  <2>1. /\ at[p] = "idle" /\ at' = [at EXCEPT ![p] = "made"] /\ made < MaxDirs /\ made' = n
        /\ there' = there \cup {n} /\ mine' = [mine EXCEPT ![p] = n]
        /\ by' = [by EXCEPT ![n] = p] /\ UNCHANGED <<entries, aged, holder, sweep>>
    BY <1>2 DEF Plaintext!MakeDir, Plaintext!Goes
  <2>2. n \in Dirs /\ n \in 0 .. MaxDirs /\ n > made /\ made \in Nat
    BY <1>1, <2>1, Names DEF FileTypes
  <2> HIDE DEF n
  <2>3. Unmade(n) /\ mine[p] = 0 /\ p # Nobody /\ n \notin aged
    BY <1>1, <2>1, <2>2, Names DEF FilesInv, Owned, Idles, Unmade, FileTypes
  <2>4. /\ at' \in [Procs -> Making \cup Open \cup {"off", "idle", "removes"}]
        /\ at'[p] = "made" /\ \A q \in Procs : q # p => at'[q] = at[q]
    BY <1>1, <2>1, Going DEF Making
  <2>5. /\ mine' \in [Procs -> Dirs \cup {0}] /\ by' \in [Dirs -> Procs \cup {Nobody}]
        /\ mine'[p] = n /\ (\A q \in Procs : q # p => mine'[q] = mine[q])
        /\ by'[n] = p /\ (\A d \in Dirs : d # n => by'[d] = by[d])
    BY <1>1, <2>1, <2>2 DEF FileTypes
  <2>6. FileTypes'
    BY <1>1, <2>1, <2>2, <2>4, <2>5 DEF FileTypes
  <2>7. ASSUME NEW d \in Dirs, d > made' PROVE Unmade(d)'
    <3>1. d # n /\ d > made
      BY <1>1, <2>1, <2>2, <2>7
    <3> QED
      BY <2>1, <2>5, <3>1 DEF FilesInv, Unmade, NoSweep
  <2>8. ASSUME NEW q \in Procs PROVE Owned(q)'
    <3>1. CASE q = p
      <4>1. mine'[q] = n /\ at'[q] = "made" /\ by'[n] = p
        BY <2>4, <2>5, <3>1
      <4>2. n \in there' /\ entries'[n] = {} /\ n \notin aged' /\ \A r \in Procs : sweep'[r].dir # n
        BY <2>1, <2>3 DEF Unmade, NoSweep
      <4>3. Kept(q, mine[q])'
        BY <4>1, <4>2 DEF Kept, NoSweep, Open
      <4> QED
        BY <2>2, <3>1, <4>1, <4>3 DEF Owned, Idles
    <3>2. CASE q # p
      <4>1. mine[q] = 0 \/ (mine[q] \in Dirs /\ by[mine[q]] = q)
        BY DEF FilesInv, Owned
      <4>2. mine[q] # n
        BY <1>1, <2>2, <2>3, <4>1, Names DEF Unmade
      <4> QED
        BY <2>1, <2>4, <2>5, <3>2, <4>2, StaysOwned DEF Kept, NoSweep
    <3> QED
      BY <3>1, <3>2
  <2>9. ASSUME NEW d \in Dirs, Secret \in entries'[d], by'[d] # Nobody PROVE mine'[by'[d]] = d
    <3>1. d # n /\ by[d] # Nobody /\ mine[by[d]] = d /\ by'[d] = by[d]
      BY <2>1, <2>3, <2>5, <2>9 DEF FilesInv, Unmade, Secret
    <3>2. by[d] \in Procs /\ by[d] # p
      BY <1>1, <2>3, <3>1 DEF FileTypes
    <3> QED
      BY <2>5, <3>1, <3>2
  <2>10. ASSUME NEW q \in Procs, NEW d \in sweep'[q].owes PROVE Pays(q, d)'
    <3>1. d \in Dirs /\ Pays(q, d) /\ d \in Nat
      BY <1>1, <2>1, <2>10 DEF FilesInv, FileTypes, Sweeper
    <3>2. d # n /\ d <= made'
      BY <2>1, <2>2, <3>1 DEF Pays, n
    <3> QED
      BY <2>1, <2>5, <3>1, <3>2 DEF Pays, Ahead, NoSweep, Lock, Secret
  <2> QED
    BY <2>1, <2>6, <2>7, <2>8, <2>9, <2>10 DEF FilesInv, Dirs, Secret
<1>3. CASE Plaintext!RemoveDir(p)
  <2> DEFINE m == mine[p]
  <2>1. /\ at[p] = "removes" /\ at' = [at EXCEPT ![p] = "idle"] /\ entries[m] = {}
        /\ there' = there \ {m} /\ aged' = aged \ {m} /\ mine' = [mine EXCEPT ![p] = 0]
        /\ UNCHANGED <<entries, by, holder, made, sweep>>
    BY <1>3 DEF Plaintext!RemoveDir, Plaintext!Goes, Plaintext!RemovesEmpty
  <2>2. /\ m \in Dirs /\ by[m] = p /\ m <= made
        /\ \A q \in Procs : q # p => mine[q] # m
        /\ \A q \in Procs : m \notin sweep[q].owes
    BY <2>1, OwnsAlone DEF Idles
  <2> HIDE DEF m
  <2>3. /\ at' \in [Procs -> Making \cup Open \cup {"off", "idle", "removes"}]
        /\ at'[p] = "idle" /\ \A q \in Procs : q # p => at'[q] = at[q]
    BY <1>1, <2>1, Going
  <2>4. /\ mine' \in [Procs -> Dirs \cup {0}] /\ mine'[p] = 0
        /\ \A q \in Procs : q # p => mine'[q] = mine[q]
    BY <1>1, <2>1
  <2>5. FileTypes'
    BY <1>1, <2>1, <2>3, <2>4 DEF FileTypes
  <2>6. ASSUME NEW q \in Procs PROVE Owned(q)'
    <3>1. CASE q = p
      BY <2>3, <2>4, <3>1 DEF Owned, Idles
    <3>2. CASE q # p
      BY <2>1, <2>2, <2>3, <2>4, <3>2, StaysOwned DEF Kept, NoSweep
    <3> QED
      BY <3>1, <3>2
  <2>7. ASSUME NEW d \in Dirs, Secret \in entries'[d], by'[d] # Nobody PROVE mine'[by'[d]] = d
    <3>1. d # m /\ mine[by[d]] = d /\ by'[d] = by[d] /\ by[d] \in Procs
      BY <1>1, <2>1, <2>7 DEF FilesInv, FileTypes, Secret
    <3>2. by[d] # p
      BY <3>1 DEF m
    <3> QED
      BY <2>4, <3>1, <3>2
  <2>8. ASSUME NEW q \in Procs, NEW d \in sweep'[q].owes PROVE Pays(q, d)'
    <3>1. d \in Dirs /\ Pays(q, d) /\ d # m
      BY <1>1, <2>1, <2>2, <2>8 DEF FilesInv, FileTypes, Sweeper
    <3> QED
      BY <2>1, <3>1 DEF Pays, Ahead, NoSweep, Lock, Secret
  <2>9. ASSUME NEW d \in Dirs, d > made' PROVE Unmade(d)'
    BY <2>1, <2>9 DEF FilesInv, Unmade, NoSweep
  <2> QED
    BY <2>1, <2>5, <2>6, <2>7, <2>8, <2>9 DEF FilesInv, Dirs, Secret
<1> QED
  BY <1>2, <1>3

\* A start: its sweep owes what is due.
LEMMA StartStep == ASSUME FilesInv, NEW p \in Procs, Plaintext!Start(p) PROVE FilesInv'
<1>1. /\ FileTypes /\ sweep \in [Procs -> Sweeper] /\ sweep[p] \in Sweeper
      /\ \A d \in Dirs : d \in Nat /\ d > 0
  BY Names DEF FilesInv, FileTypes
<1>2. /\ at[p] = "off" /\ at' = [at EXCEPT ![p] = "idle"]
      /\ sweep' = [sweep EXCEPT ![p].todo = there, ![p].owes = Plaintext!Due]
      /\ UNCHANGED <<entries, there, aged, by, holder, made, mine>>
  BY DEF Plaintext!Start, Plaintext!Goes, Plaintext!disk
<1>3. /\ at' \in [Procs -> Making \cup Open \cup {"off", "idle", "removes"}]
      /\ at'[p] = "idle" /\ \A q \in Procs : q # p => at'[q] = at[q]
  BY <1>1, <1>2, Going
<1>4. there \in SUBSET Dirs /\ Plaintext!Due \in SUBSET Dirs
  BY <1>1 DEF FileTypes, Plaintext!Due
<1>5. /\ sweep'[p] = [sweep[p] EXCEPT !.todo = there, !.owes = Plaintext!Due]
      /\ (\A q \in Procs : q # p => sweep'[q] = sweep[q]) /\ sweep' = [q \in Procs |-> sweep'[q]]
  BY <1>1, <1>2
<1>6. /\ sweep'[p] \in Sweeper /\ sweep'[p].todo = there /\ sweep'[p].owes = Plaintext!Due
      /\ sweep'[p].dir = sweep[p].dir /\ sweep'[p].step = sweep[p].step
  BY <1>1, <1>4, <1>5 DEF Sweeper
<1>7. sweep' \in [Procs -> Sweeper] /\ \A e : NoSweep(e)' <=> NoSweep(e)
  BY <1>1, <1>5, <1>6 DEF NoSweep
<1>8. FileTypes'
  BY <1>1, <1>2, <1>3, <1>7 DEF FileTypes
<1>9. ASSUME NEW q \in Procs PROVE Owned(q)'
  <2>1. CASE q = p
    BY <1>2, <1>3, <2>1 DEF FilesInv, Owned, Idles
  <2>2. CASE q # p
    <3>1. \A r \in Procs : sweep'[r].dir = sweep[r].dir
      BY <1>5, <1>6
    <3> QED
      BY <1>2, <1>3, <2>2, <3>1, StaysOwned DEF Kept, NoSweep
  <2> QED
    BY <2>1, <2>2
<1>10. ASSUME NEW q \in Procs, NEW d \in sweep'[q].owes PROVE Pays(q, d)'
  <2>1. \A r \in Procs : sweep'[r].dir = sweep[r].dir
    BY <1>5, <1>6
  <2>2. CASE q = p
    <3>1. d \in Plaintext!Due
      BY <1>6, <1>10, <2>2
    <3>2. d \in Dirs /\ d \in there /\ by[d] = Nobody /\ holder[d] = Nobody
          /\ (Lock \in entries[d] \/ d \in aged) /\ NoSweep(d)
      BY <1>4, <3>1 DEF Plaintext!Due, Plaintext!Abandoned, Plaintext!Locked, Lock, NoSweep
    <3>3. d <= made
      <4>1. ~(d > made) /\ d \in Nat /\ made \in Nat
        BY <1>1, <3>2, Names DEF FilesInv, Unmade, FileTypes
      <4> QED
        BY <4>1
    <3> QED
      BY <1>2, <1>6, <2>1, <2>2, <3>2, <3>3 DEF Pays, Ahead, NoSweep, Lock, Secret
  <2>3. CASE q # p
    <3>1. Pays(q, d) /\ sweep'[q] = sweep[q]
      BY <1>5, <1>10, <2>3 DEF FilesInv
    <3> QED
      BY <1>2, <2>1, <3>1 DEF Pays, Ahead, NoSweep, Lock, Secret
  <2> QED
    BY <2>2, <2>3
<1>11. ASSUME NEW q \in Procs PROVE sweep'[q].step = "lists" <=> sweep'[q].dir = 0
  <2>1. sweep[q].step = "lists" <=> sweep[q].dir = 0
    BY DEF FilesInv
  <2>2. CASE q = p
    BY <1>6, <2>1, <2>2
  <2>3. CASE q # p
    BY <1>5, <2>1, <2>3
  <2> QED
    BY <2>2, <2>3
<1>12. \A d \in Dirs : d > made' => Unmade(d)'
  BY <1>2, <1>7 DEF FilesInv, Unmade
<1> QED
  BY <1>2, <1>8, <1>9, <1>10, <1>11, <1>12 DEF FilesInv, Dirs, Secret

\* A process ends: what it had is nobody's.
LEMMA EndStep == ASSUME FilesInv, NEW p \in Procs, Plaintext!Ends(p) PROVE FilesInv'
<1>1. /\ FileTypes /\ sweep \in [Procs -> Sweeper] /\ \A d \in Dirs : d \in Nat /\ d > 0
  BY Names DEF FilesInv, FileTypes
<1>2. /\ at' = [at EXCEPT ![p] = "off"] /\ mine' = [mine EXCEPT ![p] = 0]
      /\ sweep' = [sweep EXCEPT ![p] = Plaintext!Rests]
      /\ by' = [d \in Dirs |-> IF by[d] = p THEN Nobody ELSE by[d]]
      /\ holder' = [d \in Dirs |-> IF holder[d] = p THEN Nobody ELSE holder[d]]
      /\ UNCHANGED <<entries, there, aged, made>>
  BY DEF Plaintext!Ends, Plaintext!disk, Dirs
<1>3. /\ at' \in [Procs -> Making \cup Open \cup {"off", "idle", "removes"}]
      /\ at'[p] = "off" /\ \A q \in Procs : q # p => at'[q] = at[q]
  BY <1>1, <1>2, Going
<1>4. /\ mine' \in [Procs -> Dirs \cup {0}] /\ mine'[p] = 0
      /\ \A q \in Procs : q # p => mine'[q] = mine[q]
  BY <1>1, <1>2 DEF FileTypes
<1>5. /\ Plaintext!Rests \in Sweeper /\ Plaintext!Rests.step = "lists"
      /\ Plaintext!Rests.dir = 0 /\ Plaintext!Rests.owes = {}
  BY DEF Plaintext!Rests, Sweeper
<1>6. /\ sweep' \in [Procs -> Sweeper] /\ sweep'[p].step = "lists" /\ sweep'[p].dir = 0
      /\ sweep'[p].owes = {} /\ \A q \in Procs : q # p => sweep'[q] = sweep[q]
  BY <1>1, <1>2, <1>5
<1>7. /\ by' \in [Dirs -> Procs \cup {Nobody}] /\ holder' \in [Dirs -> Procs \cup {Nobody}]
      /\ \A d \in Dirs : /\ by'[d] # Nobody => by'[d] = by[d] /\ by[d] # p
                         /\ by[d] # p => by'[d] = by[d]
                         /\ by[d] = Nobody => by'[d] = Nobody
                         /\ holder[d] = Nobody => holder'[d] = Nobody
                         /\ holder[d] # p => holder'[d] = holder[d]
  BY <1>1, <1>2 DEF FileTypes
<1>8. FileTypes'
  BY <1>1, <1>2, <1>3, <1>4, <1>6, <1>7 DEF FileTypes
<1>9. \A r \in Procs : sweep'[r].dir = sweep[r].dir \/ sweep'[r].dir = 0
  BY <1>6
<1>10. ASSUME NEW d \in Dirs, d > made' PROVE Unmade(d)'
  BY <1>1, <1>2, <1>7, <1>9, <1>10 DEF FilesInv, Unmade, NoSweep
<1>11. ASSUME NEW q \in Procs PROVE Owned(q)'
  <2>1. CASE q = p
    BY <1>3, <1>4, <2>1 DEF Owned, Idles
  <2>2. CASE q # p
    <3>1. mine[q] = 0 \/ (mine[q] \in Dirs /\ by[mine[q]] = q)
      BY DEF FilesInv, Owned
    <3>2. mine[q] \in Dirs => by'[mine[q]] = by[mine[q]]
      BY <1>1, <1>7, <2>2, <3>1
    <3>3. mine[q] \in Dirs => (holder[mine[q]] = q => holder'[mine[q]] = q)
      BY <1>7, <2>2
    <3>4. mine[q] \in Dirs /\ NoSweep(mine[q]) => \A r \in Procs : sweep'[r].dir # mine[q]
      BY <1>1, <1>9 DEF NoSweep
    <3> QED
      BY <1>2, <1>3, <1>4, <2>2, <3>2, <3>3, <3>4, StaysOwned DEF Kept, NoSweep
  <2> QED
    BY <2>1, <2>2
<1>12. ASSUME NEW d \in Dirs, Secret \in entries'[d], by'[d] # Nobody PROVE mine'[by'[d]] = d
  <2>1. by'[d] = by[d] /\ by[d] # p /\ by[d] # Nobody /\ by[d] \in Procs /\ Secret \in entries[d]
    BY <1>1, <1>2, <1>7, <1>12 DEF FileTypes, Secret
  <2> QED
    BY <1>4, <2>1 DEF FilesInv
<1>13. ASSUME NEW q \in Procs, NEW d \in sweep'[q].owes PROVE Pays(q, d)'
  <2>1. q # p /\ sweep'[q] = sweep[q] /\ d \in Dirs /\ Pays(q, d)
    BY <1>1, <1>6, <1>13 DEF FilesInv, Sweeper
  <2>2. Ahead(q, d) => Ahead(q, d)'
    BY <1>1, <1>2, <1>7, <1>9, <2>1 DEF Ahead, NoSweep, Lock
  <2> QED
    BY <1>2, <1>7, <2>1, <2>2 DEF Pays, Secret
<1>14. \A q \in Procs : sweep'[q].step = "lists" <=> sweep'[q].dir = 0
  BY <1>6 DEF FilesInv
<1> QED
  BY <1>8, <1>10, <1>11, <1>12, <1>13, <1>14 DEF FilesInv, Dirs, Secret

\* UNLOCKED_GRACE passes.
LEMMA AgeStep == ASSUME FilesInv, NEW d \in Dirs, Plaintext!Ages(d) PROVE FilesInv'
<1>1. /\ d \in there /\ aged' = aged \cup {d}
      /\ \A q \in Procs : mine[q] = d => at[q] \notin Making
      /\ UNCHANGED <<entries, there, by, holder, made, at, mine, sweep>>
  BY DEF Plaintext!Ages, Making
<1>2. FileTypes'
  BY <1>1 DEF FilesInv, FileTypes
<1>3. \A q \in Procs : Owned(q)'
  BY <1>1, StaysOwned DEF Kept, NoSweep
<1>4. ASSUME NEW q \in Procs, NEW e \in sweep'[q].owes PROVE Pays(q, e)'
  BY <1>1, <1>4 DEF FilesInv, Pays, Ahead, NoSweep, Lock, Secret
<1>5. \A e \in Dirs : e > made' => Unmade(e)'
  BY <1>1 DEF FilesInv, Unmade, NoSweep
<1> QED
  BY <1>1, <1>2, <1>3, <1>4, <1>5 DEF FilesInv, Dirs, Secret

\* Every step of every process.
LEMMA FilesStep == ASSUME FilesInv, [Plaintext!Next]_files PROVE FilesInv'
<1>1. CASE UNCHANGED files
  <2>1. UNCHANGED <<entries, there, aged, by, holder, made, at, mine, sweep>>
    BY <1>1 DEF files
  <2> QED
    BY <2>1 DEF FilesInv, FileTypes, Unmade, NoSweep, Owned, Idles, Kept, Pays, Ahead, Dirs,
                Lock, Secret
<1>2. ASSUME NEW p \in Procs, Plaintext!Edits(p) PROVE FilesInv'
  BY <1>2, EditsStep, DirStep DEF Plaintext!Edits
<1>3. ASSUME NEW p \in Procs, Plaintext!Quit(p) \/ Plaintext!Crash(p) PROVE FilesInv'
  BY <1>3, EndStep DEF Plaintext!Quit, Plaintext!Crash
<1>4. ASSUME NEW d \in Plaintext!Dirs, Plaintext!Ages(d) PROVE FilesInv'
  BY <1>4, AgeStep DEF Dirs
<1> QED
  BY <1>1, <1>2, <1>3, <1>4, SweepStep, StartStep DEF Plaintext!Next

\* At first nothing is on the disk.
LEMMA FilesInit == ASSUME Plaintext!Init PROVE FilesInv
<1>1. /\ entries = [d \in Dirs |-> {}] /\ there = {} /\ aged = {} /\ made = 0
      /\ by = [d \in Dirs |-> Nobody] /\ holder = [d \in Dirs |-> Nobody]
      /\ at = [p \in Procs |-> "off"] /\ mine = [p \in Procs |-> 0]
      /\ sweep = [p \in Procs |-> Plaintext!Rests]
  BY DEF Plaintext!Init, Dirs
<1>2. /\ Plaintext!Rests \in Sweeper /\ Plaintext!Rests.step = "lists"
      /\ Plaintext!Rests.dir = 0 /\ Plaintext!Rests.owes = {}
  BY DEF Plaintext!Rests, Sweeper
<1>3. FileTypes
  <2>1. at \in [Procs -> Making \cup Open \cup {"off", "idle", "removes"}]
    BY <1>1
  <2>2. made \in 0 .. MaxDirs
    BY <1>1, Names
  <2> QED
    BY <1>1, <1>2, <2>1, <2>2 DEF FileTypes
<1>4. \A d \in Dirs : Unmade(d)
  BY <1>1, <1>2, Names DEF Unmade, NoSweep
<1>5. \A p \in Procs : Owned(p)
  BY <1>1 DEF Owned, Idles
<1> QED
  BY <1>1, <1>2, <1>3, <1>4, <1>5 DEF FilesInv

\* No sweep touches a live edit, no plaintext outlives its edit while sofka runs, and a
\* sweep that comes to its end has removed what it could: private_file, the drop of a
\* SecretEdit, sweep_abandoned.
THEOREM PlaintextGoes == PartsSpec => []PlaintextAccounted
<1> DEFINE FI == part = "plaintext" => FilesInv
<1>1. PartsInit => FI
  BY FilesInit DEF PartsInit
<1>2. FI /\ [PartsNext]_parts => FI'
  <2> SUFFICES ASSUME FI, [PartsNext]_parts, part' = "plaintext" PROVE FilesInv'
    OBVIOUS
  <2>1. part = "plaintext" /\ [Plaintext!Next]_files
    BY DEF PartsNext, OfBar, OfView, OfPlaintext, OfEditing, parts
  <2> QED
    BY <2>1, FilesStep
<1>3. FI => PlaintextAccounted
  <2> SUFFICES ASSUME FilesInv PROVE Plaintext!EditsAccounted /\ Plaintext!SweepsDone
    BY DEF PlaintextAccounted
  <2>1. ASSUME NEW p \in Procs, at[p] \in {"editor", "closed"}
        PROVE  /\ mine[p] \in there /\ Lock \in entries[mine[p]] /\ holder[mine[p]] = p
               /\ (Secret \in entries[mine[p]]) = (at[p] = "editor")
    <3>1. Kept(p, mine[p]) /\ at[p] \in Open
      BY <2>1 DEF FilesInv, Owned, Idles, Open
    <3> QED
      BY <3>1 DEF Kept
  <2>2. ASSUME NEW d \in Dirs, Secret \in entries[d], by[d] # Nobody PROVE mine[by[d]] = d
    BY <2>2 DEF FilesInv
  <2>3. ASSUME NEW p \in Procs, sweep[p].step = "lists", sweep[p].todo = {},
               NEW d \in sweep[p].owes
        PROVE  Secret \notin entries[d]
    <3>1. Pays(p, d) /\ sweep[p].dir = 0 /\ d \in Dirs /\ d # 0
      BY <2>3, Names DEF FilesInv, FileTypes, Sweeper
    <3> QED
      BY <2>3, <3>1 DEF Pays, Ahead
  <2> QED
    BY <2>1, <2>2, <2>3
       DEF Plaintext!EditsAccounted, Plaintext!SweepsDone, Lock, Secret, Dirs
<1> QED
  BY <1>1, <1>2, <1>3, PTL DEF PartsSpec
============================================================================
