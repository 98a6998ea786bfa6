------------------------------ MODULE Transfer ------------------------------
(***************************************************************************)
(* The progress of a background `kubectl cp` (src/src/app/transfer.rs):    *)
(* the copy, the sampler that measures its destination from outside, and   *)
(* the bar the samples move.                                               *)
(*                                                                         *)
(* The copy replaces what is at its destination, a file at a time; a walk  *)
(* or a line of the pod-side watcher is a measurement that arrives later.  *)
(* Sizes are small numbers, and one copy runs.                             *)
(***************************************************************************)
EXTENDS Integers, Sequences

CONSTANTS
  MaxOld, Source,            \* bytes at the destination before, and to copy
  MaxGen, MaxInbox           \* bounds

ASSUME SizesAssumption == MaxOld \in Nat /\ Source \in Nat

Unknown == -1

VARIABLES
  dest,      \* bytes at the destination: of old content, and copied
  task,      \* run_transfer
  sampler,   \* a measurement on its way (Unknown: there is none), or "idle"
  inbox,
  gen,       \* the watch generation
  bar        \* its entry in App::transfers

copyVars == <<dest, task, sampler, inbox, gen, bar>>

Size == dest.old + dest.new

Send(msgs) == inbox' = inbox \o msgs
Room == Len(inbox) < MaxInbox
Progress(moved, total) ==
  <<[kind |-> "progress", gen |-> task.gen, done |-> moved, total |-> total]>>
Done == <<[kind |-> "done", gen |-> task.gen, done |-> 0, total |-> Unknown]>>

-----------------------------------------------------------------------------
(* The task.                                                               *)

\* Sampler::start, then Sampler::baseline: what is there before the copy touches it.
\* Unknown when it does not answer in time.
Baseline ==
  /\ task.pc = "baseline"
  /\ \E base \in {Unknown, Size}, state \in {"live", "idle"} :
       /\ task' = [task EXCEPT !.pc = "copy", !.base = base, !.blind = (state = "idle")]
       /\ sampler' = [state |-> state, value |-> Unknown]
       /\ state = "idle" => base = Unknown
  /\ UNCHANGED <<dest, inbox, gen, bar>>

\* kubectl cp, on its own: it replaces old content, and writes.
Replace ==
  /\ task.pc = "copy" /\ dest.old > 0
  /\ \E n \in 0 .. dest.old - 1 : dest' = [dest EXCEPT !.old = n]
  /\ UNCHANGED <<task, sampler, inbox, gen, bar>>

Write ==
  /\ task.pc = "copy" /\ dest.new < Source
  /\ dest' = [dest EXCEPT !.new = @ + 1]
  /\ UNCHANGED <<task, sampler, inbox, gen, bar>>

Measure ==
  /\ task.pc = "copy" /\ sampler.state = "live" /\ sampler.value = Unknown
  /\ sampler' = [sampler EXCEPT !.value = Size]
  /\ UNCHANGED <<dest, task, inbox, gen, bar>>

Least(a, b) == IF a < b THEN a ELSE b

\* Mutant: a destination nobody measured counts as empty.
BaseFixed(base, sampled) == IF base = Unknown THEN 0 ELSE base

\* moved: the baseline, lowered to the lowest sample.
Base(base, sampled) == IF base = Unknown THEN sampled ELSE Least(base, sampled)

\* A sample lands.  One that could not read the destination (Sampler::sample: None)
\* changes nothing.
Sampled ==
  LET base == Base(task.base, sampler.value)
      moved == sampler.value - base
      further == moved > task.done
  IN /\ task.pc = "copy" /\ sampler.state = "live" /\ sampler.value # Unknown /\ Room
     /\ sampler' = [sampler EXCEPT !.value = Unknown]
     /\ task' = [task EXCEPT !.base = base, !.done = IF further THEN moved ELSE @]
     /\ IF further THEN Send(Progress(moved, task.total)) ELSE UNCHANGED inbox
     /\ UNCHANGED <<dest, gen, bar>>

\* The watcher's stream ends, or the destination is too large to walk.
Retires ==
  /\ task.pc = "copy" /\ sampler.state = "live" /\ Room
  /\ sampler' = [state |-> "idle", value |-> Unknown]
  /\ task' = [task EXCEPT !.blind = TRUE]
  /\ Send(Progress(task.done, Unknown))
  /\ UNCHANGED <<dest, gen, bar>>

\* Mutant: a total that comes in late is reported all the same.
SizedLate ==
  /\ task.pc = "copy" /\ ~task.sized /\ Room
  /\ \E total \in {Unknown, Source} :
       /\ task' = [task EXCEPT !.sized = TRUE, !.total = total]
       /\ Send(Progress(task.done, total))
  /\ UNCHANGED <<dest, sampler, gen, bar>>

\* resolve_total answers.
Sized ==
  /\ task.pc = "copy" /\ ~task.sized /\ Room
  /\ \E total \in {Unknown, Source} :
       IF task.blind
       THEN task' = [task EXCEPT !.sized = TRUE] /\ UNCHANGED inbox
       ELSE /\ task' = [task EXCEPT !.sized = TRUE, !.total = total]
            /\ Send(Progress(task.done, total))
  /\ UNCHANGED <<dest, sampler, gen, bar>>

\* The copy ends, well or not.
CopyEnds ==
  /\ task.pc = "copy" /\ Room
  /\ task' = [task EXCEPT !.pc = "over"] /\ Send(Done)
  /\ sampler' = [state |-> "idle", value |-> Unknown]
  /\ UNCHANGED <<dest, gen, bar>>

-----------------------------------------------------------------------------
(* The browser.                                                            *)

\* begin_transfer, register_transfer.
Registers ==
  /\ task.pc = "none"
  /\ task' = [task EXCEPT !.pc = "baseline", !.gen = gen]
  /\ bar' = [there |-> TRUE, gen |-> gen, done |-> 0, total |-> Unknown]
  /\ UNCHANGED <<dest, sampler, inbox, gen>>

\* Another watch: the row is no longer on screen.
Navigate ==
  /\ gen < MaxGen /\ gen' = gen + 1
  /\ UNCHANGED <<dest, task, sampler, inbox, bar>>

\* Msg::TransferProgress (update_transfer), Msg::TransferDone (end_transfer).
Handle ==
  /\ inbox # <<>> /\ inbox' = Tail(inbox)
  /\ LET m == inbox[1]
     IN bar' = CASE m.kind = "done" -> [bar EXCEPT !.there = FALSE]
                 [] m.kind = "progress" /\ m.gen = gen ->
                      [bar EXCEPT !.done = m.done, !.total = m.total]
                 [] OTHER -> bar
  /\ UNCHANGED <<dest, task, sampler, gen>>

-----------------------------------------------------------------------------
CopyInit ==
  /\ dest \in [old : 0 .. MaxOld, new : {0}]
  /\ task = [pc |-> "none", gen |-> 0, base |-> Unknown, done |-> 0, total |-> Unknown,
             sized |-> FALSE, blind |-> FALSE]
  /\ sampler = [state |-> "idle", value |-> Unknown]
  /\ inbox = <<>> /\ gen = 1
  /\ bar = [there |-> FALSE, gen |-> 0, done |-> 0, total |-> Unknown]

CopyNext ==
  \/ Baseline \/ Replace \/ Write \/ Measure \/ Sampled \/ Retires \/ Sized \/ CopyEnds
  \/ Registers \/ Navigate \/ Handle

CopySpec == CopyInit /\ [][CopyNext]_copyVars

-----------------------------------------------------------------------------
(* Properties.                                                             *)

\* What the bar counts has been copied: what was at the destination already is not
\* progress, whatever the copy replaces of it and whenever it is measured.
NeverOverReports == bar.there => bar.done <= dest.new

\* pane_transfers
Drawn == bar.there /\ bar.gen = gen /\ bar.total # Unknown

\* No bar stands still: once nothing measures the copy the bar goes with the last
\* message and none comes back, and once the copy is over its entry goes, whatever the
\* browser shows by then.
NoIdleBar ==
  inbox = <<>> => (task.blind => ~Drawn) /\ (task.pc = "over" => ~bar.there)
=============================================================================
