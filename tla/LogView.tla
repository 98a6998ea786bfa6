------------------------------ MODULE LogView -------------------------------
(***************************************************************************)
(* The buffer of the log view (LogsView in src/src/app/mod.rs and          *)
(* src/src/app/logs.rs): lines kept in time order, visual markers, the     *)
(* index of what is shown, which is extended rather than rebuilt, and the  *)
(* scroll position, counted in display rows, that a paused view keeps.     *)
(*                                                                         *)
(* A line is its kind: "edge" (two rows when it is wrapped with its        *)
(* timestamp), "record" (two rows, and a match of the filter, only while   *)
(* it is formatted as JSON; a warning).  The terminal keeps its size, so   *)
(* the wrap width is 0 or 1.                                               *)
(***************************************************************************)
EXTENDS Naturals, Sequences, FiniteSets, SequencesExt, FiniteSetsExt

CONSTANTS
  Kinds, Times,
  Buffer, PausedBuffer, Height,        \* logs.buffer, MAX_LOG_LINES_PAUSED, viewport_h
  MaxPushed, MaxKeys                   \* bounds

VARIABLES
  lines,     \* view.lines with line_meta
  offset,    \* line_offset
  markers, revision, index,
  follow, scroll, filter, warnings, wrap, stamps, json,
  rows,      \* viewport_rows
  width,     \* last_wrap_width
  pushed, keys

text == <<lines, offset, markers, revision>>
modes == <<follow, filter, warnings, wrap, stamps, json>>
drawn == <<rows, width>>
bounds == <<pushed, keys>>
vars == <<text, index, modes, scroll, drawn, bounds>>

\* What the operators below need to know of the view.
Now == [lines |-> lines, offset |-> offset, markers |-> markers, revision |-> revision,
        index |-> index, scroll |-> scroll, follow |-> follow, filter |-> filter,
        warnings |-> warnings, stamps |-> stamps, json |-> json]

Next_ == [lines |-> lines', offset |-> offset', markers |-> markers',
          revision |-> revision', index |-> index', scroll |-> scroll',
          follow |-> follow', filter |-> filter', warnings |-> warnings',
          stamps |-> stamps', json |-> json']

Monus(a, b) == IF a > b THEN a - b ELSE 0
Least(a, b) == IF a < b THEN a ELSE b

-----------------------------------------------------------------------------
(* Lines and their rows.                                                   *)

\* display_height
Rows(v, l, w) ==
  IF \/ l.kind = "record" /\ v.json
     \/ l.kind = "edge" /\ v.stamps /\ w > 0 THEN 2 ELSE 1

\* LogMatcher::matches_shown: by the text of the line, or the text shown for it.
Matches(v, l) ==
  /\ v.filter => l.kind = "edge" \/ v.json
  /\ v.warnings => l.kind = "record"

\* LogIndex: an entry is a line of the buffer (0: a marker) and the row after it.
TotalRows(shown) == IF shown = <<>> THEN 0 ELSE shown[Len(shown)].end
StartRow(shown, i) == TotalRows(SubSeq(shown, 1, Least(i - 1, Len(shown))))
FirstAtRow(shown, row) == 1 + Cardinality({i \in DOMAIN shown : shown[i].end <= row})
IsMarker(e) == e.line = 0

\* LogIndex::reset.
Blank(v, w) ==
  [filter |-> v.filter, width |-> w, revision |-> v.revision,
   consumed |-> 0, marked |-> 0, shown |-> <<>>]

\* refresh_index: markers that precede the line at position i - 1, then the line.
Add(x, line, height) ==
  [x EXCEPT !.shown = Append(@, [line |-> line, end |-> TotalRows(@) + height])]

Bars(v, x, i) ==
  LET f[k \in x.marked .. Len(v.markers)] ==
        IF k = x.marked THEN x ELSE [Add(f[k - 1], 0, 1) EXCEPT !.marked = k]
      ends == {k \in x.marked .. Len(v.markers) :
                 \A j \in x.marked + 1 .. k : v.markers[j] = v.offset + i - 1}
  IN f[Max(ends)]

Extend(v, w, x) ==
  LET n == Len(v.lines)
      f[i \in x.consumed .. n + 1] ==
        IF i = x.consumed THEN x
        ELSE LET y == Bars(v, f[i - 1], i)
             IN IF i <= n /\ Matches(v, v.lines[i]) THEN Add(y, i, Rows(v, v.lines[i], w))
                ELSE y
  IN [f[n + 1] EXCEPT !.consumed = n]

\* Mutant: the index is only rebuilt when the filter or the width changes.
RefreshUnlessShrunk(v, w) ==
  Extend(v, w, IF v.index.width = w /\ v.index.filter = v.filter
                  /\ v.index.consumed <= Len(v.lines) THEN v.index ELSE Blank(v, w))

Refresh(v, w) ==
  Extend(v, w, IF /\ v.index.revision = v.revision /\ v.index.width = w
                  /\ v.index.filter = v.filter /\ v.index.consumed <= Len(v.lines)
               THEN v.index ELSE Blank(v, w))

\* reset_index
Reset(v) == [v EXCEPT !.index = Blank(v, v.index.width)]

-----------------------------------------------------------------------------
(* push_log_lines.                                                         *)

\* push_line, of a line that is not the newest: before position i.
Insert(v, l, i) ==
  LET paused == ~v.follow /\ Matches(v, l)
      x == Refresh(v, width)
      Mark(s) == Cardinality({k \in 1 .. s : IsMarker(x.shown[k])})
      After(s) == IF IsMarker(x.shown[s]) THEN v.markers[Mark(s)] > v.offset + i - 1
                  ELSE x.shown[s].line >= i
      above == {s \in DOMAIN x.shown : After(s)}
      moves == paused /\ above # {} /\ StartRow(x.shown, Min(above)) <= v.scroll
  IN [v EXCEPT
       !.index = IF paused THEN x ELSE @,
       !.scroll = IF moves THEN @ + Rows(v, l, width) ELSE @,
       !.markers = [m \in DOMAIN @ |-> IF @[m] > v.offset + i - 1 THEN @[m] + 1 ELSE @[m]],
       !.revision = @ + 1,
       !.lines = InsertAt(@, i, l)]

PushLine(v, l) ==
  LET later == {i \in DOMAIN v.lines : v.lines[i].time > l.time}
  IN IF later = {} THEN [v EXCEPT !.lines = Append(@, l)] ELSE Insert(v, l, Min(later))

LimitMarkers(v, cap) ==
  LET over == Monus(Len(v.markers), cap)
      x == Refresh(v, width)
      bars == {s \in DOMAIN x.shown : IsMarker(x.shown[s])}
      gone == {s \in bars : Cardinality({t \in bars : t <= s}) <= over}
      above == {s \in gone : StartRow(x.shown, s) < v.scroll}
  IN IF over = 0 THEN v
     ELSE Reset([v EXCEPT !.scroll = IF v.follow THEN @ ELSE Monus(@, Cardinality(above)),
                          !.markers = SubSeq(@, over + 1, Len(@))])

\* Mutant: the rows of the lines that go are not counted.
DrainFrontUnmoved(v, n) ==
  IF n = 0 THEN v
  ELSE Reset([v EXCEPT !.offset = @ + n, !.revision = @ + 1,
                       !.markers = SelectSeq(@, LAMBDA m : m >= v.offset + n),
                       !.lines = SubSeq(@, n + 1, Len(@))])

DrainFront(v, n) ==
  LET first == v.offset + n
      bars == Cardinality({m \in DOMAIN v.markers : v.markers[m] < first})
      gone[k \in 0 .. n] ==
        IF k = 0 THEN 0
        ELSE gone[k - 1] + IF Matches(v, v.lines[k]) THEN Rows(v, v.lines[k], width) ELSE 0
  IN IF n = 0 THEN v
     ELSE Reset([v EXCEPT !.offset = first, !.revision = @ + 1,
                          !.scroll = IF v.follow THEN @ ELSE Monus(@, gone[n] + bars),
                          !.markers = SubSeq(@, bars + 1, Len(@)),
                          !.lines = SubSeq(@, n + 1, Len(@))])

\* trim_log_buffer
Trim(v) ==
  LET cap == IF v.follow THEN Buffer ELSE PausedBuffer
      w == LimitMarkers(v, cap)
  IN DrainFront(w, Monus(Len(w.lines), cap))

Becomes(v) ==
  /\ lines' = v.lines /\ offset' = v.offset /\ markers' = v.markers
  /\ revision' = v.revision /\ index' = v.index /\ scroll' = v.scroll
  /\ follow' = v.follow /\ filter' = v.filter /\ warnings' = v.warnings
  /\ stamps' = v.stamps /\ json' = v.json

-----------------------------------------------------------------------------
(* Messages, the frame, keys.                                              *)

LogLines ==
  /\ pushed < MaxPushed /\ pushed' = pushed + 1
  /\ \E k \in Kinds, t \in Times :
       Becomes(Trim(PushLine(Now, [id |-> pushed + 1, kind |-> k, time |-> t])))
  /\ UNCHANGED <<wrap, drawn, keys>>

WrapWidth == IF wrap THEN 1 ELSE 0

\* draw_logs
Draw ==
  LET x == Refresh(Now, WrapWidth)
  IN /\ index' = x /\ rows' = TotalRows(x.shown) /\ width' = WrapWidth
     /\ scroll' = IF follow THEN Monus(rows', Height) ELSE scroll
     /\ UNCHANGED <<text, modes, bounds>>

\* Keys: those that set a mode are bounded.
Press(v) ==
  /\ keys < MaxKeys /\ keys' = keys + 1 /\ Becomes(v) /\ UNCHANGED <<drawn, pushed>>

MoveTo(row) ==
  /\ follow' = FALSE /\ scroll' = row
  /\ UNCHANGED <<text, index, filter, warnings, wrap, stamps, json, drawn, bounds>>

Down == MoveTo(Least(scroll + 1, Monus(rows, Height)))
Up == MoveTo(Monus(scroll, 1))

\* End, or Follow pressed while paused: follow again.
End == Press(Trim([Now EXCEPT !.follow = TRUE])) /\ UNCHANGED wrap

\* Follow: the view is frozen where it is.
Pause == follow /\ Press([Now EXCEPT !.follow = FALSE]) /\ UNCHANGED wrap

AddMarker ==
  LET cap == IF follow THEN Buffer ELSE PausedBuffer
      v == [Now EXCEPT !.markers = Append(@, offset + Len(lines))]
  IN Press(LimitMarkers(v, cap)) /\ UNCHANGED wrap

Wrap == Press(Now) /\ wrap' = ~wrap
SetFilter == Press([Now EXCEPT !.filter = ~@]) /\ UNCHANGED wrap
ToggleWarnings ==
  Press(Reset([Now EXCEPT !.warnings = ~@, !.scroll = 0])) /\ UNCHANGED wrap

\* clear_lines
Cleared(v) ==
  Reset([v EXCEPT !.lines = <<>>, !.markers = <<>>, !.offset = 0, !.revision = @ + 1])

Clear == Press([Cleared(Now) EXCEPT !.scroll = 0]) /\ UNCHANGED wrap

\* launch_logs
Launch ==
  /\ Press([Cleared([Now EXCEPT !.revision = 0]) EXCEPT
             !.scroll = 0, !.follow = TRUE, !.filter = FALSE, !.warnings = FALSE])
  /\ UNCHANGED wrap

\* Bring the row back into view, in the lines as they are shown now.
Land(x, row) == Least(row, Monus(TotalRows(x.shown), Height))

\* toggle_timestamps: the line at the top stays, on the same row of it if it has it.
ToggleTimestamps ==
  LET before == Refresh(Now, width).shown
      row == Least(scroll, Monus(TotalRows(before), Height))
      top == FirstAtRow(before, row)
      off == row - StartRow(before, top)
      v == [Now EXCEPT !.stamps = ~@, !.revision = @ + 1]
      x == Refresh(v, width)
      at == IF top > Len(before) THEN 0
            ELSE StartRow(x.shown, top) + Least(off, x.shown[top].end - StartRow(x.shown, top) - 1)
  IN /\ keys < MaxKeys /\ keys' = keys + 1
     /\ Becomes([v EXCEPT !.index = x, !.scroll = IF follow THEN @ ELSE Land(x, at)])
     /\ rows' = TotalRows(x.shown) /\ UNCHANGED <<wrap, width, pushed>>

\* set_json, rerender: the entry at the top stays.
ToggleJson ==
  LET top == FirstAtRow(Refresh(Now, width).shown, scroll)
      v == [Now EXCEPT !.json = ~@, !.revision = @ + 1]
      x == Refresh(v, width)
  IN /\ keys < MaxKeys /\ keys' = keys + 1
     /\ Becomes([v EXCEPT !.index = x,
                          !.scroll = IF follow THEN @ ELSE Land(x, StartRow(x.shown, top))])
     /\ rows' = TotalRows(x.shown) /\ UNCHANGED <<wrap, width, pushed>>

-----------------------------------------------------------------------------
Init ==
  /\ lines = <<>> /\ offset = 0 /\ markers = <<>> /\ revision = 1
  /\ follow = TRUE /\ scroll = 0 /\ filter = FALSE /\ warnings = FALSE
  /\ wrap = TRUE /\ stamps = FALSE /\ json \in BOOLEAN
  /\ index = Blank([filter |-> filter, revision |-> revision], 0)
  /\ rows = 0 /\ width = 0 /\ pushed = 0 /\ keys = 0

Toggle == ToggleTimestamps \/ ToggleJson
Key ==
  \/ Down \/ Up \/ End \/ Pause \/ AddMarker \/ Wrap \/ SetFilter \/ ToggleWarnings
  \/ Clear \/ Launch \/ Toggle
Next == LogLines \/ Draw \/ Key

Spec == Init /\ [][Next]_vars

-----------------------------------------------------------------------------
(* Properties.                                                             *)

\* The index that is extended is the index that would be built, and it shows every
\* marker, whatever was drained, inserted, cleared or reconfigured since.
IndexIsFresh ==
  LET x == Refresh(Now, WrapWidth)
  IN /\ x = Extend(Now, WrapWidth, Blank(Now, WrapWidth))
     /\ Cardinality({i \in DOMAIN x.shown : IsMarker(x.shown[i])}) = Len(markers)

\* The screen: what is shown of the buffer, from which row.
Screen(v, w) ==
  LET shown == Refresh(v, w).shown
      end == Monus(TotalRows(shown), Height)
  IN [shown |-> shown, lines |-> v.lines, scroll |-> v.scroll, end |-> end,
      top |-> Least(v.scroll, end)]

\* The line at its top, and which row of it (0 when that is a marker, or nothing).
Top(s) ==
  LET i == FirstAtRow(s.shown, s.top)
  IN IF i > Len(s.shown) \/ IsMarker(s.shown[i]) THEN <<0, 0>>
     ELSE <<s.lines[s.shown[i].line].id, s.top - StartRow(s.shown, i)>>

OnScreen(s, id) ==
  \E i \in DOMAIN s.shown :
    /\ ~IsMarker(s.shown[i]) /\ s.lines[s.shown[i].line].id = id
    /\ s.shown[i].end > s.top /\ StartRow(s.shown, i) < s.top + Height

\* A paused view is frozen: lines that arrive - late ones above it, and those that
\* push old ones out of the buffer - leave the line at its top where it is, or as near
\* to it as the end of the view allows.  (It is not scrolled past its end, and the
\* frame has been drawn.)
Stays(s, t) ==
  LET id == Top(s)[1]
  IN \/ s.scroll > s.end \/ id = 0 \/ Top(t) = Top(s)
     \/ \A i \in DOMAIN t.lines : t.lines[i].id # id
     \/ t.scroll > t.end /\ OnScreen(t, id)

PausedStays ==
  [][pushed' # pushed /\ ~follow /\ width = WrapWidth =>
       Stays(Screen(Now, width), Screen(Next_, width))]_vars

\* Showing or hiding timestamps, or formatting JSON, keeps the line at the top in
\* view.  (With a filter the JSON view may show other lines, and then it does not.)
Remains(s, t) == s.scroll > s.end \/ Top(s)[1] = 0 \/ OnScreen(t, Top(s)[1])

RestyleKeepsLine ==
  [][(stamps' # stamps \/ json' # json) /\ ~follow /\ ~filter /\ width = WrapWidth =>
       Remains(Screen(Now, width), Screen(Next_, width))]_vars
=============================================================================
