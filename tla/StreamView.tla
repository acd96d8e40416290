-------------------------------- MODULE StreamView --------------------------------
(***************************************************************************)
(* The terminal interface's table of sessions and table of frames          *)
(* (internal/tui/model.go): snapshots of a bounded store taken on ticks,   *)
(* cursors that are row numbers, an inspector, a cleared view and a        *)
(* deletion that waits for an answer.                                      *)
(*                                                                         *)
(* m is the Model; its methods are operators from one m to the next.  A    *)
(* frame is its Seq; indices count from 0.  A key typed into a prompt is   *)
(* the filter or the command it ends in.                                   *)
(***************************************************************************)
EXTENDS Integers, Sequences, FiniteSets, SequencesExt, TLC

CONSTANTS
  Shown,        \* sessions the hub may hear of
  HeldFrames,   \* the live store's frame limit
  MaxArrivals   \* bound: frames that arrive

Nobody == "nobody"
NotCleared == 0

VARIABLES
  kept,     \* the store: frames by session, the sessions first seen first, when each was last heard,
            \* those whose label has what is looked for, and whether a label changed
  arrived,  \* frames ingested, the newest one's Seq
  m
viewVars == <<kept, arrived, m>>

At(s, i) == s[i + 1]
Clamp(v, lo, hi) == IF hi < lo THEN lo ELSE IF v < lo THEN lo ELSE IF v > hi THEN hi ELSE v
Last0(s) == IF Len(s) = 0 THEN 0 ELSE Len(s) - 1

Unsorted == [col |-> "", desc |-> FALSE]
Toggled(st, col) == [col |-> col, desc |-> st.col = col /\ ~st.desc]

-----------------------------------------------------------------------------
(* Snapshots. *)

(* What is looked for is part of the labels of the sessions named. *)
FilterSessions(ids, on, named) == SelectSeq(ids, LAMBDA s : on => s \in named)
SortSessions(ids, st, last) ==
  IF st.col = "" THEN ids
  ELSE SortSeq(ids, LAMBDA a, b : IF st.desc THEN last[a] > last[b] ELSE last[a] < last[b])

(* What the rows sort by and the filter looks for: every other frame is of one method. *)
Method(seq) == seq % 2
FilterEvents(events, filtered) == SelectSeq(events, LAMBDA seq : ~filtered \/ Method(seq) = 1)

Before(st, a, b) ==
  LET less == Method(a) < Method(b) \/ (Method(a) = Method(b) /\ a < b)
  IN  IF st.desc THEN ~less /\ a # b ELSE less
SortStream(st, events) ==
  IF st.col \in {"", "time"} THEN IF st.desc THEN Reverse(events) ELSE events
  ELSE SortSeq(events, LAMBDA a, b : Before(st, a, b))

FullIndexOf(full, seq) ==
  LET found == {i \in 0 .. Len(full) - 1 : At(full, i) = seq}
  IN  IF found = {} THEN -1 ELSE CHOOSE i \in found : \A j \in found : i <= j

(* Faulty variant: the row number is trusted as long as there is such a row. *)
KeepsRow(x) == IF x.inspect < Len(x.full) THEN x.inspect ELSE -1

(* The row the inspected frame is in now, -1 when it left. *)
SyncInspectIndex(x) ==
  IF x.inspect \in 0 .. Len(x.full) - 1 /\ At(x.full, x.inspect) = x.inspectSeq THEN x.inspect
  ELSE FullIndexOf(x.full, x.inspectSeq)

CloseOverlay(x) ==
  [x EXCEPT !.overlay = "none", !.inspectSeq = IF x.overlay = "inspector" THEN 0 ELSE @]

(* A frame the store let go of closes the inspector, and with it any question asked over it. *)
KeepInspected(x) ==
  LET row == SyncInspectIndex(x)
  IN  IF x.overlay # "inspector" THEN [x EXCEPT !.inspect = Clamp(@, 0, Last0(x.full))]
      ELSE IF row >= 0 THEN [x EXCEPT !.inspect = row]
      ELSE [CloseOverlay(x) EXCEPT !.inspect = Clamp(@, 0, Last0(x.full)), !.confirm = Nobody]

Visible(x, store) ==
  LET all   == store.frames[x.stream]
      shown == {i \in DOMAIN all : all[i] > x.cleared[x.stream]}
  IN  IF shown = {} THEN <<>> ELSE SubSeq(all, CHOOSE i \in shown : \A j \in shown : i <= j, Len(all))

(* Without a query filterEvents returns the slice it was given, so sorting the rows sorts full too. *)
RefreshStream(x, store) ==
  LET y    == KeepInspected([x EXCEPT !.full = Visible(x, store)])
      rows == SortStream(y.streamSort, FilterEvents(y.full, y.filtered))
      follow == y.follow /\ y.streamSort.col \in {"", "time"}
      sel  == IF follow /\ y.overlay = "none" THEN Len(rows) - 1 ELSE y.selEvent
  IN  [y EXCEPT !.timeline = rows, !.full = IF y.filtered THEN @ ELSE rows, !.follow = follow,
                !.selEvent = Clamp(sel, 0, Last0(rows))]

ClampSelection(x, rows) == Clamp(x.selSession, 0, Last0(rows))

Refresh(x, store) ==
  LET rows == SortSessions(FilterSessions(store.order, x.sessionFiltered, store.named), x.sessionSort, store.last)
      y    == [x EXCEPT !.sessions = rows, !.selSession = ClampSelection(x, rows)]
  IN  IF x.view = "stream" THEN RefreshStream(y, store) ELSE y

-----------------------------------------------------------------------------
(* The hub: Ingest, then a message the interface takes when it can. *)

ViewInit ==
  /\ \E s \in Shown : kept = [frames |-> [t \in Shown |-> <<>>], order |-> <<>>, last |-> [t \in Shown |-> 0],
                             named |-> {s}, relabelled |-> FALSE]
  /\ arrived = 0
  /\ m = [view |-> "sessions", sessions |-> <<>>, selSession |-> 0, sessionFiltered |-> FALSE, sessionSort |-> Unsorted,
          stream |-> Nobody, full |-> <<>>, timeline |-> <<>>, selEvent |-> 0, inspect |-> 0, inspectSeq |-> 0,
          cleared |-> [s \in Shown |-> NotCleared], filtered |-> FALSE, follow |-> TRUE, streamSort |-> Unsorted,
          overlay |-> "none", confirm |-> Nobody]

(* Over the limit the store lets its oldest frame go, whichever session holds it. *)
Evicted(frames) ==
  LET held == {s \in Shown : frames[s] # <<>>}
      old  == CHOOSE s \in held : \A t \in held : frames[s][1] <= frames[t][1]
  IN  IF FoldFunction(LAMBDA f, n : n + Len(f), 0, frames) > HeldFrames THEN [frames EXCEPT ![old] = Tail(@)] ELSE frames

(* sessionFor: a session takes the label of its latest frame; one changes its label, at most. *)
Ingests(s, relabels) ==
  /\ arrived < MaxArrivals /\ arrived' = arrived + 1
  /\ relabels => Contains(kept.order, s) /\ ~kept.relabelled
  /\ kept' = [frames |-> Evicted([kept.frames EXCEPT ![s] = Append(@, arrived')]),
              order |-> IF Contains(kept.order, s) THEN kept.order ELSE Append(kept.order, s),
              last |-> [kept.last EXCEPT ![s] = arrived'],
              named |-> IF relabels THEN SymDiff(kept.named, {s}) ELSE kept.named,
              relabelled |-> kept.relabelled \/ relabels]
  /\ UNCHANGED m

Shows(x) == m' = x /\ UNCHANGED <<kept, arrived>>

(* A tick refreshes when a frame arrived and the view is not paused, a resize and a released pause at
   any time: so a refresh may come at any time, or not at all. *)
Refreshes == Shows(Refresh(m, kept))

-----------------------------------------------------------------------------
(* Deleting. *)

CurrentSessionID(x) ==
  IF x.view = "stream" THEN x.stream ELSE IF x.sessions = <<>> THEN Nobody ELSE At(x.sessions, x.selSession)

AsksDelete ==
  /\ m.confirm = Nobody /\ m.overlay = "none" /\ CurrentSessionID(m) # Nobody
  /\ Shows([m EXCEPT !.confirm = CurrentSessionID(m)])

Removed(s) ==
  [kept EXCEPT !.frames[s] = <<>>, !.order = SelectSeq(@, LAMBDA t : t # s)]

(* Faulty variant: the answer is about the row the list selects, in the stream too. *)
SelectedRow(x) == IF x.sessions = <<>> THEN Nobody ELSE At(x.sessions, x.selSession)

(* The action reads the live model when the answer arrives. *)
DeleteTarget(x) == CurrentSessionID(x)

DeleteCurrentSession ==
  LET s == DeleteTarget(m)
      x == [m EXCEPT !.confirm = Nobody]
  IN  IF s = Nobody THEN Shows(x)
      ELSE /\ kept' = Removed(s) /\ UNCHANGED arrived
           /\ m' = Refresh([x EXCEPT !.cleared[s] = NotCleared, !.view = "sessions"], Removed(s))

Answer(yes) ==
  /\ m.confirm # Nobody
  /\ IF yes THEN DeleteCurrentSession ELSE Shows([m EXCEPT !.confirm = Nobody])

-----------------------------------------------------------------------------
(* Keys over an open panel. *)

OverAPanel == m.confirm = Nobody /\ m.overlay # "none"
OverATable == m.confirm = Nobody /\ m.overlay = "none"

ClosesPanel == OverAPanel /\ Shows(CloseOverlay(m))
OpensPanel  == OverATable /\ CurrentSessionID(m) # Nobody /\ Shows([m EXCEPT !.overlay = "panel"])

(* x: the other half of the exchange, here the frame of the same method, when the view holds it. *)
JumpsToPair ==
  /\ OverAPanel /\ m.overlay = "inspector" /\ m.inspect < Len(m.full)
  /\ LET pairs == {i \in 0 .. Len(m.full) - 1 : i # m.inspect /\ Method(At(m.full, i)) = Method(At(m.full, m.inspect))}
     IN  /\ pairs # {}
         /\ LET i == CHOOSE i \in pairs : \A j \in pairs : i <= j
            IN  Shows([m EXCEPT !.inspect = i, !.inspectSeq = At(m.full, i)])

-----------------------------------------------------------------------------
(* Keys over a table. *)

EnterStream(x, i) ==
  IF i \notin 0 .. Len(x.sessions) - 1 THEN x
  ELSE Refresh([x EXCEPT !.selSession = i, !.stream = At(x.sessions, i), !.view = "stream", !.follow = TRUE], kept)

DrillIn ==
  OverATable /\
  Shows(IF m.view = "sessions" THEN EnterStream(m, m.selSession)
        ELSE IF m.selEvent \notin 0 .. Len(m.timeline) - 1 THEN m
        ELSE LET seq == At(m.timeline, m.selEvent)
                 i   == FullIndexOf(m.full, seq)
             IN  IF i < 0 THEN m ELSE [m EXCEPT !.inspect = i, !.inspectSeq = seq, !.overlay = "inspector"])

ApplyFilter(x, on) ==
  Refresh(IF x.view = "sessions" THEN [x EXCEPT !.sessionFiltered = on] ELSE [x EXCEPT !.filtered = on], kept)
Filters == OverATable /\ \E on \in BOOLEAN : Shows(ApplyFilter(m, on))

(* One level at a time: the filter, the cleared view, the stream; never out of the program. *)
Back ==
  OverATable /\
  Shows(CASE m.view = "sessions" -> IF m.sessionFiltered THEN ApplyFilter(m, FALSE) ELSE m
          [] m.view = "stream" /\ m.filtered -> ApplyFilter(m, FALSE)
          [] m.view = "stream" /\ ~m.filtered /\ m.cleared[m.stream] # NotCleared ->
               Refresh([m EXCEPT !.cleared[m.stream] = NotCleared], kept)
          [] OTHER -> Refresh([m EXCEPT !.view = "sessions"], kept))

Step(x, delta) ==
  LET n == Len(IF x.view = "sessions" THEN x.sessions ELSE x.timeline)
  IN  IF n = 0 THEN x
      ELSE IF x.view = "sessions" THEN [x EXCEPT !.selSession = (@ + delta + n) % n]
      ELSE LET to == (x.selEvent + delta + n) % n IN [x EXCEPT !.selEvent = to, !.follow = to = n - 1]

MoveTo(x, to) ==
  IF x.view = "sessions" THEN [x EXCEPT !.selSession = Clamp(to, 0, Len(x.sessions) - 1)]
  ELSE LET i == Clamp(to, 0, Len(x.timeline) - 1)
       IN  [x EXCEPT !.selEvent = i, !.follow = i = Len(x.timeline) - 1]
Moves == OverATable /\ (\/ \E delta \in {-1, 1} : Shows(Step(m, delta))
                        \/ \E to \in {0, HeldFrames} : Shows(MoveTo(m, to)))

SwitchSession(delta) ==
  LET n   == Len(m.sessions)
      at  == {i \in 0 .. n - 1 : At(m.sessions, i) = m.stream}
      cur == IF at = {} THEN m.selSession ELSE CHOOSE i \in at : TRUE
  IN  /\ OverATable /\ n > 0
      /\ Shows(IF m.view # "stream" THEN Step(m, delta)
               ELSE EnterStream([m EXCEPT !.filtered = FALSE], (cur + delta + n) % n))

ApplySortKey ==
  OverATable /\
  IF m.view = "sessions" THEN Shows(Refresh([m EXCEPT !.sessionSort = Toggled(@, "last")], kept))
  ELSE \E col \in {"time", "method"} : Shows(Refresh([m EXCEPT !.streamSort = Toggled(@, col)], kept))

Follow ==
  /\ OverATable /\ m.view = "stream"
  /\ LET x == [m EXCEPT !.follow = ~@] IN Shows(IF x.follow THEN Refresh(x, kept) ELSE x)
ClearCurrentStream ==
  /\ OverATable /\ m.view = "stream" /\ kept.frames[m.stream] # <<>>
  /\ Shows(Refresh([m EXCEPT !.cleared[m.stream] = Last(kept.frames[m.stream])], kept))

(* sessions, stream and a session's name; the other commands open what a key opens. *)
RunCommand ==
  /\ OverATable
  /\ \/ Shows(Refresh([m EXCEPT !.view = "sessions"], kept))
     \/ CurrentSessionID(m) # Nobody /\ Shows(EnterStream(m, m.selSession))
     \/ \E i \in 0 .. Len(m.sessions) - 1 : Shows(EnterStream(m, i))

ViewNext ==
  \/ \E s \in Shown : Ingests(s, TRUE) \/ Ingests(s, FALSE)
  \/ Refreshes
  \/ AsksDelete \/ Answer(TRUE) \/ Answer(FALSE)
  \/ ClosesPanel \/ OpensPanel \/ JumpsToPair
  \/ DrillIn \/ Filters \/ Back \/ Moves \/ SwitchSession(-1) \/ SwitchSession(1)
  \/ ApplySortKey \/ Follow \/ ClearCurrentStream \/ RunCommand

-----------------------------------------------------------------------------
(* Every row number the keys index with is a row: whatever arrives, leaves, is filtered, cleared,
   sorted or deleted, the selected session, the selected frame and the inspected one exist. *)
CursorsInRange ==
  /\ m.sessions # <<>> => m.selSession \in 0 .. Len(m.sessions) - 1
  /\ m.timeline # <<>> => m.selEvent \in 0 .. Len(m.timeline) - 1
  /\ m.selSession >= 0 /\ m.selEvent >= 0
  /\ m.overlay = "inspector" => m.inspect \in 0 .. Len(m.full) - 1

InFileOrder == m.filtered \/ (m.streamSort.col \in {"", "time"} /\ ~m.streamSort.desc)

(* With rows in file order, or a filter between them and the session, the inspector acts on the frame
   it shows while frames arrive and the store lets old ones go (syncInspectIndex, refresh). *)
InspectorKeepsInOrder ==
  m.overlay = "inspector" /\ InFileOrder => At(m.full, m.inspect) = m.inspectSeq

(* The inspector keeps the frame it shows.  Does not hold under another order: see README. *)
InspectorKeepsItsFrame == m.overlay = "inspector" => At(m.full, m.inspect) = m.inspectSeq

(* From the stream, and from a list in order of arrival, the session deleted is the one the prompt
   named, however the store changed before the answer; unless the list is filtered and labels changed. *)
DeletesWhatWasAsked ==
  [][\A s \in Shown : Contains(kept.order, s) /\ ~Contains(kept'.order, s) /\
       (m.view = "stream" \/ (m.sessionSort.col = "" /\ ~(m.sessionFiltered /\ kept.relabelled)))
         => s = m.confirm]_viewVars

(* The same from every list.  Does not hold: see README. *)
AlwaysDeletesWhatWasAsked ==
  [][\A s \in Shown : Contains(kept.order, s) /\ ~Contains(kept'.order, s) => s = m.confirm]_viewVars

-----------------------------------------------------------------------------
(***************************************************************************)
(* A panel over the tables, and "/" inside it: the inspector shows one     *)
(* frame, which stays as it is, a live panel (interactions, elicitations)  *)
(* one block for each call the bounded store still holds, and is rebuilt   *)
(* on ticks.  A block is wrapped to two lines when the terminal is narrow; *)
(* what is searched for is on the first line of some blocks.               *)
(***************************************************************************)
CONSTANTS
  HeldBlocks,   \* calls the store holds
  MaxBlocks     \* bound: calls made

VARIABLES
  held,     \* the blocks of the store, oldest first
  made,     \* calls made so far, a block's number
  panel,    \* the Model: its panel, what is searched in it, and whether it crashed
  dirty,    \* a frame arrived since the last refresh
  narrow    \* the width of the terminal
panelVars == <<held, made, panel, dirty, narrow>>

NoSearch == "none"
Queries  == {NoSearch, "odd", "absent"}

Closed == [kind |-> "none", raw |-> <<>>, lines |-> <<>>, query |-> NoSearch, matches |-> <<>>, ix |-> 0, crashed |-> FALSE]
PanelInit == held = <<>> /\ made = 0 /\ panel = Closed /\ dirty = FALSE /\ narrow = FALSE

(* softWrap, numberBody: a panel with nothing to show says so. *)
Wrapped(raw, slim) ==
  LET blocks == IF raw = <<>> THEN <<0>> ELSE raw
  IN  FlattenSeq([k \in DOMAIN blocks |-> IF slim THEN <<<<blocks[k], 1>>, <<blocks[k], 2>>>> ELSE <<<<blocks[k], 1>>>>])
Contains_(line, query) == query = "odd" /\ line[2] = 1 /\ line[1] % 2 = 1

SetOverlayBody(x, raw, slim) == [x EXCEPT !.raw = raw, !.lines = Wrapped(raw, slim)]

(* renderOverlaySearch takes each match for a line there is. *)
RenderOverlaySearch(x) == [x EXCEPT !.crashed = \E k \in DOMAIN x.matches : x.matches[k] \notin DOMAIN x.lines]

ApplyOverlaySearch(x, query) ==
  LET found == SetToSortSeq({n \in DOMAIN x.lines : Contains_(x.lines[n], query)}, <)
      y     == [x EXCEPT !.query = query, !.matches = IF query = NoSearch THEN <<>> ELSE found, !.ix = 0]
  IN  IF query = NoSearch THEN y ELSE RenderOverlaySearch(y)

OverlayJump(x, dir) ==
  LET n == Len(x.matches)
  IN  IF n = 0 THEN x ELSE RenderOverlaySearch([x EXCEPT !.ix = (@ + dir + n) % n])

-----------------------------------------------------------------------------
(* A call is made, and the oldest one leaves. *)
Arrives ==
  /\ made < MaxBlocks /\ made' = made + 1 /\ dirty' = TRUE
  /\ held' = IF Len(held) < HeldBlocks THEN Append(held, made') ELSE Append(Tail(held), made')
  /\ UNCHANGED <<panel, narrow>>
(* Frames of calls that are shown nowhere push the oldest call out. *)
Evicts == held # <<>> /\ held' = Tail(held) /\ dirty' = TRUE /\ UNCHANGED <<made, panel, narrow>>

Opens(kind) ==
  /\ panel.kind = "none" \/ (panel.kind = "frame" /\ kind = "frame")
  /\ kind = "frame" => held # <<>>
  /\ \E b \in ToSet(held) \cup {0} :
       /\ kind = "frame" => b # 0
       /\ panel' = SetOverlayBody([Closed EXCEPT !.kind = kind], IF kind = "frame" THEN <<b, b + 1>> ELSE held, narrow)
  /\ UNCHANGED <<held, made, dirty, narrow>>
Closes == panel.kind # "none" /\ panel' = Closed /\ UNCHANGED <<held, made, dirty, narrow>>

(* refreshLiveOverlay: an open live panel is rebuilt, when it changed. *)
RefreshesPanel ==
  /\ dirty /\ dirty' = FALSE
  /\ panel' = IF panel.kind = "live" /\ panel.raw # held THEN SetOverlayBody(panel, held, narrow) ELSE panel
  /\ UNCHANGED <<held, made, narrow>>

Resizes ==
  /\ narrow' = ~narrow
  /\ panel' = IF panel.kind = "none" THEN panel
              ELSE LET x == SetOverlayBody(panel, panel.raw, narrow')
                   IN  IF x.query = NoSearch THEN x ELSE ApplyOverlaySearch(x, x.query)
  /\ UNCHANGED <<held, made, dirty>>

Searches(query) == panel.kind # "none" /\ panel' = ApplyOverlaySearch(panel, query) /\ UNCHANGED <<held, made, dirty, narrow>>
Jumps(dir) == panel.kind # "none" /\ panel' = OverlayJump(panel, dir) /\ UNCHANGED <<held, made, dirty, narrow>>

PanelNext ==
  /\ ~panel.crashed
  /\ \/ Arrives \/ Evicts \/ \E kind \in {"frame", "live"} : Opens(kind)
     \/ Closes \/ RefreshesPanel \/ Resizes
     \/ \E query \in Queries : Searches(query)
     \/ \E dir \in {-1, 1} : Jumps(dir)

-----------------------------------------------------------------------------
Exact(x) == {x.matches[k] : k \in DOMAIN x.matches} = {n \in DOMAIN x.lines : Contains_(x.lines[n], x.query)}

(* Over a frame, through every resize, jump and move to another frame, the matches are the lines that
   hold what is searched for, and the current one is one of them. *)
FrameSearchExact ==
  /\ panel.kind = "frame" => Exact(panel) /\ ~panel.crashed
  /\ panel.matches = <<>> \/ panel.ix \in 0 .. Len(panel.matches) - 1

(* Does not hold: see README.  "line numbers containing a match", in whatever panel is open. *)
MatchesAreMatches == Exact(panel) /\ ~panel.crashed
=============================================================================
