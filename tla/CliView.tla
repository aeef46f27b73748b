-------------------------------- MODULE CliView --------------------------------
(***************************************************************************)
(* What the terminal shows of a run: the reducer of                        *)
(* src/src/cli/state/cli-state.ts and the timeline of cli/state/timeline.ts*)
(* behind the stream of module RunStream.                                  *)
(*                                                                         *)
(* The events of a run are stamped when the agent's bus publishes them and *)
(* reach the reducer when the consumer of the stream gets them.  The CLI's *)
(* own events (notices, errors, /clear) go to the reducer at once, so they *)
(* overtake what is still in the queue.                                    *)
(*                                                                         *)
(* The toggles of help and debug, lastError, and what rows carry besides   *)
(* their text, status and streams are left out.                            *)
(***************************************************************************)
EXTENDS RunStream

CONSTANTS
  CallIds,    \* ids of tool calls; the model may use one again
  MaxDirect,  \* bound: events of the CLI itself
  MaxRows,    \* MAX_MESSAGES, MAX_TOOLS, ... (80 and 40 in the source)
  MaxText     \* MAX_MESSAGE_CONTENT_LENGTH, in deltas; the streams kept of a tool

ASSUME ViewAssumption ==
  /\ MaxEvents > 1
  /\ MaxDirect \in Nat /\ MaxRows \in Nat \ {0} /\ MaxText \in Nat \ {0}

VARIABLES
  emitted,    \* the events the run pushed, as its bus published them
  clock,      \* Date.now(), which may stand still between events
  said,       \* events published so far by run and CLI
  direct,     \* of these, those of the CLI
  view,       \* CliViewState
  forgotten   \* history: rows were cleared, or fell off a full list

viewVars == <<emitted, clock, said, direct, view, forgotten>>

NoCall == "none"

Event(kind, call, by, at) == [kind |-> kind, call |-> call, by |-> by, at |-> at, n |-> said + 1]

-----------------------------------------------------------------------------
(* The reducer.  A row keeps the stamp (at), the place (order) and the     *)
(* number (n) of the event that put it where it is.                        *)

Placed(row, v, e) ==
  [row EXCEPT !.at = e.at, !.order = v.eventCount + 1, !.n = e.n, !.by = e.by]

NoteRow == [at |-> 0, order |-> 0, n |-> 0, by |-> "run"]

MessageRow(role, id, text, streaming) ==
  [role |-> role, id |-> id, text |-> text, streaming |-> streaming,
   at |-> 0, order |-> 0, n |-> 0, by |-> "run"]

ToolRow(id) ==
  [id |-> id, status |-> "running", streams |-> <<>>,
   at |-> 0, order |-> 0, n |-> 0, by |-> "run"]

(* messageId: the run's id, or one made up for a notice.                   *)
MessageId(e) == IF e.by = "run" THEN 0 ELSE e.n

Shown(v, id) == \E i \in DOMAIN v.messages : v.messages[i].role = "assistant" /\ v.messages[i].id = id

Updated(rows, id, Change(_)) ==
  [i \in DOMAIN rows |-> IF rows[i].id = id THEN Change(rows[i]) ELSE rows[i]]

WithDelta_Restarted(text, e) == <<e.n>>

WithDelta(text, e) == Append(text, e.n)

AssistantDelta(v, e) ==
  LET change(m) == Placed([m EXCEPT !.text = WithDelta(@, e), !.streaming = TRUE], v, e)
  IN  IF Shown(v, MessageId(e))
        THEN [v EXCEPT !.messages = Updated(@, MessageId(e), change)]
        ELSE [v EXCEPT !.messages =
                Append(@, Placed(MessageRow("assistant", MessageId(e), <<e.n>>, TRUE), v, e))]

(* A stage other than "complete" leaves an existing row as it is.          *)
AssistantStage(v, e) ==
  IF Shown(v, MessageId(e)) THEN v
  ELSE [v EXCEPT !.messages =
          Append(@, Placed(MessageRow("assistant", MessageId(e), <<>>, TRUE), v, e))]

AssistantDone(v, e) ==
  LET change(m) == [m EXCEPT !.streaming = FALSE]
  IN  [v EXCEPT !.messages = Updated(@, MessageId(e), change)]

(* rows.filter: the rows at the indices that are kept.                     *)
Filtered(rows, kept) ==
  [k \in 1..Cardinality(kept) |->
     rows[CHOOSE i \in kept : Cardinality({j \in kept : j <= i}) = k]]

(* An id used again takes the row of the earlier call away.                *)
ToolStart(v, e) ==
  LET others == {i \in DOMAIN v.tools : v.tools[i].id # e.call}
  IN  [v EXCEPT !.tools = Append(Filtered(@, others), Placed(ToolRow(e.call), v, e))]

ToolEnd(v, e, status) ==
  LET change(t) == [t EXCEPT !.status = status]
  IN  [v EXCEPT !.tools = Updated(@, e.call, change)]

(* Output may come after the call has ended, and does not move the row.    *)
ToolStream(v, e) ==
  LET change(t) == [t EXCEPT !.streams = Append(@, e.n)]
  IN  [v EXCEPT !.tools = Updated(@, e.call, change)]

Cleared(v) == [v EXCEPT !.messages = <<>>, !.tools = <<>>, !.notes = <<>>]

ReducedEvent(v, e) ==
  CASE e.kind = "user"   -> [v EXCEPT !.messages = Append(@, Placed(MessageRow("user", e.n, <<>>, FALSE), v, e))]
    [] e.kind = "stage"  -> AssistantStage(v, e)
    [] e.kind = "delta"  -> AssistantDelta(v, e)
    [] e.kind = "done"   -> AssistantDone(v, e)
    [] e.kind = "start"  -> ToolStart(v, e)
    [] e.kind = "ok"     -> ToolEnd(v, e, "success")
    [] e.kind = "failed" -> ToolEnd(v, e, "error")
    [] e.kind = "stream" -> ToolStream(v, e)
    [] e.kind = "note"   -> [v EXCEPT !.notes = Append(@, Placed(NoteRow, v, e))]
    [] e.kind = "error"  -> [v EXCEPT !.messages = Append(@, Placed(MessageRow("error", e.n, <<>>, FALSE), v, e))]
    [] e.kind = "clear"  -> Cleared(v)

Latest(seq, max) == SubSeq(seq, (IF Len(seq) > max THEN Len(seq) - max ELSE 0) + 1, Len(seq))

Marker == 0    \* "[cli truncated ... chars]"

TruncateText(text) ==
  IF Len(text) <= MaxText THEN text ELSE Append(SubSeq(text, 1, MaxText), Marker)

Compact_MessagesOnly(v) ==
  LET messages == Latest(v.messages, MaxRows)
  IN  [v EXCEPT
        !.messages = [i \in DOMAIN messages |-> [messages[i] EXCEPT !.text = TruncateText(@)]]]

(* compactCliState *)
Compact(v) ==
  LET messages == Latest(v.messages, MaxRows)
      tools    == Latest(v.tools, MaxRows)
  IN  [v EXCEPT
        !.messages = [i \in DOMAIN messages |-> [messages[i] EXCEPT !.text = TruncateText(@)]],
        !.tools = [i \in DOMAIN tools |-> [tools[i] EXCEPT !.streams = Latest(@, MaxText)]],
        !.notes = Latest(@, MaxRows)]

Reduce(v, e) == Compact([ReducedEvent(v, e) EXCEPT !.eventCount = @ + 1])

Before_ByArrival(a, b) == a.order < b.order

(* compareTimelineItems *)
Before(a, b) == a.at < b.at \/ (a.at = b.at /\ a.order < b.order)

(* selectTimelineItems sorts the rows of these lists.                      *)
Lists == {"messages", "tools", "notes"}

-----------------------------------------------------------------------------
(* The run: which events it may publish next, by the order of its calls of *)
(* the observer.  "note" is a change set or a verification; terminal are   *)
(* "done" and "error".  An abandoned tool streams as long as the run lives.*)

Said == {i \in DOMAIN emitted : emitted[i].kind # "stream"}

LastSaid == IF Said = {} THEN Event("none", NoCall, "run", 0) ELSE emitted[Max(Said)]

Terminated == LastSaid.kind \in {"done", "error"}

Started(c) == \E i \in DOMAIN emitted : emitted[i].kind = "start" /\ emitted[i].call = c

MayPublish(kind, call) ==
  \/ /\ call = NoCall
     /\ \/ kind = "user"  /\ LastSaid.kind = "none"
        \/ kind = "stage" /\ LastSaid.kind \in {"user", "ok", "failed", "note"}
        \/ kind = "delta" /\ LastSaid.kind \in {"stage", "delta"}
        \/ kind = "note"  /\ LastSaid.kind \in {"stage", "delta", "ok", "failed", "note"}
        \/ kind = "done"  /\ LastSaid.kind \in {"user", "stage", "delta", "ok", "failed", "note"}
        \/ kind = "error" /\ LastSaid.kind # "none" /\ ~Terminated
  \/ /\ call \in CallIds
     /\ \/ kind = "start" /\ LastSaid.kind \in {"stage", "delta", "ok", "failed"}
        \/ kind \in {"ok", "failed"} /\ LastSaid.kind = "start" /\ LastSaid.call = call
        \/ kind = "stream" /\ Started(call) /\ ~Terminated

Kinds == {"user", "stage", "delta", "note", "done", "error", "start", "ok", "failed", "stream"}

(* Events of the run are a tick apart: within a tick they would arrive in  *)
(* order as well.  The last event within the bound is a terminal one.      *)
Publish ==
  /\ clock' = clock + 1
  /\ said' = said + 1
  /\ \E kind \in Kinds, call \in CallIds \cup {NoCall} :
        /\ MayPublish(kind, call)
        /\ pushed' = MaxEvents => kind \in {"done", "error"}
        /\ emitted' = Append(emitted, Event(kind, call, "run", clock'))

(* The reducer forgets when a row disappears that no later row replaces.   *)
Forgets(e) ==
  \/ e.kind = "clear"
  \/ LET v == ReducedEvent(view, e)
     IN  Len(v.messages) > MaxRows \/ Len(v.tools) > MaxRows \/ Len(v.notes) > MaxRows

Show(e) ==
  /\ view' = Reduce(view, e)
  /\ forgotten' = (forgotten \/ Forgets(e))

-----------------------------------------------------------------------------
ViewInit ==
  /\ Init
  /\ emitted = <<>>
  /\ clock = 1
  /\ said = 0
  /\ direct = 0
  /\ view = [messages |-> <<>>, tools |-> <<>>, notes |-> <<>>, eventCount |-> 0]
  /\ forgotten = FALSE

RunEmits ==
  /\ RunPushes
  /\ Publish
  /\ UNCHANGED <<direct, view, forgotten>>

RunReturns ==
  /\ Terminated
  /\ RunSettles
  /\ UNCHANGED viewVars

(* The first event is published, pushed, received and shown in one step.   *)
FirstEvent ==
  /\ Starts
  /\ \/ /\ pushed' # pushed
        /\ Publish
        /\ Show(Last(emitted'))
        /\ UNCHANGED direct
     \/ /\ pushed' = pushed
        /\ UNCHANGED viewVars

(* The loop of runAgent: emit(event).                                      *)
EventArrives ==
  /\ Continues \/ Wakened
  /\ IF received' = received THEN UNCHANGED <<view, forgotten>>
     ELSE Show(emitted[Last(received')])
  /\ UNCHANGED <<emitted, clock, said, direct>>

ConsumerOnly ==
  /\ Ask \/ GiveUp \/ ClosedUnstarted \/ Abandons
  /\ UNCHANGED viewVars

(* An event of the CLI may fall in the tick of the event before it.        *)
Tick == clock' \in {clock, clock + 1}

EmitError ==
  /\ Tick
  /\ said' = said + 1
  /\ Show(Event("error", NoCall, "cli", clock'))

(* The loop is over; runAgent catches what the stream threw.               *)
LoopEnds ==
  /\ Closes
  /\ IF closedBy = "error" THEN EmitError ELSE UNCHANGED <<clock, said, view, forgotten>>
  /\ UNCHANGED <<emitted, direct>>

(* emitNotice: two events in a row, of which the second places nothing.    *)
EmitNotice ==
  /\ Tick
  /\ said' = said + 1
  /\ LET e == Event("delta", NoCall, "cli", clock')
     IN  /\ view' = Reduce(Reduce(view, e), [e EXCEPT !.kind = "done"])
         /\ forgotten' = (forgotten \/ Forgets(e))

ClearCommand ==
  /\ Tick
  /\ said' = said + 1
  /\ Show(Event("clear", NoCall, "cli", clock'))

CliEmits ==
  /\ direct < MaxDirect
  /\ direct' = direct + 1
  /\ EmitNotice \/ EmitError \/ ClearCommand
  /\ UNCHANGED <<vars, emitted>>

ViewNext ==
  RunEmits \/ RunReturns \/ FirstEvent \/ EventArrives \/ ConsumerOnly \/ LoopEnds \/ CliEmits

ViewSpec == ViewInit /\ [][ViewNext]_<<vars, viewVars>>

-----------------------------------------------------------------------------
(* Properties.                                                             *)

(* The variables have their types, and every list its bound.               *)
ViewTypeOK ==
  /\ TypeOK
  /\ Len(emitted) = pushed
  /\ said \in Nat /\ clock \in 1..(said + 1) /\ direct \in 0..MaxDirect
  /\ \A rows \in {view.messages, view.tools, view.notes} : Len(rows) <= MaxRows
  /\ forgotten \in BOOLEAN

(* The events of the run that the view has seen, by their place.           *)
Seen == 1..Len(received)

NumbersOf(places, kind) == {emitted[i].n : i \in {j \in places : emitted[j].kind = kind}}

(* These numbers, in order and without a gap; the first of them may be     *)
(* missing, or the last.                                                   *)
InOrder(text, numbers, headless, cut) ==
  /\ \A i, j \in DOMAIN text : i < j => text[i] < text[j]
  /\ ToSet(text) \subseteq numbers
  /\ \A n \in numbers \ ToSet(text) :
       \/ headless /\ \A i \in DOMAIN text : n < text[i]
       \/ cut /\ \A i \in DOMAIN text : text[i] < n

(* What is shown of the answer is what was said of it, in order and        *)
(* without a gap, from its beginning unless rows were forgotten, to its    *)
(* end unless it is marked as cut.                                         *)
AnswerShown ==
  \A i \in DOMAIN view.messages :
    LET m    == view.messages[i]
        cut  == Marker \in ToSet(m.text)
        text == IF cut THEN Front(m.text) ELSE m.text
    IN  m.role = "assistant" /\ m.id = 0 =>
          InOrder(text, NumbersOf(Seen, "delta"), forgotten, cut)

(* A tool row shows how the latest call of its id ended, or that it has    *)
(* not, and the latest output since the call began.                        *)
ToolsShown ==
  LET starts(id) == {i \in Seen : emitted[i].kind = "start" /\ emitted[i].call = id}
      since(id)  == {i \in Seen : emitted[i].call = id /\ \A s \in starts(id) : s <= i}
  IN  /\ \A i \in DOMAIN view.tools :
           LET row  == view.tools[i]
               kind == {emitted[j].kind : j \in since(row.id)}
           IN  /\ starts(row.id) # {}
               /\ row.status = IF "ok" \in kind THEN "success"
                               ELSE IF "failed" \in kind THEN "error" ELSE "running"
               /\ Len(row.streams) <= MaxText
               /\ InOrder(row.streams, NumbersOf(since(row.id), "stream"),
                          Len(row.streams) = MaxText, FALSE)
      /\ forgotten \/ \A i \in Seen :
           emitted[i].kind = "start" =>
             \E j \in DOMAIN view.tools : view.tools[j].id = emitted[i].call

(* When the stream of a run is over nothing of it is shown as going on.    *)
(* A run that failed is the exception: nobody ends the row of its answer,  *)
(* or that of a tool whose hook threw.                                     *)
NothingGoesOn ==
  closedBy = "done" /\ emitted[Len(received)].kind # "error" =>
    /\ \A i \in DOMAIN view.messages : ~view.messages[i].streaming
    /\ \A i \in DOMAIN view.tools : view.tools[i].status # "running"

ViewTellsTheRun == AnswerShown /\ ToolsShown /\ NothingGoesOn

(* The timeline is in the order in which things happened, though events of *)
(* the run arrive later than they happened, and no two rows share a place. *)
(* Within one tick of the clock an event of the CLI may come before one of *)
(* the run.                                                                *)
TimelineInOrder ==
  \A l, m \in Lists : \A i \in DOMAIN view[l], j \in DOMAIN view[m] :
    LET a == view[l][i]
        b == view[m][j]
    IN  <<l, i>> # <<m, j>> =>
          /\ Before(a, b) \/ Before(b, a)
          /\ Before(a, b) => a.n < b.n \/ (a.at = b.at /\ a.by # b.by)
===============================================================================
