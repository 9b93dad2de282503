------------------------------ MODULE ReplyTurn ------------------------------
(***************************************************************************)
(* One agent turn in one room: dispatchToAgent (src/src/channel.ts) with    *)
(* its draft stream (src/src/matrix/streaming.ts) and its sends             *)
(* (src/src/matrix/send.ts).                                                *)
(*                                                                         *)
(* The agent streams partial texts and tool items, then hands over final   *)
(* payloads one at a time.  Partials go out as throttled edits of one      *)
(* message; tool items make sure that message exists (the turn anchor) and *)
(* post tool events related to it.  Every send is a network round trip, so *)
(* the throttle timer, the tool items and the final delivery interleave at *)
(* their awaits.  The host (OpenClaw) and the room are external.           *)
(*                                                                         *)
(* Node runs promise continuations before the next timer or socket event:  *)
(* Quiet holds when none is due, and guards every other action.            *)
(***************************************************************************)
EXTENDS Naturals, Sequences, FiniteSets

CONSTANTS
    Tools,         \* toolCallIds the agent uses in this turn
    ItemKinds,     \* the items the host emits for one tool call: those of the
                   \* tool, or those of the tool and of one sub-item
    MaxPartials,   \* bound: partial texts the agent streams
    MaxFinals,     \* bound: final payloads of the turn
    FinalKinds,    \* subset of {"blank", "same", "new"}: what a final may say
    MaxFaults,     \* bound: sends that fail or whose answer is lost
    MaxCalls       \* onItemEvent calls the host leaves running at once: 1 if
                   \* it awaits each before it goes on

ToolItems == {"tool start", "tool end"}
SubItems  == {"command start", "command end"}

ASSUME TurnAssumption ==
    /\ MaxPartials \in Nat /\ MaxFinals \in Nat /\ MaxFaults \in Nat
    /\ FinalKinds \subseteq {"blank", "same", "new"}
    /\ ItemKinds \in {ToolItems, ToolItems \cup SubItems}
    /\ MaxCalls \in Nat \ {0}
    /\ IsFiniteSet(Tools)

\* Texts: nothing, the partials (each extends the one before), the finals that
\* say something new, and the placeholder of an anchor.
NoText      == 0
Partial(k)  == k
NewFinal(i) == MaxPartials + i
Placeholder == MaxPartials + MaxFinals + 1
Texts       == 0..Placeholder

\* The items of a tool come in any order, each end after its start.
Items == Tools \X ItemKinds
IsEnd(kind) == kind \in {"tool end", "command end"}
StartOf(kind) == IF kind = "tool end" THEN "tool start" ELSE "command start"

VARIABLES
    \* MatrixDraftStream
    eventId,      \* the message being edited, 0 for none
    lastSent,     \* lastSentText
    pendingText,
    timer,        \* is the throttle timer armed?
    chain,        \* sendOrEdit calls chained on inFlight and not yet started
    flight,       \* the send the running sendOrEdit awaits, or NoFlight
    disposed,
    \* onToolItem
    call,         \* the onToolItem call of each item
    rec,          \* the tools map: event and status per toolCallId
    mishaps,      \* history, per tool: items that overlapped another of its items,
                  \* and sends of its items that failed or lost their answer
    \* the host (external)
    stage,        \* "run", "finals", "finalizing", "delivered", "disposing",
                  \* "ended", or "failed" when the dispatcher rejected
    partials,     \* partial texts streamed so far
    finals,       \* final payloads handed over so far
    \* the room (external): messages and tool events, by event number
    msgs, toolEvents,
    \* history: the non-blank finals handed over, and was their send answered?
    answers,
    \* counter of the bounded faults
    faults

draftVars == <<eventId, lastSent, pendingText, timer, chain, flight, disposed>>
toolVars  == <<call, rec, mishaps>>
hostVars  == <<stage, partials, finals>>
roomVars  == <<msgs, toolEvents>>
vars == <<draftVars, toolVars, hostVars, roomVars, answers, faults>>

NoFlight == [to |-> 0, text |-> NoText, final |-> FALSE]
Idle     == [at |-> "none", turn |-> 0, event |-> 0, status |-> "running"]
NoRec    == [event |-> 0, status |-> "running"]

Init ==
    /\ eventId = 0 /\ lastSent = NoText /\ pendingText = NoText
    /\ timer = FALSE /\ chain = <<>> /\ flight = NoFlight /\ disposed = FALSE
    /\ call = [i \in Items |-> Idle] /\ rec = [t \in Tools |-> NoRec]
    /\ mishaps = [t \in Tools |-> 0]
    /\ stage = "run" /\ partials = 0 /\ finals = 0
    /\ msgs = <<>> /\ toolEvents = <<>> /\ answers = <<>> /\ faults = 0

\* No promise continuation is due.
Quiet == (chain = <<>> \/ flight # NoFlight) /\ stage # "delivered"

-----------------------------------------------------------------------------
(* The room (external) *)

\* sendText / editText took effect; `pushed` keeps what a push:true write said.
Posted(text, push) ==
    Append(msgs, [text |-> text, pushed |-> IF push THEN text ELSE NoText])
Edited(m, text, push) ==
    [msgs EXCEPT ![m] = [text |-> text, pushed |-> IF push THEN text ELSE @.pushed]]

\* How a send ends: it is answered, never reached the room ("fail"), or did and
\* only its answer is lost.
Outcomes == {"ok"} \cup (IF faults < MaxFaults THEN {"fail", "lost"} ELSE {})
Counted(out) == faults' = IF out = "ok" THEN faults ELSE faults + 1

-----------------------------------------------------------------------------
(* MatrixDraftStream *)

\* update: remember the text and arm the throttle timer.
Update(text) == pendingText' = text /\ timer' = TRUE

\* The throttle timer: flushPending(false).
TimerFires ==
    /\ Quiet /\ timer
    /\ timer' = FALSE
    /\ chain' = Append(chain, FALSE)
    /\ UNCHANGED <<eventId, lastSent, pendingText, flight, disposed, toolVars,
                   hostVars, roomVars, answers, faults>>

\* The continuation of finalize, when its own sendOrEdit ended.
Resumed(final) == IF final THEN "delivered" ELSE stage

\* sendOrEdit begins: nothing to say, or a create or an edit is sent.
StartSendOrEdit ==
    /\ chain # <<>> /\ flight = NoFlight /\ stage # "delivered"
    /\ chain' = Tail(chain)
    /\ IF pendingText = NoText \/ pendingText = lastSent
       THEN stage' = Resumed(Head(chain)) /\ UNCHANGED flight
       ELSE /\ flight' = [to |-> eventId, text |-> pendingText, final |-> Head(chain)]
            /\ UNCHANGED stage
    /\ UNCHANGED <<eventId, lastSent, pendingText, timer, disposed, toolVars,
                   partials, finals, roomVars, answers, faults>>

\* Mutant of SendReturns: the created message's event id is not kept.
SendReturnsForgets ==
    /\ flight # NoFlight /\ stage # "delivered"
    /\ flight' = NoFlight
    /\ \E out \in Outcomes :
           /\ Counted(out)
           /\ msgs' = IF out = "fail" THEN msgs ELSE Posted(flight.text, flight.final)
           /\ lastSent' = IF out = "ok" THEN flight.text ELSE lastSent
    /\ stage' = Resumed(flight.final)
    /\ UNCHANGED <<eventId, pendingText, timer, chain, disposed, toolVars,
                   partials, finals, toolEvents, answers>>

\* Mutant of SendReturns: a send that fails is never settled.
SendReturnsHangs ==
    /\ flight # NoFlight /\ flight.text # NoText /\ stage # "delivered"
    /\ \E out \in Outcomes :
           /\ Counted(out)
           /\ flight' = IF out = "ok" THEN NoFlight ELSE [flight EXCEPT !.text = NoText]
           /\ stage' = IF out = "ok" THEN Resumed(flight.final) ELSE stage
    /\ UNCHANGED <<eventId, lastSent, pendingText, timer, chain, disposed, toolVars,
                   partials, finals, roomVars, answers>>

\* sendOrEdit's await returns.  A send that throws is logged and forgotten.
SendReturns ==
    /\ flight # NoFlight /\ stage # "delivered"
    /\ flight' = NoFlight
    /\ \E out \in Outcomes :
           /\ Counted(out)
           /\ msgs' = IF out = "fail" THEN msgs
                      ELSE IF flight.to = 0 THEN Posted(flight.text, flight.final)
                      ELSE Edited(flight.to, flight.text, flight.final)
           /\ eventId' = IF out = "ok" /\ flight.to = 0 THEN Len(msgs) + 1 ELSE eventId
           /\ lastSent' = IF out = "ok" THEN flight.text ELSE lastSent
    /\ stage' = Resumed(flight.final)
    /\ UNCHANGED <<pendingText, timer, chain, disposed, toolVars,
                   partials, finals, toolEvents, answers>>

\* Mutant of Reset: the next block keeps editing the message of this one.
ResetKeepsEvent ==
    /\ UNCHANGED eventId
    /\ lastSent' = NoText /\ pendingText' = NoText /\ timer' = FALSE

\* reset: the next reply block begins a message of its own.
Reset ==
    /\ eventId' = 0
    /\ lastSent' = NoText /\ pendingText' = NoText /\ timer' = FALSE

-----------------------------------------------------------------------------
(* onToolItem: one call per emitted item; the awaits are at "anchor" (the    *)
(* turn anchor is being sent), "start" (the tool event is being sent) and     *)
(* "end" (its final edit is being sent)                                       *)

InFlight == {i \in Items : call[i].at \in {"anchor", "start", "end"}}

\* Mutant of RecOf: the map is keyed by item id, so a sub-item gets its own.
RecOfItem(t, n) == IF n \in SubItems THEN NoRec ELSE rec[t]

\* The tools map, keyed by toolCallId.
RecOf(t, n) == rec[t]

\* mapToolStatus of what the item's end reports; "running" for a gated command.
EndStatuses(n) == IF n = "tool end" THEN {"done", "failed"} ELSE {"running", "done", "failed"}

\* Mutant of Ended: the edit is built from the status before this end.
EndedStale(r, st) == [event |-> r.event, status |-> r.status]

\* The record after an end reported st; editToolEnd sends this status.
Ended(r, st) == [event |-> r.event, status |-> IF st = "running" THEN r.status ELSE st]

\* The part of onToolItem that follows the lookup of the record r of tool t:
\* an end updates the record and sends the final edit, a start is done.
Proceed(t, n, r) ==
    IF IsEnd(n)
    THEN \E st \in EndStatuses(n) :
             /\ rec' = [rec EXCEPT ![t] = Ended(r, st)]
             /\ call' = [call EXCEPT ![<<t, n>>] =
                    [at |-> "end", turn |-> 0, event |-> r.event,
                     status |-> Ended(r, st).status]]
    ELSE /\ rec' = [rec EXCEPT ![t] = r]
         /\ call' = [call EXCEPT ![<<t, n>>] = [Idle EXCEPT !.at = "done"]]

\* Mutant of SendToolStart: the tool event is not related to the turn.
SendToolStartUnrelated(i, turn) ==
    call' = [call EXCEPT ![i] = [Idle EXCEPT !.at = "start"]]

\* The tool event is sent, related to the message `turn`.
SendToolStart(i, turn) ==
    call' = [call EXCEPT ![i] = [Idle EXCEPT !.at = "start", !.turn = turn]]

\* Is an item of tool t being worked on?
Working(t) == \E i \in InFlight : i[1] = t

\* Of tool t, counted if something went wrong: see `mishaps`.
Mishap(t, wrong) == mishaps' = [mishaps EXCEPT ![t] = IF wrong THEN @ + 1 ELSE @]

\* The host emits item n of tool t.  An unknown tool first needs the turn anchor
\* (ensureAnchor): the message if there is one, otherwise a placeholder.
OnToolItem(t, n) ==
    /\ Quiet /\ stage = "run" /\ call[<<t, n>>].at = "none"
    /\ IsEnd(n) => call[<<t, StartOf(n)>>].at # "none"
    /\ Cardinality(InFlight) < MaxCalls
    /\ Mishap(t, Working(t))
    /\ IF RecOf(t, n) # NoRec THEN Proceed(t, n, RecOf(t, n))
       ELSE /\ IF eventId # 0 THEN SendToolStart(<<t, n>>, eventId)
               ELSE call' = [call EXCEPT ![<<t, n>>] = [Idle EXCEPT !.at = "anchor"]]
            /\ UNCHANGED rec
    /\ UNCHANGED <<draftVars, hostVars, roomVars, answers, faults>>

\* A call gives up: the error is logged.
Abandoned(i) == call' = [call EXCEPT ![i] = [Idle EXCEPT !.at = "done"]]

\* Mutant of SendTurnAnchor: sent with sendText's default push.
SendTurnAnchorPushed == Posted(Placeholder, TRUE)

\* sendTurnAnchor: the placeholder, without push.
SendTurnAnchor == Posted(Placeholder, FALSE)

\* ensureAnchor's await returns: whatever happened to the draft meanwhile, its
\* message is now the placeholder.
AnchorReturns(i) ==
    /\ Quiet /\ call[i].at = "anchor"
    /\ \E out \in Outcomes :
           /\ Counted(out) /\ Mishap(i[1], out # "ok")
           /\ msgs' = IF out = "fail" THEN msgs ELSE SendTurnAnchor
           /\ IF out = "ok"
              THEN /\ eventId' = Len(msgs) + 1 /\ lastSent' = Placeholder
                   /\ SendToolStart(i, Len(msgs) + 1)
              ELSE Abandoned(i) /\ UNCHANGED <<eventId, lastSent>>
    /\ UNCHANGED <<pendingText, timer, chain, flight, disposed, rec,
                   hostVars, toolEvents, answers>>

\* sendToolStart's await returns: the tool gets its record and the call goes on.
ToolStartReturns(i) ==
    /\ Quiet /\ call[i].at = "start"
    /\ \E out \in Outcomes :
           /\ Counted(out) /\ Mishap(i[1], out # "ok")
           /\ toolEvents' = IF out = "fail" THEN toolEvents
                            ELSE Append(toolEvents, [tool |-> i[1],
                                     turn |-> call[i].turn, status |-> "running"])
           /\ IF out = "ok"
              THEN Proceed(i[1], i[2], [NoRec EXCEPT !.event = Len(toolEvents) + 1])
              ELSE Abandoned(i) /\ UNCHANGED rec
    /\ UNCHANGED <<draftVars, hostVars, msgs, answers>>

\* editToolEnd's await returns.
ToolEndReturns(i) ==
    /\ Quiet /\ call[i].at = "end"
    /\ \E out \in Outcomes :
           /\ Counted(out) /\ Mishap(i[1], out # "ok")
           /\ toolEvents' = IF out = "fail" THEN toolEvents
                         ELSE [toolEvents EXCEPT ![call[i].event].status = call[i].status]
    /\ Abandoned(i)
    /\ UNCHANGED <<draftVars, rec, hostVars, msgs, answers>>

-----------------------------------------------------------------------------
(* The host's callbacks *)

\* onPartialReply.
OnPartialReply ==
    /\ Quiet /\ stage = "run" /\ partials < MaxPartials
    /\ partials' = partials + 1
    /\ Update(Partial(partials + 1))
    /\ UNCHANGED <<eventId, lastSent, chain, flight, disposed, toolVars, stage,
                   finals, roomVars, answers, faults>>

\* The dispatcher rejects: dispatchToAgent ends there, its draft not disposed of.
DispatchRejects ==
    /\ Quiet /\ stage \in {"run", "finals"}
    /\ stage' = "failed"
    /\ UNCHANGED <<draftVars, toolVars, partials, finals, roomVars, answers,
                   faults>>

\* The run is over; a host that awaits its item callbacks has awaited them all.
RunEnds ==
    /\ Quiet /\ stage = "run"
    /\ \A t \in Tools : \A n, m \in ItemKinds :
           call[<<t, n>>].at # "none" => call[<<t, m>>].at # "none"
    /\ MaxCalls = 1 => InFlight = {}
    /\ stage' = "finals"
    /\ UNCHANGED <<draftVars, toolVars, partials, finals, roomVars, answers,
                   faults>>

\* What the i-th final may say.
FinalTexts(i) ==
    {x \in Texts : \/ "blank" \in FinalKinds /\ x = NoText
                   \/ "same" \in FinalKinds /\ i = 1 /\ partials > 0 /\ x = Partial(partials)
                   \/ "new" \in FinalKinds /\ x = NewFinal(i)}

\* deliver of a final that says something: finalize flushes it without delay.
DeliverText ==
    /\ Quiet /\ stage = "finals" /\ finals < MaxFinals
    /\ finals' = finals + 1
    /\ pendingText' \in FinalTexts(finals + 1) \ {NoText}
    /\ timer' = FALSE
    /\ chain' = Append(chain, TRUE)
    /\ stage' = "finalizing"
    /\ UNCHANGED <<eventId, lastSent, flight, disposed, toolVars,
                   partials, roomVars, answers, faults>>

\* deliver of a final without text (media only): nothing is flushed.
DeliverBlank ==
    /\ Quiet /\ stage = "finals" /\ finals < MaxFinals
    /\ NoText \in FinalTexts(finals + 1)
    /\ finals' = finals + 1
    /\ Reset
    /\ UNCHANGED <<chain, flight, disposed, toolVars, stage, partials, roomVars,
                   answers, faults>>

\* deliver goes on after finalize.
FinalizeReturns ==
    /\ stage = "delivered"
    /\ stage' = "finals"
    /\ answers' = Append(answers, [text |-> pendingText, sent |-> lastSent = pendingText])
    /\ Reset
    /\ UNCHANGED <<chain, flight, disposed, toolVars, partials, finals, roomVars,
                   faults>>

\* The dispatcher resolves: dispose drops the timer and drains the sends.
DispatchReturns ==
    /\ Quiet /\ stage = "finals"
    /\ stage' = "disposing"
    /\ disposed' = TRUE /\ timer' = FALSE
    /\ UNCHANGED <<eventId, lastSent, pendingText, chain, flight, toolVars,
                   partials, finals, roomVars, answers, faults>>

\* The end of dispatchToAgent, or not quite: an item nobody awaits may go on.
DisposeReturns ==
    /\ stage = "disposing" /\ chain = <<>> /\ flight = NoFlight
    /\ stage' = "ended"
    /\ UNCHANGED <<draftVars, toolVars, partials, finals, roomVars, answers, faults>>

-----------------------------------------------------------------------------
Next ==
    \/ TimerFires \/ StartSendOrEdit \/ SendReturns
    \/ \E t \in Tools, n \in ItemKinds : OnToolItem(t, n)
    \/ \E i \in Items : AnchorReturns(i) \/ ToolStartReturns(i) \/ ToolEndReturns(i)
    \/ OnPartialReply \/ RunEnds \/ DispatchRejects
    \/ DeliverText \/ DeliverBlank \/ FinalizeReturns
    \/ DispatchReturns \/ DisposeReturns

Spec == Init /\ [][Next]_vars

\* Continuations run, and every send settles: answered, timed out after 30s or
\* rejected when the socket is lost.  The host owes nothing.
Fairness ==
    /\ WF_vars(StartSendOrEdit) /\ WF_vars(SendReturns)
    /\ WF_vars(FinalizeReturns) /\ WF_vars(DisposeReturns)

FairSpec == Spec /\ Fairness

-----------------------------------------------------------------------------
(* Properties *)

TypeOK ==
    /\ eventId \in 0..Len(msgs)
    /\ lastSent \in Texts /\ pendingText \in Texts
    /\ timer \in BOOLEAN /\ disposed \in BOOLEAN
    /\ chain \in Seq(BOOLEAN)
    /\ flight \in [to : 0..Len(msgs), text : Texts, final : BOOLEAN]
    /\ \A t \in Tools : mishaps[t] \in Nat /\ rec[t].event \in 0..Len(toolEvents)
    /\ \A i \in Items : call[i].at \in {"none", "anchor", "start", "end", "done"}
    /\ \A m \in DOMAIN msgs : msgs[m].text \in Texts /\ msgs[m].pushed \in Texts
    /\ \A m \in DOMAIN toolEvents : toolEvents[m].turn \in 1..Len(msgs)
    /\ faults \in 0..MaxFaults
    /\ stage \in {"run", "finals", "finalizing", "delivered", "disposing", "ended",
                 "failed"}

AnswerTexts == {answers[i].text : i \in DOMAIN answers}

\* Every final whose send was answered stays readable: no edit, late anchor or
\* later block ever overwrites it.
AnswersShown ==
    \A i \in DOMAIN answers :
        answers[i].sent => \E m \in DOMAIN msgs : msgs[m].text = answers[i].text

\* The user is woken for final texts only, never for a partial or a placeholder.
PushOnlyFinals ==
    \A m \in DOMAIN msgs :
        msgs[m].pushed \in {NoText} \cup AnswerTexts
                           \cup (IF stage \in {"finalizing", "delivered"}
                                 THEN {pendingText} ELSE {})

\* A turn without tools whose sends were all answered and that ended with all
\* its finals delivered leaves one message for each of them, and nothing else,
\* whatever the throttle timer does: no second anchor, no abandoned partial.
OnlyAnswersLeft ==
    /\ stage = "ended" /\ answers # <<>> /\ Len(answers) = finals /\ faults = 0
    /\ \A i \in Items : call[i].at = "none"
    =>  /\ \A m \in DOMAIN msgs : msgs[m].text \in AnswerTexts
        /\ Len(msgs) = Len(answers)

\* Events in the room for tool t.
EventsOf(t) == {m \in DOMAIN toolEvents : toolEvents[m].tool = t}

\* A tool call is one event in the room: each further event has a mishap of the
\* same tool to itself, an item that overlapped another or a send that failed.
OneEventButForMishaps ==
    \A t \in Tools : Cardinality(EventsOf(t)) <= 1 + mishaps[t]

\* When the turn is over and no item of a tool is under way, its event shows how
\* it ended, in whatever order its items came, unless the tool had a mishap.
SettledButForMishaps ==
    stage = "ended" => \A t \in Tools :
        mishaps[t] = 0 /\ ~Working(t) =>
            \A m \in EventsOf(t) : toolEvents[m].status # "running"

\* A final delivery and the end of the turn always get through their sends.
TurnDrains == stage \in {"finalizing", "disposing"} ~> stage \in {"finals", "ended"}
=============================================================================
