--------------------------- MODULE ReplyTurnProofs ---------------------------
(***************************************************************************)
(* Proofs about ReplyTurn, for any tools, texts, finals, number of faults   *)
(* and number of item callbacks running at once:                           *)
(*   - TypeCorrect: Spec => []TypeOK                                       *)
(*   - OnlyFinalsPush: Spec => []PushOnlyFinals                            *)
(*   - AnswersStay: Spec => []AnswersShown                                 *)
(*   - OneEventPerTool: Spec => []OneEventButForMishaps                    *)
(*   - ToolsShownDone: Spec => []SettledButForMishaps                      *)
(*   - NothingElseLeft: Spec => []OnlyAnswersLeft                          *)
(***************************************************************************)
EXTENDS ReplyTurn, FiniteSetTheorems, SequenceTheorems, TLAPS

-----------------------------------------------------------------------------
(* The inductive invariant *)

ToolStates == {"running", "done", "failed"}
Phases == {"none", "anchor", "start", "end", "done"}

\* The sequences and functions TypeOK speaks about member by member.
DataOK ==
    /\ msgs \in Seq([text : Texts, pushed : Texts])
    /\ toolEvents \in Seq([tool : Tools, turn : Nat, status : ToolStates])
    /\ answers \in Seq([text : Texts, sent : BOOLEAN])
    /\ mishaps \in [Tools -> Nat]
    /\ call \in [Items -> [at : Phases, turn : Nat, event : Nat, status : ToolStates]]
    /\ rec \in [Tools -> [event : Nat, status : ToolStates]]
    /\ partials \in 0..MaxPartials /\ finals \in 0..MaxFinals

\* A message a tool event is being related to exists.
TurnInv == \A i \in Items : call[i].at = "start" => call[i].turn \in 1..Len(msgs)

\* While a final is being flushed, its sendOrEdit is the last of the chain, or
\* the running one; otherwise no sendOrEdit is a final one.
ChainInv ==
    /\ stage = "finalizing" =>
           IF flight.final THEN chain = <<>>
           ELSE /\ chain # <<>> /\ chain[Len(chain)]
                /\ \A n \in 1..(Len(chain) - 1) : ~chain[n]
    /\ stage # "finalizing" => ~flight.final /\ \A n \in 1..Len(chain) : ~chain[n]
    /\ stage = "delivered" => chain = <<>> /\ flight = NoFlight
    /\ stage \in {"finalizing", "delivered"} =>
           ~timer /\ pendingText \notin {NoText, Placeholder}
    /\ flight # NoFlight => flight.text # NoText
    /\ flight.final => flight.text = pendingText

Flushing == stage \in {"finalizing", "delivered"}

\* Texts are said in the order of their numbers: a partial after those it
\* extends, a final after all partials.
OrderInv ==
    /\ ~Flushing => /\ pendingText \in {NoText, Partial(partials)}
                    /\ stage = "run" \/ finals = 0 => pendingText = Partial(partials)
                    /\ flight.text <= partials
                    /\ lastSent <= partials \/ lastSent = Placeholder
    /\ lastSent \notin {NoText, Placeholder} =>
           /\ lastSent <= pendingText \/ pendingText = NoText
           /\ flight # NoFlight => lastSent < flight.text /\ flight.text <= pendingText
    /\ flight # NoFlight => flight.text <= pendingText \/ pendingText = NoText

Shown(x) == \E m \in DOMAIN msgs : msgs[m].text = x

\* What was answered as sent is in the room, unless a later text is under way
\* whose edit may have replaced it.
ShownInv == lastSent \notin {NoText, Placeholder} => Shown(lastSent) \/ lastSent < pendingText

\* The message of a final whose send was answered is edited no more.
KeptInv ==
    \A i \in DOMAIN answers :
        answers[i].sent => \E m \in DOMAIN msgs :
            msgs[m].text = answers[i].text /\ m # eventId /\ m # flight.to

\* The phases of a call under way, and the items of t whose call may yet post an
\* event.
Going == {"anchor", "start", "end"}
Posting(t) == {n \in ItemKinds : call[<<t, n>>].at \in {"anchor", "start"}}

\* Each event of a tool, and each call that may yet post one, but for one of
\* them has its mishap; without a record and such a call, all of them have.
PaidFor(t) ==
    /\ Cardinality(EventsOf(t)) + Cardinality(Posting(t)) <= 1 + mishaps[t]
    /\ rec[t] = NoRec /\ Posting(t) = {} => Cardinality(EventsOf(t)) <= mishaps[t]

\* A record names an event of its own tool, and so does a call that edits one;
\* a tool with an event has had an item.
OwnFor(t) ==
    /\ rec[t] # NoRec => rec[t].event \in EventsOf(t)
    /\ \A n \in ItemKinds :
           call[<<t, n>>].at = "end" => call[<<t, n>>].event \in EventsOf(t)
    /\ EventsOf(t) # {} => \E n \in ItemKinds : call[<<t, n>>].at # "none"

\* The items of a tool without mishaps are worked on one after another: its event
\* shows what its record says, unless the edit is on its way.
Clean(t) ==
    /\ \A n, m \in ItemKinds :
           call[<<t, n>>].at \in Going /\ call[<<t, m>>].at \in Going => n = m
    /\ Posting(t) # {} => rec[t] = NoRec /\ EventsOf(t) = {}
    /\ \A m \in EventsOf(t) :
           /\ rec[t].event = m
           /\ \/ toolEvents[m].status = rec[t].status
              \/ \E n \in ItemKinds : call[<<t, n>>].at = "end"
    /\ \A n \in ItemKinds :
           /\ call[<<t, n>>].at = "end" => /\ call[<<t, n>>].event = rec[t].event
                                           /\ call[<<t, n>>].status = rec[t].status
           /\ n = "tool end" /\ call[<<t, n>>].at \in {"end", "done"} =>
                  rec[t].status # "running"

CleanFor(t) == mishaps[t] = 0 => Clean(t)

ToolInv == \A t \in Tools : PaidFor(t) /\ OwnFor(t) /\ CleanFor(t)

\* Once the run is over, a tool has had all its items or none.
EmittedInv ==
    stage \notin {"run", "failed"} =>
        \A t \in Tools : \A n, m \in ItemKinds :
            call[<<t, n>>].at # "none" => call[<<t, m>>].at # "none"

\* A turn without tools, all of whose finals said something so far.
Plain ==
    /\ faults = 0
    /\ \A i \in Items : call[i].at = "none"
    /\ finals = IF Flushing THEN Len(answers) + 1 ELSE Len(answers)

\* Such a turn has one message per answer, and the one being edited.
PlainRoom ==
    /\ Len(msgs) = IF eventId = 0 THEN Len(answers) ELSE Len(answers) + 1
    /\ \A m \in 1..Len(msgs) :
           IF m = eventId THEN msgs[m].text = lastSent ELSE msgs[m].text \in AnswerTexts
    /\ eventId = 0 => lastSent = NoText

\* Its draft has nothing left to say once the first final is answered.
PlainDraft ==
    /\ flight # NoFlight => flight.to = eventId
    /\ finals > 0 /\ ~Flushing =>
           /\ eventId = 0 /\ chain = <<>> /\ flight = NoFlight
           /\ ~timer /\ pendingText = NoText
    /\ stage = "delivered" => lastSent = pendingText

PlainInv == Plain => PlainRoom /\ PlainDraft

\* No final comes before the run is over, and none is answered for twice.
FinalsInv ==
    /\ stage = "run" => finals = 0
    /\ (IF Flushing THEN Len(answers) + 1 ELSE Len(answers)) <= finals

IInv ==
    /\ TypeOK /\ DataOK /\ TurnInv /\ ChainInv /\ PushOnlyFinals
    /\ OrderInv /\ ShownInv /\ KeptInv
    /\ ToolInv /\ EmittedInv /\ FinalsInv /\ PlainInv

-----------------------------------------------------------------------------
(* Texts, items and sequences *)

Message == [text : Texts, pushed : Texts]
ToolEvent == [tool : Tools, turn : Nat, status : ToolStates]
Answer == [text : Texts, sent : BOOLEAN]

LEMMA TextFacts ==
    /\ NoText = 0 /\ NoText \in Texts /\ Placeholder \in Texts /\ Placeholder # NoText
    /\ Placeholder \in Nat /\ Texts \subseteq Nat
    /\ \A k \in 0..MaxPartials : Partial(k) = k /\ k \in Texts /\ k < Placeholder
    /\ \A x \in Texts : x <= Placeholder
BY TurnAssumption DEF NoText, Texts, Placeholder, Partial

\* What a final says: the partials again, if it is the first, or a text that
\* follows every partial.
LEMMA FinalFacts ==
    ASSUME DataOK, finals < MaxFinals, NEW x \in FinalTexts(finals + 1) \ {NoText}
    PROVE  /\ x \in Texts /\ x # Placeholder /\ x \in Nat
           /\ \/ finals = 0 /\ x = partials
              \/ x > MaxPartials
<1>1. finals \in Nat /\ partials \in 0..MaxPartials /\ MaxPartials \in Nat /\ MaxFinals \in Nat
  BY TurnAssumption DEF DataOK
<1>2. \/ finals + 1 = 1 /\ x = partials
      \/ x = MaxPartials + (finals + 1)
  BY DEF FinalTexts, NewFinal, Partial
<1>3. x \in Texts /\ x \in Nat
  BY <1>1, <1>2, TextFacts DEF FinalTexts
<1> QED BY <1>1, <1>2, <1>3 DEF Placeholder

LEMMA ItemFacts ==
    /\ \A t \in Tools, n \in ItemKinds : <<t, n>> \in Items
    /\ \A i \in Items : i[1] \in Tools /\ i[2] \in ItemKinds /\ i = <<i[1], i[2]>>
BY DEF Items

LEMMA PostedFacts ==
    ASSUME DataOK, NEW x \in Texts, NEW push \in BOOLEAN
    PROVE  /\ Posted(x, push) \in Seq(Message)
           /\ Len(msgs) \in Nat /\ Len(Posted(x, push)) = Len(msgs) + 1
           /\ \A m \in 1..Len(msgs) : Posted(x, push)[m] = msgs[m]
           /\ Posted(x, push)[Len(msgs) + 1]
                  = [text |-> x, pushed |-> IF push THEN x ELSE NoText]
<1> DEFINE r == [text |-> x, pushed |-> IF push THEN x ELSE NoText]
<1>1. r \in Message
  BY TextFacts DEF Message
<1>2. msgs \in Seq(Message) /\ Len(msgs) \in Nat
  BY LenProperties DEF DataOK, Message
<1> HIDE DEF r
<1>3. /\ Append(msgs, r) \in Seq(Message) /\ Len(Append(msgs, r)) = Len(msgs) + 1
      /\ \A m \in 1..Len(msgs) : Append(msgs, r)[m] = msgs[m]
      /\ Append(msgs, r)[Len(msgs) + 1] = r
  BY <1>1, <1>2, AppendProperties
<1> QED BY <1>2, <1>3 DEF Posted, r

\* The placeholder, sent without push.
Anchored == Posted(Placeholder, FALSE)

LEMMA AnchoredFacts ==
    ASSUME DataOK
    PROVE  /\ Anchored \in Seq(Message)
           /\ Len(msgs) \in Nat /\ Len(Anchored) = Len(msgs) + 1
           /\ \A m \in 1..Len(msgs) : Anchored[m] = msgs[m]
           /\ Anchored[Len(msgs) + 1].text = Placeholder
           /\ Anchored[Len(msgs) + 1].pushed = NoText
<1>1. PICK x \in Texts, b \in BOOLEAN : x = Placeholder /\ b = FALSE
  BY TextFacts
<1>2. /\ Posted(x, b) \in Seq(Message)
      /\ Len(msgs) \in Nat /\ Len(Posted(x, b)) = Len(msgs) + 1
      /\ \A m \in 1..Len(msgs) : Posted(x, b)[m] = msgs[m]
      /\ Posted(x, b)[Len(msgs) + 1] = [text |-> x, pushed |-> IF b THEN x ELSE NoText]
  BY PostedFacts
<1>3. Anchored = Posted(x, b)
  BY <1>1 DEF Anchored
<1>4. /\ Posted(x, b)[Len(msgs) + 1].text = x
      /\ Posted(x, b)[Len(msgs) + 1].pushed = NoText
  BY <1>1, <1>2
<1> QED BY <1>1, <1>2, <1>3, <1>4

LEMMA EditedFacts ==
    ASSUME DataOK, NEW e \in 1..Len(msgs), NEW x \in Texts, NEW push \in BOOLEAN
    PROVE  /\ Edited(e, x, push) \in Seq(Message)
           /\ Len(msgs) \in Nat /\ Len(Edited(e, x, push)) = Len(msgs)
           /\ \A m \in 1..Len(msgs) : Edited(e, x, push)[m] =
                  IF m = e THEN [text |-> x, pushed |-> IF push THEN x ELSE msgs[e].pushed]
                  ELSE msgs[m]
<1> DEFINE r == [text |-> x, pushed |-> IF push THEN x ELSE msgs[e].pushed]
<1>1. msgs \in Seq(Message) /\ Len(msgs) \in Nat /\ msgs[e] \in Message
  BY LenProperties, ElementOfSeq DEF DataOK, Message
<1>2. r \in Message
  BY <1>1 DEF Message
<1> HIDE DEF r
<1>3. /\ [msgs EXCEPT ![e] = r] \in Seq(Message) /\ Len([msgs EXCEPT ![e] = r]) = Len(msgs)
      /\ \A m \in 1..Len(msgs) : [msgs EXCEPT ![e] = r][m] = IF m = e THEN r ELSE msgs[m]
  BY <1>1, <1>2, ExceptSeq
<1> QED BY <1>1, <1>3 DEF Edited, r

\* The tool events with one more, and with one settled.
Added(t, u) == Append(toolEvents, [tool |-> t, turn |-> u, status |-> "running"])
Settle(e, st) == [toolEvents EXCEPT ![e].status = st]

LEMMA EventAdded ==
    ASSUME DataOK, NEW t \in Tools, NEW u \in Nat
    PROVE  /\ Added(t, u) \in Seq(ToolEvent)
           /\ Len(toolEvents) \in Nat /\ Len(Added(t, u)) = Len(toolEvents) + 1
           /\ \A m \in 1..Len(toolEvents) : Added(t, u)[m] = toolEvents[m]
           /\ Added(t, u)[Len(toolEvents) + 1]
                  = [tool |-> t, turn |-> u, status |-> "running"]
<1> DEFINE r == [tool |-> t, turn |-> u, status |-> "running"]
<1>1. r \in ToolEvent
  BY DEF ToolEvent, ToolStates
<1>2. toolEvents \in Seq(ToolEvent) /\ Len(toolEvents) \in Nat
  BY LenProperties DEF DataOK, ToolEvent
<1> HIDE DEF r
<1>3. /\ Append(toolEvents, r) \in Seq(ToolEvent)
      /\ Len(Append(toolEvents, r)) = Len(toolEvents) + 1
      /\ \A m \in 1..Len(toolEvents) : Append(toolEvents, r)[m] = toolEvents[m]
      /\ Append(toolEvents, r)[Len(toolEvents) + 1] = r
  BY <1>1, <1>2, AppendProperties
<1> QED BY <1>2, <1>3 DEF r, Added

LEMMA EventSettled ==
    ASSUME DataOK, NEW e, NEW st \in ToolStates
    PROVE  /\ Settle(e, st) \in Seq(ToolEvent)
           /\ Len(toolEvents) \in Nat /\ Len(Settle(e, st)) = Len(toolEvents)
           /\ \A m \in 1..Len(toolEvents) :
                  /\ Settle(e, st)[m].tool = toolEvents[m].tool
                  /\ Settle(e, st)[m].turn = toolEvents[m].turn
                  /\ Settle(e, st)[m].status = IF m = e THEN st ELSE toolEvents[m].status
<1> DEFINE r == [toolEvents[e] EXCEPT !.status = st]
           s == [toolEvents EXCEPT ![e] = r]
<1>1. toolEvents \in Seq(ToolEvent) /\ Len(toolEvents) \in Nat
  BY LenProperties DEF DataOK, ToolEvent
<1>2. CASE e \in 1..Len(toolEvents)
  <2>1. toolEvents[e] \in ToolEvent
    BY <1>1, <1>2, ElementOfSeq
  <2>2. /\ r \in ToolEvent /\ r.status = st
        /\ r.tool = toolEvents[e].tool /\ r.turn = toolEvents[e].turn
    BY <2>1 DEF ToolEvent
  <2> HIDE DEF r
  <2>3. /\ s \in Seq(ToolEvent) /\ Len(s) = Len(toolEvents)
        /\ \A m \in 1..Len(toolEvents) : s[m] = IF m = e THEN r ELSE toolEvents[m]
    BY <1>1, <1>2, <2>2, ExceptSeq
  <2> HIDE DEF s
  <2>4. ASSUME NEW m \in 1..Len(toolEvents)
        PROVE  /\ s[m].tool = toolEvents[m].tool /\ s[m].turn = toolEvents[m].turn
               /\ s[m].status = IF m = e THEN st ELSE toolEvents[m].status
    BY <2>2, <2>3
  <2> QED BY <1>1, <2>3, <2>4 DEF s, r, Settle
<1>3. CASE e \notin 1..Len(toolEvents)
  <2>1. s = toolEvents
    BY <1>1, <1>3, LenProperties
  <2> HIDE DEF r, s
  <2>2. /\ s \in Seq(ToolEvent) /\ Len(s) = Len(toolEvents)
        /\ \A m \in 1..Len(toolEvents) :
               /\ s[m].tool = toolEvents[m].tool /\ s[m].turn = toolEvents[m].turn
               /\ s[m].status = IF m = e THEN st ELSE toolEvents[m].status
    BY <1>1, <1>3, <2>1
  <2> QED BY <1>1, <2>2 DEF s, r, Settle
<1> QED BY <1>2, <1>3

-----------------------------------------------------------------------------
(* What a step does to the calls of onToolItem *)

CallRec == [at : Phases, turn : Nat, event : Nat, status : ToolStates]
ToolRec == [event : Nat, status : ToolStates]

\* The call c of item n, whose tool's record became q.
Proceeds(c, n, q) ==
    IF IsEnd(n) THEN /\ c.at = "end" /\ c.event = q.event /\ c.status = q.status
                     /\ n = "tool end" => q.status # "running"
    ELSE c.at = "done"

\* The record q that item n made of the record r.
Follows(q, n, r) ==
    /\ q.event = r.event
    /\ q = r \/ (IsEnd(n) /\ q.status # "running")

LEMMA ProceedFacts ==
    ASSUME DataOK, NEW t \in Tools, NEW n \in ItemKinds, NEW r \in ToolRec, Proceed(t, n, r)
    PROVE  \E c \in CallRec, q \in ToolRec :
               /\ call' = [call EXCEPT ![<<t, n>>] = c] /\ Proceeds(c, n, q)
               /\ rec' = [rec EXCEPT ![t] = q] /\ Follows(q, n, r)
<1>1. CASE IsEnd(n)
  <2>1. PICK st \in EndStatuses(n) :
            /\ rec' = [rec EXCEPT ![t] = Ended(r, st)]
            /\ call' = [call EXCEPT ![<<t, n>>] =
                   [at |-> "end", turn |-> 0, event |-> r.event, status |-> Ended(r, st).status]]
    BY <1>1 DEF Proceed
  <2> DEFINE q == Ended(r, st)
             c == [at |-> "end", turn |-> 0, event |-> r.event, status |-> Ended(r, st).status]
  <2>2. /\ q \in ToolRec /\ q.event = r.event
        /\ st \in ToolStates /\ (n = "tool end" => q.status # "running")
    BY DEF Ended, EndStatuses, ToolRec, ToolStates
  <2>3. q = r \/ q.status # "running"
    BY DEF Ended, ToolRec
  <2>4. c \in CallRec /\ c.at = "end" /\ c.event = q.event /\ c.status = q.status
    BY <2>2 DEF CallRec, ToolRec, Phases
  <2> HIDE DEF q, c
  <2>5. call' = [call EXCEPT ![<<t, n>>] = c] /\ rec' = [rec EXCEPT ![t] = q]
    BY <2>1 DEF q, c
  <2>6. Proceeds(c, n, q) /\ Follows(q, n, r)
    BY <1>1, <2>2, <2>3, <2>4 DEF Proceeds, Follows
  <2> QED BY <2>2, <2>4, <2>5, <2>6
<1>2. CASE ~IsEnd(n)
  <2> DEFINE c == [Idle EXCEPT !.at = "done"]
  <2>1. c \in CallRec /\ Proceeds(c, n, r) /\ Follows(r, n, r)
    BY <1>2 DEF Idle, CallRec, Phases, ToolStates, Proceeds, Follows
  <2>2. rec' = [rec EXCEPT ![t] = r] /\ call' = [call EXCEPT ![<<t, n>>] = c]
    BY <1>2 DEF Proceed
  <2> QED BY <2>1, <2>2
<1> QED BY <1>1, <1>2

LEMMA StartedFacts ==
    ASSUME NEW i \in Items, NEW u \in Nat, SendToolStart(i, u)
    PROVE  \E c \in CallRec :
               c.at = "start" /\ c.turn = u /\ call' = [call EXCEPT ![i] = c]
<1> DEFINE c == [Idle EXCEPT !.at = "start", !.turn = u]
<1>1. c = [at |-> "start", turn |-> u, event |-> 0, status |-> "running"]
  <2>1. [Idle EXCEPT !.at = "start"]
            = [at |-> "start", turn |-> 0, event |-> 0, status |-> "running"]
    BY DEF Idle
  <2>2. [[at |-> "start", turn |-> 0, event |-> 0, status |-> "running"] EXCEPT !.turn = u]
            = [at |-> "start", turn |-> u, event |-> 0, status |-> "running"]
    OBVIOUS
  <2> QED BY <2>1, <2>2
<1> HIDE DEF c
<1>2. c \in CallRec /\ c.at = "start" /\ c.turn = u
  BY <1>1 DEF CallRec, Phases, ToolStates
<1> QED BY <1>2 DEF SendToolStart, c

\* Item n of t goes on with the record r and leaves the call c.
GoesOn(t, n, r, c) ==
    \E q \in ToolRec :
        rec' = [rec EXCEPT ![t] = q] /\ Follows(q, n, r) /\ Proceeds(c, n, q)

\* What onToolItem and its awaits do, with the call they leave.
ItemEmitted(t, n, c) ==
    /\ stage = "run" /\ call[<<t, n>>].at = "none"
    /\ call' = [call EXCEPT ![<<t, n>>] = c]
    /\ mishaps' = [mishaps EXCEPT ![t] = IF Working(t) THEN @ + 1 ELSE @]
    /\ \/ rec[t] # NoRec /\ GoesOn(t, n, rec[t], c)
       \/ /\ rec[t] = NoRec /\ rec' = rec
          /\ \/ c.at = "start" /\ eventId # 0 /\ c.turn = eventId
             \/ c.at = "anchor"
    /\ UNCHANGED <<draftVars, hostVars, roomVars, answers, faults>>

\* A send failed or its answer was lost: the fault, and the mishap of the tool.
Missed(t) == faults' # 0 /\ mishaps' = [mishaps EXCEPT ![t] = @ + 1]

AnchorSent(i, c) ==
    /\ call[i].at = "anchor" /\ call' = [call EXCEPT ![i] = c]
    /\ \/ /\ c.at = "start" /\ c.turn = Len(msgs) + 1
          /\ msgs' = Anchored
          /\ eventId' = Len(msgs) + 1 /\ lastSent' = Placeholder
          /\ mishaps' = mishaps
       \/ /\ c.at = "done" /\ Missed(i[1])
          /\ msgs' = msgs \/ msgs' = Anchored
          /\ UNCHANGED <<eventId, lastSent>>
    /\ UNCHANGED <<pendingText, timer, chain, flight, disposed, rec,
                   hostVars, toolEvents, answers>>

StartSent(i, c) ==
    /\ call[i].at = "start" /\ call' = [call EXCEPT ![i] = c]
    /\ \/ /\ toolEvents' = Added(i[1], call[i].turn)
          /\ mishaps' = mishaps
          /\ \E r \in ToolRec : /\ r.event = Len(toolEvents) + 1 /\ r.status = "running"
                                /\ GoesOn(i[1], i[2], r, c)
       \/ /\ c.at = "done" /\ Missed(i[1])
          /\ toolEvents' = toolEvents \/ toolEvents' = Added(i[1], call[i].turn)
          /\ UNCHANGED rec
    /\ UNCHANGED <<draftVars, hostVars, msgs, answers>>

EndSent(i, c) ==
    /\ call[i].at = "end" /\ call' = [call EXCEPT ![i] = c] /\ c.at = "done"
    /\ \/ toolEvents' = Settle(call[i].event, call[i].status) /\ mishaps' = mishaps
       \/ /\ toolEvents' = toolEvents \/ toolEvents' = Settle(call[i].event, call[i].status)
          /\ Missed(i[1])
    /\ UNCHANGED <<draftVars, rec, hostVars, msgs, answers>>

LEMMA OutcomeFacts ==
    ASSUME TypeOK, NEW out \in Outcomes, Counted(out)
    PROVE  \/ out = "ok" /\ faults' = faults
           \/ out \in {"fail", "lost"} /\ faults' # 0
<1>1. faults \in Nat
  BY TurnAssumption DEF TypeOK
<1> QED BY <1>1 DEF Outcomes, Counted

LEMMA MishapFacts ==
    ASSUME DataOK, NEW t \in Tools, NEW out, Mishap(t, out # "ok")
    PROVE  IF out = "ok" THEN mishaps' = mishaps
           ELSE mishaps' = [mishaps EXCEPT ![t] = @ + 1]
<1>1. mishaps = [mishaps EXCEPT ![t] = @]
  BY DEF DataOK
<1> QED BY <1>1 DEF Mishap

LEMMA AbandonedFacts ==
    ASSUME NEW i \in Items, Abandoned(i)
    PROVE  \E c \in CallRec : c.at = "done" /\ call' = [call EXCEPT ![i] = c]
<1>1. [Idle EXCEPT !.at = "done"] \in CallRec /\ [Idle EXCEPT !.at = "done"].at = "done"
  BY DEF Idle, CallRec, Phases, ToolStates
<1> QED BY <1>1 DEF Abandoned

LEMMA EmittedFacts ==
    ASSUME TypeOK, DataOK, NEW t \in Tools, NEW n \in ItemKinds, OnToolItem(t, n)
    PROVE  \E c \in CallRec : ItemEmitted(t, n, c)
<1>1. /\ stage = "run" /\ call[<<t, n>>].at = "none"
      /\ mishaps' = [mishaps EXCEPT ![t] = IF Working(t) THEN @ + 1 ELSE @]
      /\ UNCHANGED <<draftVars, hostVars, roomVars, answers, faults>>
  BY DEF OnToolItem, Mishap
<1>2. CASE rec[t] # NoRec
  <2>1. rec[t] \in ToolRec /\ Proceed(t, n, rec[t])
    BY <1>2 DEF OnToolItem, RecOf, DataOK, ToolRec
  <2>2. PICK c \in CallRec, q \in ToolRec :
            /\ call' = [call EXCEPT ![<<t, n>>] = c] /\ Proceeds(c, n, q)
            /\ rec' = [rec EXCEPT ![t] = q] /\ Follows(q, n, rec[t])
    BY <2>1, ProceedFacts
  <2>3. ItemEmitted(t, n, c)
    BY <1>1, <1>2, <2>2 DEF ItemEmitted, GoesOn
  <2> QED BY <2>3
<1>3. CASE rec[t] = NoRec
  <2>1. rec' = rec
    BY <1>3 DEF OnToolItem, RecOf
  <2>2. CASE eventId # 0
    <3>1. SendToolStart(<<t, n>>, eventId) /\ <<t, n>> \in Items /\ eventId \in Nat
      <4>1. Len(msgs) \in Nat /\ eventId \in Nat
        BY LenProperties DEF TypeOK, DataOK
      <4> QED BY <1>3, <2>2, <4>1, ItemFacts DEF OnToolItem, RecOf
    <3>2. PICK c \in CallRec :
              c.at = "start" /\ c.turn = eventId /\ call' = [call EXCEPT ![<<t, n>>] = c]
      BY <3>1, StartedFacts
    <3>3. ItemEmitted(t, n, c)
      BY <1>1, <1>3, <2>1, <2>2, <3>2 DEF ItemEmitted
    <3> QED BY <3>3
  <2>3. CASE eventId = 0
    <3> DEFINE c == [Idle EXCEPT !.at = "anchor"]
    <3>1. c \in CallRec /\ c.at = "anchor"
      BY DEF Idle, CallRec, Phases, ToolStates
    <3>2. call' = [call EXCEPT ![<<t, n>>] = c]
      BY <1>3, <2>3 DEF OnToolItem, RecOf
    <3> HIDE DEF c
    <3>3. ItemEmitted(t, n, c)
      BY <1>1, <1>3, <2>1, <3>1, <3>2 DEF ItemEmitted
    <3> QED BY <3>1, <3>3
  <2> QED BY <2>2, <2>3
<1> QED BY <1>2, <1>3

LEMMA AnchorFacts ==
    ASSUME TypeOK, DataOK, NEW i \in Items, AnchorReturns(i)
    PROVE  \E c \in CallRec : AnchorSent(i, c)
<1>1. /\ call[i].at = "anchor"
      /\ UNCHANGED <<pendingText, timer, chain, flight, disposed, rec,
                     hostVars, toolEvents, answers>>
  BY DEF AnchorReturns
<1>2. PICK out \in Outcomes :
          /\ Counted(out) /\ Mishap(i[1], out # "ok")
          /\ msgs' = IF out = "fail" THEN msgs ELSE Anchored
          /\ IF out = "ok"
             THEN /\ eventId' = Len(msgs) + 1 /\ lastSent' = Placeholder
                  /\ SendToolStart(i, Len(msgs) + 1)
             ELSE Abandoned(i) /\ UNCHANGED <<eventId, lastSent>>
  BY DEF AnchorReturns, SendTurnAnchor, Anchored
<1>3. IF out = "ok" THEN mishaps' = mishaps ELSE Missed(i[1])
  BY <1>2, ItemFacts, MishapFacts, OutcomeFacts DEF Missed
<1>4. CASE out = "ok"
  <2>1. Len(msgs) + 1 \in Nat
    BY LenProperties DEF DataOK
  <2>2. PICK c \in CallRec :
            c.at = "start" /\ c.turn = Len(msgs) + 1 /\ call' = [call EXCEPT ![i] = c]
    BY <1>2, <1>4, <2>1, StartedFacts
  <2>3. AnchorSent(i, c)
    BY <1>1, <1>2, <1>3, <1>4, <2>2 DEF AnchorSent
  <2> QED BY <2>3
<1>5. CASE out # "ok"
  <2>1. PICK c \in CallRec : c.at = "done" /\ call' = [call EXCEPT ![i] = c]
    BY <1>2, <1>5, AbandonedFacts
  <2>2. AnchorSent(i, c)
    BY <1>1, <1>2, <1>3, <1>5, <2>1 DEF AnchorSent
  <2> QED BY <2>2
<1> QED BY <1>4, <1>5

LEMMA StartFacts ==
    ASSUME TypeOK, DataOK, NEW i \in Items, ToolStartReturns(i)
    PROVE  \E c \in CallRec : StartSent(i, c)
<1>1. /\ call[i].at = "start"
      /\ UNCHANGED <<draftVars, hostVars, msgs, answers>>
  BY DEF ToolStartReturns
<1> DEFINE r == [NoRec EXCEPT !.event = Len(toolEvents) + 1]
<1>2. PICK out \in Outcomes :
          /\ Counted(out) /\ Mishap(i[1], out # "ok")
          /\ toolEvents' = IF out = "fail" THEN toolEvents ELSE Added(i[1], call[i].turn)
          /\ IF out = "ok" THEN Proceed(i[1], i[2], r)
             ELSE Abandoned(i) /\ UNCHANGED rec
  BY DEF ToolStartReturns, Added
<1>3. IF out = "ok" THEN mishaps' = mishaps ELSE Missed(i[1])
  BY <1>2, ItemFacts, MishapFacts, OutcomeFacts DEF Missed
<1>4. CASE out = "ok"
  <2>1. r \in ToolRec /\ r.event = Len(toolEvents) + 1 /\ r.status = "running"
    BY LenProperties DEF DataOK, NoRec, ToolRec, ToolStates
  <2> HIDE DEF r
  <2>2. PICK c \in CallRec, q \in ToolRec :
            /\ call' = [call EXCEPT ![<<i[1], i[2]>>] = c] /\ Proceeds(c, i[2], q)
            /\ rec' = [rec EXCEPT ![i[1]] = q] /\ Follows(q, i[2], r)
    BY <1>2, <1>4, <2>1, ProceedFacts, ItemFacts
  <2>3. call' = [call EXCEPT ![i] = c]
    BY <2>2, ItemFacts
  <2>4. GoesOn(i[1], i[2], r, c)
    BY <2>2 DEF GoesOn
  <2>5. StartSent(i, c)
    BY <1>1, <1>2, <1>3, <1>4, <2>1, <2>3, <2>4 DEF StartSent
  <2> QED BY <2>5
<1>5. CASE out # "ok"
  <2>1. PICK c \in CallRec : c.at = "done" /\ call' = [call EXCEPT ![i] = c]
    BY <1>2, <1>5, AbandonedFacts
  <2>2. StartSent(i, c)
    BY <1>1, <1>2, <1>3, <1>5, <2>1 DEF StartSent
  <2> QED BY <2>2
<1> QED BY <1>4, <1>5

LEMMA EndFacts ==
    ASSUME TypeOK, DataOK, NEW i \in Items, ToolEndReturns(i)
    PROVE  \E c \in CallRec : EndSent(i, c)
<1>1. PICK c \in CallRec : c.at = "done" /\ call' = [call EXCEPT ![i] = c]
  BY AbandonedFacts DEF ToolEndReturns
<1>2. /\ call[i].at = "end"
      /\ UNCHANGED <<draftVars, rec, hostVars, msgs, answers>>
  BY DEF ToolEndReturns
<1>3. PICK out \in Outcomes :
          /\ Counted(out) /\ Mishap(i[1], out # "ok")
          /\ toolEvents' = IF out = "fail" THEN toolEvents
                           ELSE Settle(call[i].event, call[i].status)
  BY DEF ToolEndReturns, Settle
<1>4. IF out = "ok" THEN mishaps' = mishaps ELSE Missed(i[1])
  BY <1>3, ItemFacts, MishapFacts, OutcomeFacts DEF Missed
<1>5. EndSent(i, c)
  BY <1>1, <1>2, <1>3, <1>4 DEF EndSent
<1> QED BY <1>5

-----------------------------------------------------------------------------
(* What a step does to the messages and the chain *)

\* The room after the running sendOrEdit took effect, and where it did.
Written ==
    IF flight.to = 0 THEN Posted(flight.text, flight.final)
    ELSE Edited(flight.to, flight.text, flight.final)
Place == IF flight.to = 0 THEN Len(msgs) + 1 ELSE flight.to

LEMMA WrittenFacts ==
    ASSUME TypeOK, DataOK
    PROVE  /\ Written \in Seq(Message) /\ Place \in 1..Len(Written) /\ Len(msgs) \in Nat
           /\ Len(Written) = IF flight.to = 0 THEN Len(msgs) + 1 ELSE Len(msgs)
           /\ \A m \in 1..Len(msgs) : m # Place => Written[m] = msgs[m]
           /\ Written[Place].text = flight.text
           /\ Written[Place].pushed = IF flight.final THEN flight.text
                                      ELSE IF flight.to = 0 THEN NoText
                                      ELSE msgs[flight.to].pushed
<1>1. /\ flight.text \in Texts /\ flight.final \in BOOLEAN
      /\ flight.to \in 0..Len(msgs) /\ Len(msgs) \in Nat
  BY LenProperties DEF TypeOK, DataOK
<1> DEFINE x == flight.text
           b == flight.final
<1> HIDE DEF x, b
<1>2. CASE flight.to = 0
  <2>1. Written = Posted(x, b) /\ Place = Len(msgs) + 1
    BY <1>2 DEF Written, Place, x, b
  <2>2. x \in Texts /\ b \in BOOLEAN
    BY <1>1 DEF x, b
  <2>3. /\ Written \in Seq(Message) /\ Len(Written) = Len(msgs) + 1
        /\ \A m \in 1..Len(msgs) : Written[m] = msgs[m]
        /\ Written[Place] = [text |-> x, pushed |-> IF b THEN x ELSE NoText]
    BY <2>1, <2>2, PostedFacts
  <2>4. /\ Written[Place].text = x
        /\ Written[Place].pushed = IF b THEN x ELSE NoText
    BY <2>3
  <2>5. Place \in 1..Len(Written)
    BY <1>1, <2>1, <2>3
  <2> QED BY <1>1, <1>2, <2>3, <2>4, <2>5 DEF x, b
<1>3. CASE flight.to # 0
  <2>1. Written = Edited(Place, x, b) /\ Place = flight.to
    BY <1>3 DEF Written, Place, x, b
  <2>2. Place \in 1..Len(msgs) /\ x \in Texts /\ b \in BOOLEAN
    BY <1>1, <1>3, <2>1 DEF x, b
  <2>3. /\ Written \in Seq(Message) /\ Len(Written) = Len(msgs)
        /\ \A m \in 1..Len(msgs) : Written[m] =
               IF m = Place THEN [text |-> x, pushed |-> IF b THEN x ELSE msgs[Place].pushed]
               ELSE msgs[m]
    BY <2>1, <2>2, EditedFacts
  <2>4. /\ Written[Place].text = x
        /\ Written[Place].pushed = IF b THEN x ELSE msgs[Place].pushed
    BY <2>2, <2>3
  <2> QED BY <1>1, <1>3, <2>1, <2>2, <2>3, <2>4 DEF x, b
<1> QED BY <1>2, <1>3

\* The running sendOrEdit ends.
SendDone ==
    /\ flight # NoFlight /\ stage # "delivered"
    /\ flight' = NoFlight /\ stage' = Resumed(flight.final)
    /\ \/ /\ msgs' = Written /\ lastSent' = flight.text
          /\ eventId' = IF flight.to = 0 THEN Place ELSE eventId
       \/ /\ faults' # 0 /\ (msgs' = msgs \/ msgs' = Written)
          /\ UNCHANGED <<eventId, lastSent>>
    /\ UNCHANGED <<pendingText, timer, chain, disposed, toolVars,
                   partials, finals, toolEvents, answers>>

LEMMA SendFacts ==
    ASSUME TypeOK, SendReturns
    PROVE  SendDone
<1>1. /\ flight # NoFlight /\ stage # "delivered"
      /\ flight' = NoFlight /\ stage' = Resumed(flight.final)
      /\ UNCHANGED <<pendingText, timer, chain, disposed, toolVars,
                     partials, finals, toolEvents, answers>>
  BY DEF SendReturns
<1>2. PICK out \in Outcomes :
          /\ Counted(out)
          /\ msgs' = IF out = "fail" THEN msgs ELSE Written
          /\ eventId' = IF out = "ok" /\ flight.to = 0 THEN Len(msgs) + 1 ELSE eventId
          /\ lastSent' = IF out = "ok" THEN flight.text ELSE lastSent
  BY DEF SendReturns, Written
<1>3. CASE out = "ok"
  BY <1>1, <1>2, <1>3 DEF SendDone, Place
<1>4. CASE out # "ok"
  BY <1>1, <1>2, <1>4, OutcomeFacts DEF SendDone
<1> QED BY <1>3, <1>4

LEMMA ChainGrows ==
    ASSUME TypeOK, NEW b \in BOOLEAN
    PROVE  /\ Append(chain, b) \in Seq(BOOLEAN) /\ Append(chain, b) # <<>>
           /\ Len(chain) \in Nat /\ Len(Append(chain, b)) = Len(chain) + 1
           /\ \A n \in 1..Len(chain) : Append(chain, b)[n] = chain[n]
           /\ Append(chain, b)[Len(chain) + 1] = b
<1>1. chain \in Seq(BOOLEAN) /\ Len(chain) \in Nat
  BY LenProperties DEF TypeOK
<1> QED BY <1>1, AppendProperties

LEMMA ChainShrinks ==
    ASSUME TypeOK, chain # <<>>
    PROVE  /\ Tail(chain) \in Seq(BOOLEAN) /\ Head(chain) \in BOOLEAN
           /\ Len(chain) \in Nat \ {0} /\ Len(Tail(chain)) = Len(chain) - 1
           /\ Head(chain) = chain[1]
           /\ \A n \in 1..Len(Tail(chain)) : Tail(chain)[n] = chain[n + 1]
           /\ Len(chain) = 1 => Tail(chain) = <<>>
<1>1. chain \in Seq(BOOLEAN) /\ Len(chain) \in Nat
  BY LenProperties DEF TypeOK
<1>2. /\ Tail(chain) \in Seq(BOOLEAN) /\ Head(chain) \in BOOLEAN
      /\ Len(Tail(chain)) = Len(chain) - 1 /\ Len(chain) # 0
  BY <1>1, HeadTailProperties, EmptySeq
<1>3. Len(chain) = 1 => Tail(chain) = <<>>
  <2>1. Len(chain) = 1 => Len(Tail(chain)) = 0
    BY <1>2
  <2>2. Tail(chain) # <<>> => Len(Tail(chain)) # 0
    BY <1>2, EmptySeq
  <2> QED BY <2>1, <2>2
<1>4. Head(chain) = chain[1] /\ \A n \in 1..Len(Tail(chain)) : Tail(chain)[n] = chain[n + 1]
  BY <1>1, <1>2
<1> QED BY <1>1, <1>2, <1>3, <1>4

-----------------------------------------------------------------------------
(* Types *)

LEMMA CountsStep ==
    ASSUME DataOK, Next
    PROVE  partials' \in 0..MaxPartials /\ finals' \in 0..MaxFinals
<1> USE DEF DataOK, draftVars, toolVars, hostVars, roomVars
<1>1. CASE TimerFires \/ StartSendOrEdit \/ SendReturns
  BY <1>1, TurnAssumption DEF TimerFires, StartSendOrEdit, Resumed, SendReturns
<1>2. ASSUME NEW t \in Tools, NEW n \in ItemKinds, OnToolItem(t, n)
      PROVE  partials' \in 0..MaxPartials /\ finals' \in 0..MaxFinals
  BY <1>2, TurnAssumption DEF OnToolItem
<1>3. ASSUME NEW i \in Items,
             \/ AnchorReturns(i) \/ ToolStartReturns(i) \/ ToolEndReturns(i)
      PROVE  partials' \in 0..MaxPartials /\ finals' \in 0..MaxFinals
  BY <1>3, TurnAssumption DEF AnchorReturns, ToolStartReturns, ToolEndReturns
<1>4. CASE OnPartialReply \/ RunEnds \/ DispatchRejects
  BY <1>4, TurnAssumption DEF OnPartialReply, Update, RunEnds, DispatchRejects
<1>5. CASE DeliverText
  BY <1>5, TurnAssumption DEF DeliverText
<1>6. CASE DeliverBlank
  BY <1>6, TurnAssumption DEF DeliverBlank, Reset
<1>7. CASE FinalizeReturns \/ DispatchReturns \/ DisposeReturns
  BY <1>7, TurnAssumption DEF FinalizeReturns, Reset,
       DispatchReturns, DisposeReturns
<1> QED BY <1>1, <1>2, <1>3, <1>4, <1>5, <1>6, <1>7 DEF Next

LEMMA MessagesStep ==
    ASSUME TypeOK, DataOK, Next
    PROVE  msgs' \in Seq(Message)
<1> USE DEF DataOK, Message, draftVars, toolVars, hostVars, roomVars
<1>1. CASE TimerFires
  BY <1>1 DEF TimerFires
<1>2. CASE StartSendOrEdit
  BY <1>2 DEF StartSendOrEdit, Resumed
<1>3. CASE SendReturns
  <2>1. SendDone
    BY <1>3, SendFacts
  <2> QED BY <2>1, WrittenFacts DEF SendDone, Message
<1>4. ASSUME NEW t \in Tools, NEW n \in ItemKinds, OnToolItem(t, n) PROVE msgs' \in Seq(Message)
  <2>1. PICK c \in CallRec : ItemEmitted(t, n, c)
    BY <1>4, EmittedFacts
  <2> QED BY <2>1 DEF ItemEmitted
<1>5. ASSUME NEW i \in Items, AnchorReturns(i) PROVE msgs' \in Seq(Message)
  <2>1. PICK c \in CallRec : AnchorSent(i, c)
    BY <1>5, AnchorFacts
  <2> QED BY <2>1, AnchoredFacts DEF AnchorSent, Message
<1>6. ASSUME NEW i \in Items, ToolStartReturns(i) PROVE msgs' \in Seq(Message)
  <2>1. PICK c \in CallRec : StartSent(i, c)
    BY <1>6, StartFacts
  <2> QED BY <2>1 DEF StartSent
<1>7. ASSUME NEW i \in Items, ToolEndReturns(i) PROVE msgs' \in Seq(Message)
  <2>1. PICK c \in CallRec : EndSent(i, c)
    BY <1>7, EndFacts
  <2> QED BY <2>1 DEF EndSent
<1>8. CASE OnPartialReply \/ RunEnds \/ DispatchRejects
  BY <1>8 DEF OnPartialReply, Update,
       RunEnds, DispatchRejects
<1>9. CASE DeliverText
  BY <1>9 DEF DeliverText
<1>10. CASE DeliverBlank
  BY <1>10 DEF DeliverBlank, Reset
<1>11. CASE FinalizeReturns
  BY <1>11 DEF FinalizeReturns, Reset
<1>12. CASE DispatchReturns \/ DisposeReturns
  BY <1>12 DEF DispatchReturns, DisposeReturns
<1> QED BY <1>1, <1>2, <1>3, <1>4, <1>5, <1>6, <1>7, <1>8, <1>9, <1>10, <1>11, <1>12 DEF
     Next

LEMMA EventsStep ==
    ASSUME TypeOK, DataOK, Next
    PROVE  toolEvents' \in Seq(ToolEvent)
<1> USE DEF DataOK, ToolEvent, draftVars, toolVars, hostVars, roomVars
<1>1. CASE TimerFires
  BY <1>1 DEF TimerFires
<1>2. CASE StartSendOrEdit
  BY <1>2 DEF StartSendOrEdit, Resumed
<1>3. CASE SendReturns
  <2>1. SendDone
    BY <1>3, SendFacts
  <2> QED BY <2>1 DEF SendDone
<1>4. ASSUME NEW t \in Tools, NEW n \in ItemKinds, OnToolItem(t, n) PROVE toolEvents' \in Seq(ToolEvent)
  <2>1. PICK c \in CallRec : ItemEmitted(t, n, c)
    BY <1>4, EmittedFacts
  <2> QED BY <2>1 DEF ItemEmitted
<1>5. ASSUME NEW i \in Items, AnchorReturns(i) PROVE toolEvents' \in Seq(ToolEvent)
  <2>1. PICK c \in CallRec : AnchorSent(i, c)
    BY <1>5, AnchorFacts
  <2> QED BY <2>1 DEF AnchorSent
<1>6. ASSUME NEW i \in Items, ToolStartReturns(i) PROVE toolEvents' \in Seq(ToolEvent)
  <2>1. PICK c \in CallRec : StartSent(i, c)
    BY <1>6, StartFacts
  <2>2. Added(i[1], call[i].turn) \in Seq(ToolEvent)
    BY EventAdded, ItemFacts
  <2> QED BY <2>1, <2>2 DEF StartSent
<1>7. ASSUME NEW i \in Items, ToolEndReturns(i) PROVE toolEvents' \in Seq(ToolEvent)
  <2>1. PICK c \in CallRec : EndSent(i, c)
    BY <1>7, EndFacts
  <2>2. Settle(call[i].event, call[i].status) \in Seq(ToolEvent)
    BY EventSettled
  <2> QED BY <2>1, <2>2 DEF EndSent
<1>8. CASE OnPartialReply \/ RunEnds \/ DispatchRejects
  BY <1>8 DEF OnPartialReply, Update,
       RunEnds, DispatchRejects
<1>9. CASE DeliverText
  BY <1>9 DEF DeliverText
<1>10. CASE DeliverBlank
  BY <1>10 DEF DeliverBlank, Reset
<1>11. CASE FinalizeReturns
  BY <1>11 DEF FinalizeReturns, Reset
<1>12. CASE DispatchReturns \/ DisposeReturns
  BY <1>12 DEF DispatchReturns, DisposeReturns
<1> QED BY <1>1, <1>2, <1>3, <1>4, <1>5, <1>6, <1>7, <1>8, <1>9, <1>10, <1>11, <1>12 DEF
     Next

LEMMA AnswersStep ==
    ASSUME TypeOK, DataOK, Next
    PROVE  answers' \in Seq(Answer)
<1> USE DEF DataOK, Answer, draftVars, toolVars, hostVars, roomVars
<1>1. CASE TimerFires
  BY <1>1 DEF TimerFires
<1>2. CASE StartSendOrEdit
  BY <1>2 DEF StartSendOrEdit, Resumed
<1>3. CASE SendReturns
  <2>1. SendDone
    BY <1>3, SendFacts
  <2> QED BY <2>1 DEF SendDone
<1>4. ASSUME NEW t \in Tools, NEW n \in ItemKinds, OnToolItem(t, n) PROVE answers' \in Seq(Answer)
  <2>1. PICK c \in CallRec : ItemEmitted(t, n, c)
    BY <1>4, EmittedFacts
  <2> QED BY <2>1 DEF ItemEmitted
<1>5. ASSUME NEW i \in Items, AnchorReturns(i) PROVE answers' \in Seq(Answer)
  <2>1. PICK c \in CallRec : AnchorSent(i, c)
    BY <1>5, AnchorFacts
  <2> QED BY <2>1 DEF AnchorSent
<1>6. ASSUME NEW i \in Items, ToolStartReturns(i) PROVE answers' \in Seq(Answer)
  <2>1. PICK c \in CallRec : StartSent(i, c)
    BY <1>6, StartFacts
  <2> QED BY <2>1 DEF StartSent
<1>7. ASSUME NEW i \in Items, ToolEndReturns(i) PROVE answers' \in Seq(Answer)
  <2>1. PICK c \in CallRec : EndSent(i, c)
    BY <1>7, EndFacts
  <2> QED BY <2>1 DEF EndSent
<1>8. CASE OnPartialReply \/ RunEnds \/ DispatchRejects
  BY <1>8 DEF OnPartialReply, Update,
       RunEnds, DispatchRejects
<1>9. CASE DeliverText
  BY <1>9 DEF DeliverText
<1>10. CASE DeliverBlank
  BY <1>10 DEF DeliverBlank, Reset
<1>11. CASE FinalizeReturns
  <2>1. [text |-> pendingText, sent |-> lastSent = pendingText] \in Answer
    BY DEF TypeOK
  <2> QED BY <1>11, <2>1, AppendProperties DEF FinalizeReturns
<1>12. CASE DispatchReturns \/ DisposeReturns
  BY <1>12 DEF DispatchReturns, DisposeReturns
<1> QED BY <1>1, <1>2, <1>3, <1>4, <1>5, <1>6, <1>7, <1>8, <1>9, <1>10, <1>11, <1>12 DEF
     Next

ToolsOK == mishaps \in [Tools -> Nat] /\ rec \in [Tools -> ToolRec]

\* Mishaps are only added, and to the tool concerned.
LEMMA MishapsKept ==
    ASSUME DataOK, NEW t \in Tools, NEW b \in BOOLEAN,
           mishaps' = [mishaps EXCEPT ![t] = IF b THEN @ + 1 ELSE @]
    PROVE  /\ mishaps' \in [Tools -> Nat]
           /\ mishaps'[t] = IF b THEN mishaps[t] + 1 ELSE mishaps[t]
           /\ \A u \in Tools : u # t => mishaps'[u] = mishaps[u]
BY DEF DataOK

LEMMA MishapAdded ==
    ASSUME DataOK, NEW t \in Tools, Missed(t)
    PROVE  /\ mishaps' \in [Tools -> Nat]
           /\ mishaps'[t] = mishaps[t] + 1
           /\ \A u \in Tools : u # t => mishaps'[u] = mishaps[u]
BY DEF DataOK, Missed

LEMMA ToolsStep ==
    ASSUME TypeOK, DataOK, Next
    PROVE  ToolsOK'
<1> USE DEF DataOK, ToolRec, ToolsOK, draftVars, toolVars, hostVars, roomVars
<1>1. CASE TimerFires
  BY <1>1 DEF TimerFires
<1>2. CASE StartSendOrEdit
  BY <1>2 DEF StartSendOrEdit, Resumed
<1>3. CASE SendReturns
  <2>1. SendDone
    BY <1>3, SendFacts
  <2> QED BY <2>1 DEF SendDone
<1>4. ASSUME NEW t \in Tools, NEW n \in ItemKinds, OnToolItem(t, n) PROVE ToolsOK'
  <2>1. PICK c \in CallRec : ItemEmitted(t, n, c)
    BY <1>4, EmittedFacts
  <2>2. mishaps' \in [Tools -> Nat]
    <3>1. PICK b \in BOOLEAN : b = Working(t)
      BY DEF Working
    <3> QED BY <2>1, <3>1, MishapsKept DEF ItemEmitted
  <2>3. CASE rec' = rec
    BY <2>2, <2>3
  <2>4. CASE rec' # rec
    <3>1. PICK q \in ToolRec : rec' = [rec EXCEPT ![t] = q]
      BY <2>1, <2>4 DEF ItemEmitted, GoesOn
    <3> QED BY <2>2, <3>1
  <2> QED BY <2>3, <2>4
<1>5. ASSUME NEW i \in Items, AnchorReturns(i) PROVE ToolsOK'
  <2>1. PICK c \in CallRec : AnchorSent(i, c)
    BY <1>5, AnchorFacts
  <2>2. mishaps' \in [Tools -> Nat] /\ rec' = rec
    BY <2>1, MishapAdded, ItemFacts DEF AnchorSent
  <2> QED BY <2>2
<1>6. ASSUME NEW i \in Items, ToolStartReturns(i) PROVE ToolsOK'
  <2>1. PICK c \in CallRec : StartSent(i, c)
    BY <1>6, StartFacts
  <2>2. mishaps' \in [Tools -> Nat]
    BY <2>1, MishapAdded, ItemFacts DEF StartSent
  <2>3. rec' = rec \/ \E q \in ToolRec : rec' = [rec EXCEPT ![i[1]] = q]
    BY <2>1 DEF StartSent, GoesOn
  <2> QED BY <2>2, <2>3, ItemFacts
<1>7. ASSUME NEW i \in Items, ToolEndReturns(i) PROVE ToolsOK'
  <2>1. PICK c \in CallRec : EndSent(i, c)
    BY <1>7, EndFacts
  <2>2. mishaps' \in [Tools -> Nat] /\ rec' = rec
    BY <2>1, MishapAdded, ItemFacts DEF EndSent
  <2> QED BY <2>2
<1>8. CASE OnPartialReply \/ RunEnds \/ DispatchRejects
  BY <1>8 DEF OnPartialReply, Update,
       RunEnds, DispatchRejects
<1>9. CASE DeliverText
  BY <1>9 DEF DeliverText
<1>10. CASE DeliverBlank
  BY <1>10 DEF DeliverBlank, Reset
<1>11. CASE FinalizeReturns
  BY <1>11 DEF FinalizeReturns, Reset
<1>12. CASE DispatchReturns \/ DisposeReturns
  BY <1>12 DEF DispatchReturns, DisposeReturns
<1> QED BY <1>1, <1>2, <1>3, <1>4, <1>5, <1>6, <1>7, <1>8, <1>9, <1>10, <1>11, <1>12 DEF
     Next

LEMMA CallsStep ==
    ASSUME TypeOK, DataOK, Next
    PROVE  call' \in [Items -> CallRec]
<1> USE DEF DataOK, CallRec, draftVars, toolVars, hostVars, roomVars
<1>1. CASE TimerFires
  BY <1>1 DEF TimerFires
<1>2. CASE StartSendOrEdit
  BY <1>2 DEF StartSendOrEdit, Resumed
<1>3. CASE SendReturns
  <2>1. SendDone
    BY <1>3, SendFacts
  <2> QED BY <2>1 DEF SendDone
<1>4. ASSUME NEW t \in Tools, NEW n \in ItemKinds, OnToolItem(t, n) PROVE call' \in [Items -> CallRec]
  <2>1. PICK c \in CallRec : ItemEmitted(t, n, c)
    BY <1>4, EmittedFacts
  <2> QED BY <2>1 DEF ItemEmitted
<1>5. ASSUME NEW i \in Items, AnchorReturns(i) PROVE call' \in [Items -> CallRec]
  <2>1. PICK c \in CallRec : AnchorSent(i, c)
    BY <1>5, AnchorFacts
  <2> QED BY <2>1 DEF AnchorSent
<1>6. ASSUME NEW i \in Items, ToolStartReturns(i) PROVE call' \in [Items -> CallRec]
  <2>1. PICK c \in CallRec : StartSent(i, c)
    BY <1>6, StartFacts
  <2> QED BY <2>1 DEF StartSent
<1>7. ASSUME NEW i \in Items, ToolEndReturns(i) PROVE call' \in [Items -> CallRec]
  <2>1. PICK c \in CallRec : EndSent(i, c)
    BY <1>7, EndFacts
  <2> QED BY <2>1 DEF EndSent
<1>8. CASE OnPartialReply \/ RunEnds \/ DispatchRejects
  BY <1>8 DEF OnPartialReply, Update,
       RunEnds, DispatchRejects
<1>9. CASE DeliverText
  BY <1>9 DEF DeliverText
<1>10. CASE DeliverBlank
  BY <1>10 DEF DeliverBlank, Reset
<1>11. CASE FinalizeReturns
  BY <1>11 DEF FinalizeReturns, Reset
<1>12. CASE DispatchReturns \/ DisposeReturns
  BY <1>12 DEF DispatchReturns, DisposeReturns
<1> QED BY <1>1, <1>2, <1>3, <1>4, <1>5, <1>6, <1>7, <1>8, <1>9, <1>10, <1>11, <1>12 DEF
     Next

LEMMA DataStep ==
    ASSUME TypeOK, DataOK, Next
    PROVE  DataOK'
BY CountsStep, MessagesStep, EventsStep, AnswersStep, ToolsStep, CallsStep
   DEF ToolsOK, DataOK, Message, ToolEvent, Answer, ToolRec, CallRec

\* The parts of TypeOK.
DraftOK ==
    /\ eventId \in 0..Len(msgs)
    /\ lastSent \in Texts /\ pendingText \in Texts
    /\ timer \in BOOLEAN /\ disposed \in BOOLEAN
    /\ chain \in Seq(BOOLEAN)
    /\ flight \in [to : 0..Len(msgs), text : Texts, final : BOOLEAN]
EventsOK ==
    /\ \A t \in Tools : rec[t].event \in 0..Len(toolEvents)
    /\ \A m \in DOMAIN toolEvents : toolEvents[m].turn \in 1..Len(msgs)
StagesOK ==
    /\ stage \in {"run", "finals", "finalizing", "delivered", "disposing", "ended",
                 "failed"}

LEMMA RoomKept ==
    ASSUME Next
    PROVE  SendReturns \/ (\E i \in Items : AnchorReturns(i)) \/ msgs' = msgs
<1>1. ASSUME TimerFires \/ StartSendOrEdit PROVE msgs' = msgs
  BY <1>1 DEF TimerFires, StartSendOrEdit, roomVars
<1>2. ASSUME NEW t \in Tools, NEW n \in ItemKinds, OnToolItem(t, n) PROVE msgs' = msgs
  BY <1>2 DEF OnToolItem, roomVars
<1>3. ASSUME NEW i \in Items, ToolStartReturns(i) \/ ToolEndReturns(i) PROVE msgs' = msgs
  BY <1>3 DEF ToolStartReturns, ToolEndReturns
<1>4. ASSUME \/ OnPartialReply \/ RunEnds \/ DispatchRejects
             \/ DeliverText \/ DeliverBlank \/ FinalizeReturns
             \/ DispatchReturns \/ DisposeReturns
      PROVE  msgs' = msgs
  BY <1>4 DEF OnPartialReply, RunEnds, DispatchRejects, DeliverText,
        DeliverBlank, FinalizeReturns, DispatchReturns, DisposeReturns, roomVars
<1> QED BY <1>1, <1>2, <1>3, <1>4 DEF Next

\* The room only gets more messages.
LEMMA RoomGrows ==
    ASSUME TypeOK, DataOK, Next
    PROVE  /\ Len(msgs) \in Nat /\ Len(msgs)' \in Nat /\ Len(msgs) <= Len(msgs)'
           /\ DOMAIN msgs = 1..Len(msgs) /\ DOMAIN msgs' = 1..Len(msgs)'
<1>1. /\ Len(msgs) \in Nat /\ Len(msgs)' \in Nat
      /\ DOMAIN msgs = 1..Len(msgs) /\ DOMAIN msgs' = 1..Len(msgs)'
  BY MessagesStep, LenProperties DEF DataOK, Message
<1>2. CASE SendReturns
  BY <1>1, <1>2, SendFacts, WrittenFacts DEF SendDone
<1>3. CASE \E i \in Items : AnchorReturns(i)
  <2>1. PICK i \in Items : AnchorReturns(i)
    BY <1>3
  <2>2. PICK c \in CallRec : AnchorSent(i, c)
    BY <2>1, AnchorFacts
  <2> QED BY <1>1, <2>2, AnchoredFacts DEF AnchorSent
<1>4. CASE msgs' = msgs
  BY <1>1, <1>4
<1> QED BY <1>2, <1>3, <1>4, RoomKept

LEMMA DraftStep ==
    ASSUME TypeOK, DataOK, Next
    PROVE  DraftOK'
<1> USE DEF DataOK, TypeOK, DraftOK, draftVars, toolVars, hostVars, roomVars
<1>1. CASE TimerFires
  <2>1. chain' \in Seq(BOOLEAN)
    BY <1>1, ChainGrows DEF TimerFires
  <2>2. UNCHANGED <<eventId, lastSent, pendingText, disposed, flight, msgs>>
        /\ timer' \in BOOLEAN
    BY <1>1 DEF TimerFires
  <2> QED BY <2>1, <2>2
<1>2. CASE StartSendOrEdit
  <2>1. chain' \in Seq(BOOLEAN) /\ Head(chain) \in BOOLEAN
    BY <1>2, ChainShrinks DEF StartSendOrEdit
  <2>2. UNCHANGED <<eventId, lastSent, pendingText, timer, disposed, msgs>>
    BY <1>2 DEF StartSendOrEdit
  <2>3. flight' = flight
        \/ flight' = [to |-> eventId, text |-> pendingText, final |-> Head(chain)]
    BY <1>2 DEF StartSendOrEdit
  <2>4. flight' \in [to : 0..Len(msgs), text : Texts, final : BOOLEAN]
    BY <2>1, <2>3
  <2> QED BY <2>1, <2>2, <2>4
<1>3. CASE SendReturns
  <2>1. SendDone
    BY <1>3, SendFacts
  <2>2. flight' \in [to : 0..Len(msgs)', text : Texts, final : BOOLEAN]
    BY <2>1, RoomGrows, TextFacts DEF SendDone, NoFlight
  <2>3. eventId' \in 0..Len(msgs)'
    BY <2>1, RoomGrows, WrittenFacts DEF SendDone
  <2> QED BY <2>1, <2>2, <2>3 DEF SendDone
<1>4. ASSUME NEW t \in Tools, NEW n \in ItemKinds, OnToolItem(t, n) PROVE DraftOK'
  <2>1. PICK c \in CallRec : ItemEmitted(t, n, c)
    BY <1>4, EmittedFacts
  <2> QED BY <2>1, RoomGrows DEF ItemEmitted
<1>5. ASSUME NEW i \in Items, AnchorReturns(i) PROVE DraftOK'
  <2>1. PICK c \in CallRec : AnchorSent(i, c)
    BY <1>5, AnchorFacts
  <2>2. eventId' \in 0..Len(msgs)'
    <3>1. \/ eventId' = eventId
          \/ eventId' = Len(msgs) + 1 /\ msgs' = Anchored
      BY <2>1 DEF AnchorSent
    <3>2. CASE eventId' = eventId
      BY <3>2, RoomGrows
    <3>3. CASE eventId' = Len(msgs) + 1 /\ msgs' = Anchored
      BY <3>3, AnchoredFacts
    <3> QED BY <3>1, <3>2, <3>3
  <2>3. flight' \in [to : 0..Len(msgs)', text : Texts, final : BOOLEAN]
    BY <2>1, RoomGrows DEF AnchorSent
  <2> QED BY <2>1, <2>2, <2>3, TextFacts DEF AnchorSent
<1>6. ASSUME NEW i \in Items, ToolStartReturns(i) PROVE DraftOK'
  <2>1. PICK c \in CallRec : StartSent(i, c)
    BY <1>6, StartFacts
  <2> QED BY <2>1, RoomGrows DEF StartSent
<1>7. ASSUME NEW i \in Items, ToolEndReturns(i) PROVE DraftOK'
  <2>1. PICK c \in CallRec : EndSent(i, c)
    BY <1>7, EndFacts
  <2> QED BY <2>1, RoomGrows DEF EndSent
<1>8. CASE OnPartialReply
  <2>1. partials + 1 \in 0..MaxPartials
    BY <1>8, TurnAssumption DEF OnPartialReply
  <2> QED BY <1>8, <2>1, TextFacts DEF OnPartialReply, Update
<1>9. CASE RunEnds \/ DispatchRejects
  BY <1>9 DEF RunEnds, DispatchRejects
<1>10. CASE DeliverText
  <2>1. chain' \in Seq(BOOLEAN)
    BY <1>10, ChainGrows DEF DeliverText
  <2>2. pendingText' \in Texts
    BY <1>10, FinalFacts DEF DeliverText
  <2> QED BY <1>10, <2>1, <2>2 DEF DeliverText
<1>11. CASE DeliverBlank
  <2>1. UNCHANGED <<disposed, flight, chain, msgs>> /\ timer' \in BOOLEAN
    BY <1>11 DEF DeliverBlank, Reset
  <2>2. eventId' = 0 /\ lastSent' \in Texts /\ pendingText' \in Texts
    BY <1>11, TextFacts DEF DeliverBlank, Reset
  <2>3. eventId' \in 0..Len(msgs)'
    BY <2>2, RoomGrows
  <2> QED BY <2>1, <2>2, <2>3
<1>12. CASE FinalizeReturns
  <2>1. UNCHANGED <<disposed, flight, chain, msgs>> /\ timer' \in BOOLEAN
    BY <1>12 DEF FinalizeReturns, Reset
  <2>2. eventId' = 0 /\ lastSent' \in Texts /\ pendingText' \in Texts
    BY <1>12, TextFacts DEF FinalizeReturns, Reset
  <2>3. eventId' \in 0..Len(msgs)'
    BY <2>2, RoomGrows
  <2> QED BY <2>1, <2>2, <2>3
<1>13. CASE DispatchReturns \/ DisposeReturns
  BY <1>13 DEF DispatchReturns, DisposeReturns
<1> QED BY <1>1, <1>2, <1>3, <1>4, <1>5, <1>6, <1>7, <1>8, <1>9, <1>10, <1>11, <1>12,
     <1>13 DEF Next

LEMMA TurnStep ==
    ASSUME TypeOK, DataOK, TurnInv, Next
    PROVE  TurnInv'
<1> USE DEF DataOK, TurnInv, draftVars, toolVars, hostVars, roomVars
<1>1. CASE TimerFires
  BY <1>1 DEF TimerFires
<1>2. CASE StartSendOrEdit
  BY <1>2 DEF StartSendOrEdit, Resumed
<1>3. CASE SendReturns
  <2>1. SendDone
    BY <1>3, SendFacts
  <2> QED BY <2>1, RoomGrows DEF SendDone
<1>4. ASSUME NEW t \in Tools, NEW n \in ItemKinds, OnToolItem(t, n) PROVE TurnInv'
  <2>1. PICK c \in CallRec : ItemEmitted(t, n, c)
    BY <1>4, EmittedFacts
  <2>2. eventId # 0 => eventId \in 1..Len(msgs)'
    BY <2>1, RoomGrows DEF ItemEmitted, TypeOK
  <2>3. c.at = "start" => c.turn \in 1..Len(msgs)'
    BY <2>1, <2>2 DEF ItemEmitted, GoesOn, Proceeds
  <2> QED BY <2>1, <2>3, RoomGrows DEF ItemEmitted
<1>5. ASSUME NEW i \in Items, AnchorReturns(i) PROVE TurnInv'
  <2>1. PICK c \in CallRec : AnchorSent(i, c)
    BY <1>5, AnchorFacts
  <2>2. c.at = "start" => c.turn \in 1..Len(msgs)'
    BY <2>1, AnchoredFacts DEF AnchorSent
  <2> QED BY <2>1, <2>2, RoomGrows DEF AnchorSent
<1>6. ASSUME NEW i \in Items, ToolStartReturns(i) PROVE TurnInv'
  <2>1. PICK c \in CallRec : StartSent(i, c)
    BY <1>6, StartFacts
  <2> QED BY <2>1 DEF StartSent, GoesOn, Proceeds
<1>7. ASSUME NEW i \in Items, ToolEndReturns(i) PROVE TurnInv'
  <2>1. PICK c \in CallRec : EndSent(i, c)
    BY <1>7, EndFacts
  <2> QED BY <2>1 DEF EndSent
<1>8. CASE OnPartialReply \/ RunEnds \/ DispatchRejects
  BY <1>8 DEF OnPartialReply, Update,
       RunEnds, DispatchRejects
<1>9. CASE DeliverText
  BY <1>9 DEF DeliverText
<1>10. CASE DeliverBlank
  BY <1>10 DEF DeliverBlank, Reset
<1>11. CASE FinalizeReturns
  BY <1>11 DEF FinalizeReturns, Reset
<1>12. CASE DispatchReturns \/ DisposeReturns
  BY <1>12 DEF DispatchReturns, DisposeReturns
<1> QED BY <1>1, <1>2, <1>3, <1>4, <1>5, <1>6, <1>7, <1>8, <1>9, <1>10, <1>11, <1>12 DEF
     Next

LEMMA EventsOKStep ==
    ASSUME TypeOK, DataOK, TurnInv, Next
    PROVE  EventsOK'
<1> USE DEF EventsOK, draftVars, toolVars, hostVars, roomVars
<1>1. CASE TimerFires
  BY <1>1 DEF TimerFires, TypeOK
<1>2. CASE StartSendOrEdit
  BY <1>2 DEF StartSendOrEdit, Resumed, TypeOK
<1>3. CASE SendReturns
  <2>1. SendDone
    BY <1>3, SendFacts
  <2> QED BY <2>1, RoomGrows DEF SendDone, TypeOK
<1>4. ASSUME NEW t \in Tools, NEW n \in ItemKinds, OnToolItem(t, n) PROVE EventsOK'
  <2>1. PICK c \in CallRec : ItemEmitted(t, n, c)
    BY <1>4, EmittedFacts
  <2>2. UNCHANGED <<toolEvents, msgs>>
    BY <2>1 DEF ItemEmitted
  <2>3. rec' = rec \/ \E q \in ToolRec : rec' = [rec EXCEPT ![t] = q] /\ q.event = rec[t].event
    BY <2>1 DEF ItemEmitted, GoesOn, Follows
  <2>4. \A u \in Tools : rec'[u].event = rec[u].event
    BY <2>3 DEF DataOK
  <2> QED BY <2>2, <2>4 DEF TypeOK
<1>5. ASSUME NEW i \in Items, AnchorReturns(i) PROVE EventsOK'
  <2>1. PICK c \in CallRec : AnchorSent(i, c)
    BY <1>5, AnchorFacts
  <2> QED BY <2>1, RoomGrows DEF AnchorSent, TypeOK
<1>6. ASSUME NEW i \in Items, ToolStartReturns(i) PROVE EventsOK'
  <2>1. PICK c \in CallRec : StartSent(i, c)
    BY <1>6, StartFacts
  <2>2. PICK t \in Tools, u \in 1..Len(msgs) : t = i[1] /\ u = call[i].turn
    BY <2>1, ItemFacts DEF StartSent, TurnInv
  <2>3. /\ Len(toolEvents) \in Nat /\ DOMAIN toolEvents = 1..Len(toolEvents)
        /\ Len(msgs) \in Nat /\ u \in Nat /\ msgs' = msgs
    BY <2>1, LenProperties DEF StartSent, DataOK
  <2>4. ASSUME toolEvents' = Added(t, u)
        PROVE  /\ Len(toolEvents') = Len(toolEvents) + 1
               /\ \A m \in DOMAIN toolEvents' : toolEvents'[m].turn \in 1..Len(msgs)
    <3>1. /\ toolEvents' \in Seq(ToolEvent) /\ Len(toolEvents') = Len(toolEvents) + 1
          /\ \A m \in 1..Len(toolEvents) : toolEvents'[m] = toolEvents[m]
          /\ toolEvents'[Len(toolEvents) + 1]
                 = [tool |-> t, turn |-> u, status |-> "running"]
      BY <2>3, <2>4, EventAdded
    <3>2. DOMAIN toolEvents' = 1..(Len(toolEvents) + 1)
      BY <3>1, LenProperties
    <3> QED BY <2>3, <3>1, <3>2 DEF TypeOK
  <2>5. CASE \E q \in ToolRec : rec' = [rec EXCEPT ![t] = q] /\ q.event = Len(toolEvents) + 1
    <3>1. toolEvents' = Added(t, u) \/ UNCHANGED rec
      BY <2>1, <2>2 DEF StartSent
    <3>2. PICK q \in ToolRec : rec' = [rec EXCEPT ![t] = q] /\ q.event = Len(toolEvents) + 1
      BY <2>5
    <3>3. CASE toolEvents' = Added(t, u)
      <4>1. ASSUME NEW v \in Tools PROVE rec'[v].event \in 0..(Len(toolEvents) + 1)
        <5>1. rec[v].event \in 0..Len(toolEvents)
          BY DEF TypeOK
        <5>2. rec'[v] = IF v = t THEN q ELSE rec[v]
          BY <3>2 DEF DataOK
        <5> QED BY <2>3, <3>2, <5>1, <5>2
      <4> QED BY <2>3, <2>4, <3>3, <4>1
    <3> QED BY <2>1, <2>2, <2>3, <2>4, <3>1, <3>3 DEF StartSent, TypeOK
  <2>6. CASE rec' = rec
    BY <2>1, <2>2, <2>3, <2>4, <2>6 DEF StartSent, TypeOK
  <2> QED BY <2>1, <2>2, <2>5, <2>6 DEF StartSent, GoesOn, Follows
<1>7. ASSUME NEW i \in Items, ToolEndReturns(i) PROVE EventsOK'
  <2>1. PICK c \in CallRec : EndSent(i, c)
    BY <1>7, EndFacts
  <2>2. rec' = rec /\ msgs' = msgs
    BY <2>1 DEF EndSent
  <2>3. CASE toolEvents' = toolEvents
    BY <2>2, <2>3 DEF TypeOK
  <2>4. CASE toolEvents' # toolEvents
    <3>1. PICK st \in ToolStates : \E e : toolEvents' = Settle(e, st)
      BY <2>1, <2>4 DEF EndSent, DataOK
    <3>2. PICK e : toolEvents' = Settle(e, st)
      BY <3>1
    <3>3. /\ toolEvents' \in Seq(ToolEvent) /\ Len(toolEvents') = Len(toolEvents)
          /\ \A m \in 1..Len(toolEvents) : toolEvents'[m].turn = toolEvents[m].turn
      BY <3>2, EventSettled
    <3>4. /\ DOMAIN toolEvents' = 1..Len(toolEvents') /\ DOMAIN toolEvents = 1..Len(toolEvents)
      BY <3>3, LenProperties DEF DataOK
    <3> QED BY <2>2, <3>3, <3>4 DEF TypeOK
  <2> QED BY <2>3, <2>4
<1>8. CASE OnPartialReply \/ RunEnds \/ DispatchRejects
  BY <1>8 DEF OnPartialReply, Update,
       RunEnds, DispatchRejects, TypeOK
<1>9. CASE DeliverText
  BY <1>9 DEF DeliverText, TypeOK
<1>10. CASE DeliverBlank
  BY <1>10 DEF DeliverBlank, Reset, TypeOK
<1>11. CASE FinalizeReturns
  BY <1>11 DEF FinalizeReturns, Reset, TypeOK
<1>12. CASE DispatchReturns \/ DisposeReturns
  BY <1>12 DEF DispatchReturns, DisposeReturns, TypeOK
<1> QED BY <1>1, <1>2, <1>3, <1>4, <1>5, <1>6, <1>7, <1>8, <1>9, <1>10, <1>11, <1>12 DEF
     Next

LEMMA FaultsStep ==
    ASSUME TypeOK, Next
    PROVE  faults' \in 0..MaxFaults
<1> USE DEF TypeOK, Outcomes, Counted, draftVars, toolVars, hostVars, roomVars
<1>1. CASE TimerFires \/ StartSendOrEdit
  BY <1>1, TurnAssumption DEF TimerFires, StartSendOrEdit, Resumed
<1>2. CASE SendReturns
  BY <1>2, TurnAssumption DEF SendReturns, Resumed
<1>3. ASSUME NEW t \in Tools, NEW n \in ItemKinds, OnToolItem(t, n) PROVE faults' \in 0..MaxFaults
  BY <1>3, TurnAssumption DEF OnToolItem
<1>4. ASSUME NEW i \in Items, AnchorReturns(i) PROVE faults' \in 0..MaxFaults
  BY <1>4, TurnAssumption DEF AnchorReturns
<1>5. ASSUME NEW i \in Items, ToolStartReturns(i) PROVE faults' \in 0..MaxFaults
  BY <1>5, TurnAssumption DEF ToolStartReturns
<1>6. ASSUME NEW i \in Items, ToolEndReturns(i) PROVE faults' \in 0..MaxFaults
  BY <1>6, TurnAssumption DEF ToolEndReturns
<1>7. CASE \/ OnPartialReply \/ RunEnds \/ DispatchRejects
           \/ DeliverText \/ DeliverBlank \/ FinalizeReturns \/ DispatchReturns \/ DisposeReturns
  BY <1>7, TurnAssumption DEF OnPartialReply, Update, RunEnds, DispatchRejects, DeliverText, DeliverBlank, Reset,
       FinalizeReturns, DispatchReturns, DisposeReturns
<1> QED BY <1>1, <1>2, <1>3, <1>4, <1>5, <1>6, <1>7 DEF Next

LEMMA StagesStep ==
    ASSUME TypeOK, Next
    PROVE  StagesOK'
<1> USE DEF StagesOK, TypeOK, draftVars, toolVars, hostVars, roomVars
<1>1. CASE TimerFires
  BY <1>1 DEF TimerFires
<1>2. CASE StartSendOrEdit
  BY <1>2 DEF StartSendOrEdit, Resumed
<1>3. CASE SendReturns
  BY <1>3 DEF SendReturns, Resumed
<1>4. ASSUME NEW t \in Tools, NEW n \in ItemKinds, OnToolItem(t, n) PROVE StagesOK'
  BY <1>4 DEF OnToolItem
<1>5. ASSUME NEW i \in Items, AnchorReturns(i) PROVE StagesOK'
  BY <1>5 DEF AnchorReturns
<1>6. ASSUME NEW i \in Items, ToolStartReturns(i) PROVE StagesOK'
  BY <1>6 DEF ToolStartReturns
<1>7. ASSUME NEW i \in Items, ToolEndReturns(i) PROVE StagesOK'
  BY <1>7 DEF ToolEndReturns
<1>8. CASE OnPartialReply \/ RunEnds \/ DispatchRejects
  BY <1>8 DEF OnPartialReply, Update,
       RunEnds, DispatchRejects
<1>9. CASE DeliverText
  BY <1>9 DEF DeliverText
<1>10. CASE DeliverBlank
  BY <1>10 DEF DeliverBlank, Reset
<1>11. CASE FinalizeReturns
  BY <1>11 DEF FinalizeReturns, Reset
<1>12. CASE DispatchReturns \/ DisposeReturns
  BY <1>12 DEF DispatchReturns, DisposeReturns
<1> QED BY <1>1, <1>2, <1>3, <1>4, <1>5, <1>6, <1>7, <1>8, <1>9, <1>10, <1>11, <1>12 DEF
     Next

LEMMA TypeStep ==
    ASSUME TypeOK, DataOK, TurnInv, Next
    PROVE  TypeOK'
<1>1. DraftOK' /\ EventsOK' /\ StagesOK' /\ faults' \in 0..MaxFaults /\ DataOK'
  BY DraftStep, EventsOKStep, StagesStep, FaultsStep, DataStep
<1>2. \A t \in Tools : mishaps'[t] \in Nat
  BY <1>1 DEF DataOK
<1>3. \A i \in Items : call'[i].at \in {"none", "anchor", "start", "end", "done"}
  BY <1>1 DEF DataOK, Phases
<1>4. \A m \in DOMAIN msgs' : msgs'[m].text \in Texts /\ msgs'[m].pushed \in Texts
  <2>1. msgs' \in Seq(Message)
    BY <1>1 DEF DataOK, Message
  <2>2. \A m \in DOMAIN msgs' : msgs'[m] \in Message
    BY <2>1, LenProperties
  <2> QED BY <2>2 DEF Message
<1> QED BY <1>1, <1>2, <1>3, <1>4 DEF TypeOK, DraftOK, EventsOK, StagesOK

-----------------------------------------------------------------------------
(* The chain of sendOrEdits *)

LEMMA ChainStep ==
    ASSUME TypeOK, DataOK, ChainInv, Next
    PROVE  ChainInv'
<1> USE DEF ChainInv, draftVars, toolVars, hostVars, roomVars
<1>1. CASE TimerFires
  <2>1. stage # "finalizing" /\ stage # "delivered"
    BY <1>1 DEF TimerFires, ChainInv
  <2>2. /\ chain' = Append(chain, FALSE)
        /\ UNCHANGED <<stage, flight, pendingText>>
    BY <1>1 DEF TimerFires
  <2>3. \A n \in 1..Len(chain') : ~chain'[n]
    <3>1. PICK b \in BOOLEAN : b = FALSE
      OBVIOUS
    <3>2. /\ Len(chain) \in Nat /\ Len(chain') = Len(chain) + 1
          /\ \A n \in 1..Len(chain) : chain'[n] = chain[n]
          /\ chain'[Len(chain) + 1] = b
      BY <2>2, <3>1, ChainGrows
    <3>3. \A n \in 1..Len(chain) : ~chain[n]
      BY <2>1 DEF ChainInv
    <3>4. ASSUME NEW n \in 1..Len(chain') PROVE ~chain'[n]
      <4>1. n \in 1..Len(chain) \/ n = Len(chain) + 1
        BY <3>2
      <4> QED BY <3>1, <3>2, <3>3, <4>1
    <3> QED BY <3>4
  <2> QED BY <2>1, <2>2, <2>3 DEF ChainInv
<1>2. CASE StartSendOrEdit
  <2>1. /\ chain # <<>> /\ flight = NoFlight /\ stage # "delivered"
        /\ chain' = Tail(chain) /\ UNCHANGED <<pendingText, timer>>
    BY <1>2 DEF StartSendOrEdit
  <2>2. PICK h \in BOOLEAN : h = chain[1] /\ h = Head(chain)
    BY <2>1, ChainShrinks
  <2>3. /\ Len(chain) \in Nat \ {0} /\ Len(chain') = Len(chain) - 1
        /\ \A n \in 1..Len(chain') : chain'[n] = chain[n + 1]
        /\ Len(chain) = 1 => chain' = <<>>
    BY <2>1, ChainShrinks
  <2>4. \/ /\ pendingText # NoText /\ stage' = stage
           /\ flight' = [to |-> eventId, text |-> pendingText, final |-> h]
        \/ flight' = flight /\ stage' = Resumed(h)
    BY <1>2, <2>2 DEF StartSendOrEdit
  <2>5. flight' = flight \/ (flight'.final = h /\ flight'.text = pendingText)
    BY <2>4
  <2>6. ~flight.final
    BY <2>1 DEF NoFlight
  <2>7. CASE stage = "finalizing" /\ Len(chain) = 1
    <3>1. h = TRUE /\ chain' = <<>>
      BY <2>1, <2>2, <2>3, <2>6, <2>7 DEF ChainInv
    <3>2. ~timer /\ pendingText \notin {NoText, Placeholder}
      BY <2>7 DEF ChainInv
    <3>3. Len(chain') = 0
      BY <2>3, <2>7
    <3>4. CASE stage' = "finalizing"
      <4>1. Resumed(h) = "delivered"
        BY <3>1 DEF Resumed
      <4>2. flight' = [to |-> eventId, text |-> pendingText, final |-> h]
        BY <2>4, <3>4, <4>1
      <4>3. flight'.final = TRUE /\ flight'.text = pendingText
        BY <3>1, <4>2
      <4>4. timer' = timer /\ pendingText' = pendingText
        BY <2>1
      <4> QED BY <3>1, <3>2, <3>4, <4>3, <4>4 DEF ChainInv
    <3>5. CASE stage' # "finalizing"
      <4>1. stage' = "delivered" /\ flight' = NoFlight
        BY <2>1, <2>4, <2>7, <3>1, <3>5 DEF Resumed
      <4>2. ~flight'.final
        BY <4>1 DEF NoFlight
      <4>3. timer' = timer /\ pendingText' = pendingText
        BY <2>1
      <4>4. \A n \in 1..Len(chain') : ~chain'[n]
        BY <3>3
      <4> QED BY <3>1, <3>2, <3>5, <4>1, <4>2, <4>3, <4>4 DEF ChainInv
    <3> QED BY <3>4, <3>5
  <2>8. CASE stage = "finalizing" /\ Len(chain) # 1
    <3>1. 1 \in 1..(Len(chain) - 1) /\ Len(chain) \in Nat
      BY <2>3, <2>8
    <3>2. h = FALSE
      BY <2>1, <2>2, <2>6, <2>8, <3>1 DEF ChainInv
    <3>3. chain' # <<>> /\ chain'[Len(chain')]
      <4>1. Len(chain') \in 1..Len(chain') /\ Len(chain') + 1 = Len(chain)
        BY <2>3, <2>8
      <4>2. chain' # <<>>
        BY <2>3, <2>8
      <4>3. chain'[Len(chain')] = chain[Len(chain)]
        BY <2>3, <4>1
      <4> QED BY <2>1, <2>3, <2>6, <2>8, <4>3, <4>2 DEF ChainInv
    <3>4. \A n \in 1..(Len(chain') - 1) : ~chain'[n]
      <4>1. ASSUME NEW n \in 1..(Len(chain') - 1) PROVE ~chain'[n]
        <5>1. n \in 1..Len(chain') /\ n + 1 \in 1..(Len(chain) - 1)
          BY <2>3
        <5>2. ~chain[n + 1] /\ chain'[n] = chain[n + 1]
          BY <2>1, <2>3, <2>6, <2>8, <5>1 DEF ChainInv
        <5> QED BY <5>2
      <4> QED BY <4>1
    <3>5. ~flight'.final /\ stage' = "finalizing"
      BY <2>4, <2>5, <2>6, <2>8, <3>2 DEF Resumed
    <3>6. flight' # NoFlight => flight'.text # NoText
      BY <2>1, <2>4, <2>5
    <3>7. ~timer' /\ pendingText' \notin {NoText, Placeholder}
      BY <2>1, <2>8 DEF ChainInv
    <3> QED BY <3>3, <3>4, <3>5, <3>6, <3>7 DEF ChainInv
  <2>9. CASE stage # "finalizing"
    <3>1. h = FALSE
      <4>1. 1 \in 1..Len(chain)
        BY <2>3
      <4> QED BY <2>2, <2>9, <4>1 DEF ChainInv
    <3>2. \A n \in 1..Len(chain') : ~chain'[n]
      <4>1. ASSUME NEW n \in 1..Len(chain') PROVE ~chain'[n]
        <5>1. n + 1 \in 1..Len(chain)
          BY <2>3
        <5>2. ~chain[n + 1] /\ chain'[n] = chain[n + 1]
          BY <2>3, <2>9, <5>1 DEF ChainInv
        <5> QED BY <5>2
      <4> QED BY <4>1
    <3>3. ~flight'.final /\ stage' = stage
      BY <2>4, <2>5, <2>6, <3>1 DEF Resumed
    <3>4. flight' # NoFlight => flight'.text # NoText
      BY <2>1, <2>4, <2>5
    <3> QED BY <2>1, <2>9, <3>2, <3>3, <3>4 DEF ChainInv
  <2> QED BY <2>7, <2>8, <2>9
<1>3. CASE SendReturns
  <2>1. SendDone
    BY <1>3, SendFacts
  <2>2. flight' = NoFlight /\ ~flight'.final
    BY <2>1 DEF SendDone, NoFlight
  <2> QED BY <2>1, <2>2 DEF SendDone, Resumed
<1>4. ASSUME NEW t \in Tools, NEW n \in ItemKinds, OnToolItem(t, n) PROVE ChainInv'
  <2>1. PICK c \in CallRec : ItemEmitted(t, n, c)
    BY <1>4, EmittedFacts
  <2> QED BY <2>1 DEF ItemEmitted
<1>5. ASSUME NEW i \in Items, AnchorReturns(i) PROVE ChainInv'
  <2>1. PICK c \in CallRec : AnchorSent(i, c)
    BY <1>5, AnchorFacts
  <2> QED BY <2>1 DEF AnchorSent
<1>6. ASSUME NEW i \in Items, ToolStartReturns(i) PROVE ChainInv'
  <2>1. PICK c \in CallRec : StartSent(i, c)
    BY <1>6, StartFacts
  <2> QED BY <2>1 DEF StartSent
<1>7. ASSUME NEW i \in Items, ToolEndReturns(i) PROVE ChainInv'
  <2>1. PICK c \in CallRec : EndSent(i, c)
    BY <1>7, EndFacts
  <2> QED BY <2>1 DEF EndSent
<1>8. CASE OnPartialReply \/ RunEnds \/ DispatchRejects
  BY <1>8 DEF OnPartialReply, Update,
       RunEnds, DispatchRejects
<1>9. CASE DeliverText
  <2>1. /\ stage = "finals" /\ stage' = "finalizing" /\ finals < MaxFinals
        /\ chain' = Append(chain, TRUE) /\ timer' = FALSE /\ flight' = flight
        /\ pendingText' \in FinalTexts(finals + 1) \ {NoText}
    BY <1>9 DEF DeliverText
  <2>2. /\ Len(chain) \in Nat /\ Len(chain') = Len(chain) + 1 /\ chain' # <<>>
        /\ \A n \in 1..Len(chain) : chain'[n] = chain[n]
        /\ chain'[Len(chain) + 1] = TRUE
    BY <2>1, ChainGrows
  <2>3. ~flight.final /\ \A n \in 1..Len(chain) : ~chain[n]
    BY <2>1 DEF ChainInv
  <2>4. \A n \in 1..(Len(chain') - 1) : ~chain'[n]
    <3>1. Len(chain') - 1 = Len(chain)
      BY <2>2
    <3> QED BY <2>2, <2>3, <3>1
  <2>5. chain'[Len(chain')]
    BY <2>2
  <2>6. pendingText' \notin {NoText, Placeholder}
    BY <2>1, FinalFacts
  <2>7. flight # NoFlight => flight.text # NoText
    BY DEF ChainInv
  <2> QED BY <2>1, <2>2, <2>3, <2>4, <2>5, <2>6, <2>7 DEF ChainInv
<1>10. CASE DeliverBlank
  BY <1>10 DEF DeliverBlank, Reset
<1>11. CASE FinalizeReturns
  BY <1>11 DEF FinalizeReturns, Reset
<1>12. CASE DispatchReturns \/ DisposeReturns
  BY <1>12 DEF DispatchReturns, DisposeReturns
<1> QED BY <1>1, <1>2, <1>3, <1>4, <1>5, <1>6, <1>7, <1>8, <1>9, <1>10, <1>11, <1>12 DEF
     Next

-----------------------------------------------------------------------------
(* Answers, and what was said with push *)

Answered == [text |-> pendingText, sent |-> lastSent = pendingText]

LEMMA AnswerAdded ==
    ASSUME TypeOK, DataOK
    PROVE  /\ Len(answers) \in Nat /\ DOMAIN answers = 1..Len(answers)
           /\ Len(Append(answers, Answered)) = Len(answers) + 1
           /\ DOMAIN Append(answers, Answered) = 1..(Len(answers) + 1)
           /\ \A i \in 1..Len(answers) : Append(answers, Answered)[i] = answers[i]
           /\ Append(answers, Answered)[Len(answers) + 1].text = pendingText
           /\ Append(answers, Answered)[Len(answers) + 1].sent <=> lastSent = pendingText
<1> DEFINE r == Answered
<1>1. r \in Answer /\ r.text = pendingText /\ (r.sent <=> lastSent = pendingText)
  BY DEF TypeOK, Answered, Answer
<1>2. answers \in Seq(Answer)
  BY DEF DataOK, Answer
<1> HIDE DEF r
<1>3. /\ Len(answers) \in Nat /\ DOMAIN answers = 1..Len(answers)
      /\ Append(answers, r) \in Seq(Answer) /\ Len(Append(answers, r)) = Len(answers) + 1
      /\ \A i \in 1..Len(answers) : Append(answers, r)[i] = answers[i]
      /\ Append(answers, r)[Len(answers) + 1] = r
  BY <1>1, <1>2, AppendProperties, LenProperties
<1>4. DOMAIN Append(answers, r) = 1..(Len(answers) + 1)
  BY <1>3, LenProperties
<1> QED BY <1>1, <1>3, <1>4 DEF r

\* A flush ends when deliver goes on, and only then a final is answered.
Flushed ==
    /\ stage = "delivered" /\ stage' = "finals" /\ answers' = Append(answers, Answered)
    /\ eventId' = 0 /\ lastSent' = NoText /\ pendingText' = NoText /\ timer' = FALSE
    /\ UNCHANGED <<chain, flight, disposed, toolVars, partials, finals, roomVars, faults>>

LEMMA FlushLasts ==
    ASSUME Next
    PROVE  \/ Flushed
           \/ answers' = answers /\ (Flushing => Flushing' /\ pendingText' = pendingText)
<1> USE DEF Flushing, draftVars, toolVars, hostVars, roomVars
<1>1. CASE TimerFires
  BY <1>1 DEF TimerFires
<1>2. CASE StartSendOrEdit
  BY <1>2 DEF StartSendOrEdit, Resumed
<1>3. CASE SendReturns
  BY <1>3 DEF SendReturns, Resumed
<1>4. ASSUME NEW t \in Tools, NEW n \in ItemKinds, OnToolItem(t, n)
      PROVE  answers' = answers /\ (Flushing => Flushing' /\ pendingText' = pendingText)
  BY <1>4 DEF OnToolItem
<1>5. ASSUME NEW i \in Items, AnchorReturns(i)
      PROVE  answers' = answers /\ (Flushing => Flushing' /\ pendingText' = pendingText)
  BY <1>5 DEF AnchorReturns
<1>6. ASSUME NEW i \in Items, ToolStartReturns(i)
      PROVE  answers' = answers /\ (Flushing => Flushing' /\ pendingText' = pendingText)
  BY <1>6 DEF ToolStartReturns
<1>7. ASSUME NEW i \in Items, ToolEndReturns(i)
      PROVE  answers' = answers /\ (Flushing => Flushing' /\ pendingText' = pendingText)
  BY <1>7 DEF ToolEndReturns
<1>8. CASE OnPartialReply
  BY <1>8 DEF OnPartialReply, Update
<1>11. CASE RunEnds
  BY <1>11 DEF RunEnds
<1>12. CASE DispatchRejects
  BY <1>12 DEF DispatchRejects
<1>13. CASE DeliverText
  BY <1>13 DEF DeliverText
<1>14. CASE DeliverBlank
  BY <1>14 DEF DeliverBlank, Reset
<1>15. CASE FinalizeReturns
  BY <1>15 DEF FinalizeReturns, Reset, Flushed, Answered
<1>16. CASE DispatchReturns
  BY <1>16 DEF DispatchReturns
<1>17. CASE DisposeReturns
  BY <1>17 DEF DisposeReturns
<1> QED BY <1>1, <1>2, <1>3, <1>4, <1>5, <1>6, <1>7, <1>8, <1>11, <1>12,
     <1>13, <1>14, <1>15, <1>16, <1>17 DEF Next

LEMMA AnswersGrow ==
    ASSUME TypeOK, DataOK, Next
    PROVE  /\ AnswerTexts \subseteq AnswerTexts'
           /\ Flushed => AnswerTexts' = AnswerTexts \cup {pendingText}
<1>1. CASE answers' = answers
  <2>1. ASSUME Flushed PROVE FALSE
    <3>1. answers = Append(answers, Answered)
      BY <1>1, <2>1 DEF Flushed
    <3>2. Len(answers) \in Nat /\ Len(Append(answers, Answered)) = Len(answers) + 1
      BY AnswerAdded
    <3>3. Len(answers) = Len(answers) + 1
      BY <3>1, <3>2
    <3> QED BY <3>2, <3>3
  <2> QED BY <1>1, <2>1 DEF AnswerTexts
<1>2. CASE Flushed
  <2>1. /\ Len(answers) \in Nat /\ DOMAIN answers = 1..Len(answers)
        /\ DOMAIN answers' = 1..(Len(answers) + 1)
        /\ \A i \in 1..Len(answers) : answers'[i] = answers[i]
        /\ answers'[Len(answers) + 1].text = pendingText
    BY <1>2, AnswerAdded DEF Flushed
  <2>2. ASSUME NEW x \in AnswerTexts PROVE x \in AnswerTexts'
    <3>1. PICK i \in DOMAIN answers : x = answers[i].text
      BY DEF AnswerTexts
    <3>2. i \in DOMAIN answers' /\ x = answers'[i].text
      BY <2>1, <3>1
    <3> QED BY <3>2 DEF AnswerTexts
  <2>3. pendingText \in AnswerTexts'
    <3>1. Len(answers) + 1 \in DOMAIN answers'
      BY <2>1
    <3> QED BY <2>1, <3>1 DEF AnswerTexts
  <2>4. ASSUME NEW x \in AnswerTexts' PROVE x \in AnswerTexts \cup {pendingText}
    <3>1. PICK i \in DOMAIN answers' : x = answers'[i].text
      BY DEF AnswerTexts
    <3>2. i \in DOMAIN answers \/ i = Len(answers) + 1
      BY <2>1
    <3> QED BY <2>1, <3>1, <3>2 DEF AnswerTexts
  <2> QED BY <2>2, <2>3, <2>4
<1> QED BY <1>1, <1>2, FlushLasts

\* What may have been said with push.
Sayable == {NoText} \cup AnswerTexts \cup (IF Flushing THEN {pendingText} ELSE {})

LEMMA SayableGrows ==
    ASSUME TypeOK, DataOK, Next
    PROVE  Sayable \subseteq Sayable'
<1>1. CASE Flushed
  BY <1>1, AnswersGrow DEF Sayable
<1>2. CASE ~Flushed
  <2>1. Flushing => Flushing' /\ pendingText' = pendingText
    BY <1>2, FlushLasts
  <2> QED BY <2>1, AnswersGrow DEF Sayable
<1> QED BY <1>1, <1>2

LEMMA PushStep ==
    ASSUME TypeOK, DataOK, ChainInv, PushOnlyFinals, Next
    PROVE  PushOnlyFinals'
<1>1. \A m \in 1..Len(msgs) : msgs[m].pushed \in Sayable
  BY RoomGrows DEF PushOnlyFinals, Sayable, Flushing
<1>2. SUFFICES \A m \in 1..Len(msgs') : msgs'[m].pushed \in Sayable'
  BY RoomGrows DEF PushOnlyFinals, Sayable, Flushing
<1>3. CASE msgs' = msgs
  BY <1>1, <1>3, SayableGrows
<1>4. CASE SendReturns
  <2>1. SendDone
    BY <1>4, SendFacts
  <2>2. msgs' = msgs \/ msgs' = Written
    BY <2>1 DEF SendDone
  <2>3. CASE msgs' = Written
    <3>1. ASSUME NEW m \in 1..Len(msgs') PROVE m \in 1..Len(msgs) \/ m = Place
      BY <2>3, WrittenFacts DEF Place
    <3>2. flight.final => flight.text \in Sayable'
      <4>1. flight.final => stage = "finalizing" /\ flight.text = pendingText
        BY DEF ChainInv
      <4>2. stage = "finalizing" => Flushing /\ pendingText \in Sayable
        BY DEF Sayable, Flushing
      <4> QED BY <4>1, <4>2, SayableGrows
    <3>3. NoText \in Sayable'
      BY DEF Sayable
    <3>4. flight.to # 0 => flight.to \in 1..Len(msgs)
      BY RoomGrows DEF TypeOK
    <3>5. msgs'[Place].pushed \in Sayable'
      BY <1>1, <2>3, <3>2, <3>3, <3>4, WrittenFacts, SayableGrows
    <3>6. \A m \in 1..Len(msgs) : m # Place => msgs'[m] = msgs[m]
      BY <2>3, WrittenFacts
    <3> QED BY <1>1, <3>1, <3>5, <3>6, SayableGrows
  <2> QED BY <1>3, <2>2, <2>3
<1>5. ASSUME NEW i \in Items, AnchorReturns(i)
      PROVE  \A m \in 1..Len(msgs') : msgs'[m].pushed \in Sayable'
  <2>1. PICK c \in CallRec : AnchorSent(i, c)
    BY <1>5, AnchorFacts
  <2>2. CASE msgs' = Anchored
    <3>1. \A m \in 1..Len(msgs') : m \in 1..Len(msgs) \/ m = Len(msgs) + 1
      BY <2>2, AnchoredFacts
    <3>2. NoText \in Sayable'
      BY DEF Sayable
    <3> QED BY <1>1, <2>2, <3>1, <3>2, AnchoredFacts, SayableGrows
  <2> QED BY <1>3, <2>1, <2>2 DEF AnchorSent
<1>6. SendReturns \/ (\E i \in Items : AnchorReturns(i)) \/ msgs' = msgs
  BY RoomKept
<1> QED BY <1>3, <1>4, <1>5, <1>6

-----------------------------------------------------------------------------
(* The order of the texts *)

LEMMA NumFacts ==
    ASSUME TypeOK, DataOK
    PROVE  /\ lastSent \in Nat /\ pendingText \in Nat /\ flight.text \in Nat
           /\ lastSent <= Placeholder /\ flight.text <= Placeholder
           /\ partials \in Nat /\ finals \in Nat /\ partials <= MaxPartials
           /\ MaxPartials \in Nat /\ MaxFinals \in Nat /\ partials < Placeholder
           /\ Partial(partials) = partials
<1>1. /\ lastSent \in Texts /\ pendingText \in Texts /\ flight.text \in Texts
      /\ partials \in 0..MaxPartials /\ finals \in 0..MaxFinals
  BY DEF TypeOK, DataOK
<1>2. MaxPartials \in Nat /\ MaxFinals \in Nat
  BY TurnAssumption
<1>3. Partial(partials) = partials /\ partials < Placeholder
  BY <1>1, TextFacts
<1>4. /\ lastSent \in Nat /\ pendingText \in Nat /\ flight.text \in Nat
      /\ lastSent <= Placeholder /\ flight.text <= Placeholder
  BY <1>1, TextFacts
<1> QED BY <1>1, <1>2, <1>3, <1>4

\* sendOrEdit ends a flush, and changes the stage no other way.
LEMMA StageMoves ==
    ASSUME TypeOK, ChainInv, StartSendOrEdit \/ SendReturns
    PROVE  stage' = stage \/ (stage = "finalizing" /\ stage' = "delivered")
<1>1. CASE StartSendOrEdit
  <2>1. PICK h \in BOOLEAN : h = Head(chain) /\ h = chain[1]
    BY <1>1, ChainShrinks DEF StartSendOrEdit
  <2>2. stage' = stage \/ stage' = Resumed(h)
    BY <1>1, <2>1 DEF StartSendOrEdit
  <2>3. CASE h
    <3>1. 1 \in 1..Len(chain)
      BY <1>1, ChainShrinks DEF StartSendOrEdit
    <3>2. stage = "finalizing"
      BY <2>1, <2>3, <3>1 DEF ChainInv
    <3> QED BY <2>2, <2>3, <3>2 DEF Resumed
  <2> QED BY <2>2, <2>3 DEF Resumed
<1>2. CASE SendReturns
  <2>1. stage' = Resumed(flight.final) /\ (flight.final => stage = "finalizing")
    BY <1>2 DEF SendReturns, ChainInv
  <2> QED BY <2>1 DEF Resumed
<1> QED BY <1>1, <1>2

LEMMA FinalsStep ==
    ASSUME TypeOK, DataOK, ChainInv, FinalsInv, Next
    PROVE  FinalsInv'
<1> USE DEF FinalsInv, Flushing, draftVars, toolVars, hostVars, roomVars
<1>1. CASE TimerFires
  BY <1>1 DEF TimerFires
<1>2. CASE StartSendOrEdit
  BY <1>2, StageMoves DEF StartSendOrEdit, Resumed
<1>3. CASE SendReturns
  <2>1. SendDone
    BY <1>3, SendFacts
  <2> QED BY <2>1, <1>3, StageMoves DEF SendDone
<1>4. ASSUME NEW t \in Tools, NEW n \in ItemKinds, OnToolItem(t, n) PROVE FinalsInv'
  <2>1. PICK c \in CallRec : ItemEmitted(t, n, c)
    BY <1>4, EmittedFacts
  <2> QED BY <2>1 DEF ItemEmitted
<1>5. ASSUME NEW i \in Items, AnchorReturns(i) PROVE FinalsInv'
  <2>1. PICK c \in CallRec : AnchorSent(i, c)
    BY <1>5, AnchorFacts
  <2> QED BY <2>1 DEF AnchorSent
<1>6. ASSUME NEW i \in Items, ToolStartReturns(i) PROVE FinalsInv'
  <2>1. PICK c \in CallRec : StartSent(i, c)
    BY <1>6, StartFacts
  <2> QED BY <2>1 DEF StartSent
<1>7. ASSUME NEW i \in Items, ToolEndReturns(i) PROVE FinalsInv'
  <2>1. PICK c \in CallRec : EndSent(i, c)
    BY <1>7, EndFacts
  <2> QED BY <2>1 DEF EndSent
<1>8. CASE OnPartialReply \/ RunEnds \/ DispatchRejects
  BY <1>8 DEF OnPartialReply, Update,
       RunEnds, DispatchRejects
<1>9. CASE DeliverText
  BY <1>9, NumFacts, AnswerAdded DEF DeliverText
<1>10. CASE DeliverBlank
  BY <1>10, NumFacts, AnswerAdded DEF DeliverBlank, Reset
<1>11. CASE FinalizeReturns
  <2>1. /\ stage = "delivered" /\ stage' = "finals" /\ finals' = finals
        /\ answers' = Append(answers, Answered)
    BY <1>11 DEF FinalizeReturns, Answered
  <2>2. Len(answers') = Len(answers) + 1
    BY <2>1, AnswerAdded
  <2> QED BY <2>1, <2>2
<1>12. CASE DispatchReturns \/ DisposeReturns
  BY <1>12 DEF DispatchReturns, DisposeReturns
<1> QED BY <1>1, <1>2, <1>3, <1>4, <1>5, <1>6, <1>7, <1>8, <1>9, <1>10, <1>11, <1>12 DEF
     Next

LEMMA OrderStep ==
    ASSUME TypeOK, DataOK, ChainInv, FinalsInv, OrderInv, Next
    PROVE  OrderInv'
<1> USE DEF OrderInv, Flushing, draftVars, toolVars, hostVars, roomVars
<1>1. CASE TimerFires
  BY <1>1 DEF TimerFires
<1>2. CASE StartSendOrEdit
  <2>1. /\ flight = NoFlight /\ UNCHANGED <<pendingText, lastSent, partials, finals>>
    BY <1>2 DEF StartSendOrEdit
  <2>2. stage' = stage \/ stage' = "delivered"
    BY <1>2, StageMoves
  <2>3. CASE flight' = flight
    BY <2>1, <2>2, <2>3, NumFacts
  <2>4. CASE flight' # flight
    <3>1. /\ pendingText # NoText /\ pendingText # lastSent /\ flight'.text = pendingText
      BY <1>2, <2>4 DEF StartSendOrEdit
    <3> QED BY <2>1, <2>2, <3>1, NumFacts, TextFacts
  <2> QED BY <2>3, <2>4
<1>3. CASE SendReturns
  <2>1. SendDone
    BY <1>3, SendFacts
  <2>2. flight' = NoFlight /\ flight'.text = 0
    BY <2>1, TextFacts DEF SendDone, NoFlight
  <2>3. /\ UNCHANGED <<pendingText, partials, finals>>
        /\ stage' = stage \/ stage' = "delivered"
        /\ lastSent' = lastSent \/ lastSent' = flight.text
        /\ flight # NoFlight
    BY <1>3, <2>1, StageMoves DEF SendDone
  <2>4. flight.text # NoText
    BY <2>3 DEF ChainInv
  <2> QED BY <2>4, <2>2, <2>3, NumFacts, TextFacts
<1>4. ASSUME NEW t \in Tools, NEW n \in ItemKinds, OnToolItem(t, n) PROVE OrderInv'
  <2>1. PICK c \in CallRec : ItemEmitted(t, n, c)
    BY <1>4, EmittedFacts
  <2> QED BY <2>1 DEF ItemEmitted
<1>5. ASSUME NEW i \in Items, AnchorReturns(i) PROVE OrderInv'
  <2>1. PICK c \in CallRec : AnchorSent(i, c)
    BY <1>5, AnchorFacts
  <2> QED BY <2>1, TextFacts, NumFacts DEF AnchorSent
<1>6. ASSUME NEW i \in Items, ToolStartReturns(i) PROVE OrderInv'
  <2>1. PICK c \in CallRec : StartSent(i, c)
    BY <1>6, StartFacts
  <2> QED BY <2>1 DEF StartSent
<1>7. ASSUME NEW i \in Items, ToolEndReturns(i) PROVE OrderInv'
  <2>1. PICK c \in CallRec : EndSent(i, c)
    BY <1>7, EndFacts
  <2> QED BY <2>1 DEF EndSent
<1>8. CASE OnPartialReply
  <2>1. /\ stage = "run" /\ stage' = stage /\ partials' = partials + 1
        /\ pendingText' = Partial(partials + 1) /\ finals' = finals
        /\ UNCHANGED <<flight, lastSent>> /\ partials < MaxPartials
    BY <1>8 DEF OnPartialReply, Update
  <2>2. partials + 1 \in 0..MaxPartials
    BY <2>1, NumFacts
  <2>3. pendingText' = partials + 1 /\ Partial(partials') = partials + 1
    BY <2>1, <2>2, TextFacts
  <2> QED BY <2>1, <2>3, NumFacts, TextFacts
<1>9. CASE RunEnds \/ DispatchRejects
  BY <1>9 DEF RunEnds, DispatchRejects
<1>10. CASE DeliverText
  <2>1. /\ stage = "finals" /\ stage' = "finalizing" /\ finals < MaxFinals
        /\ pendingText' \in FinalTexts(finals + 1) \ {NoText}
        /\ UNCHANGED <<flight, lastSent, partials>>
    BY <1>10 DEF DeliverText
  <2>2. /\ pendingText' \in Nat /\ pendingText' # Placeholder
        /\ (finals = 0 /\ pendingText' = partials) \/ pendingText' > MaxPartials
    BY <2>1, FinalFacts
  <2> QED BY <2>1, <2>2, NumFacts, TextFacts
<1>11. CASE DeliverBlank
  <2>1. /\ stage = "finals" /\ stage' = "finals" /\ finals' = finals + 1
        /\ pendingText' = NoText /\ lastSent' = NoText
        /\ UNCHANGED <<flight, partials>>
    BY <1>11 DEF DeliverBlank, Reset
  <2> QED BY <2>1, NumFacts, TextFacts
<1>12. CASE FinalizeReturns
  <2>1. /\ stage = "delivered" /\ stage' = "finals" /\ UNCHANGED <<flight, partials, finals>>
        /\ pendingText' = NoText /\ lastSent' = NoText
    BY <1>12 DEF FinalizeReturns, Reset
  <2>2. finals > 0
    BY <2>1, NumFacts, AnswerAdded DEF FinalsInv
  <2>3. flight' = NoFlight /\ flight'.text = 0
    BY <2>1, TextFacts DEF ChainInv, NoFlight
  <2> QED BY <2>1, <2>2, <2>3, NumFacts, TextFacts
<1>13. CASE DispatchReturns \/ DisposeReturns
  BY <1>13 DEF DispatchReturns, DisposeReturns
<1> QED BY <1>1, <1>2, <1>3, <1>4, <1>5, <1>6, <1>7, <1>8, <1>9, <1>10, <1>11, <1>12,
     <1>13 DEF Next

\* Only the message under way is edited.
LEMMA OthersKept ==
    ASSUME TypeOK, DataOK, Next, NEW m \in 1..Len(msgs), m # flight.to
    PROVE  m \in 1..Len(msgs') /\ msgs'[m] = msgs[m]
<1>1. m \in 1..Len(msgs')
  BY RoomGrows
<1>2. CASE SendReturns
  BY <1>1, <1>2, SendFacts, WrittenFacts DEF SendDone, Place
<1>3. CASE \E i \in Items : AnchorReturns(i)
  <2>1. PICK i \in Items : AnchorReturns(i)
    BY <1>3
  <2>2. PICK c \in CallRec : AnchorSent(i, c)
    BY <2>1, AnchorFacts
  <2> QED BY <1>1, <2>2, AnchoredFacts DEF AnchorSent
<1> QED BY <1>1, <1>2, <1>3, RoomKept

LEMMA ShownStep ==
    ASSUME TypeOK, DataOK, ChainInv, OrderInv, ShownInv, Next
    PROVE  ShownInv'
<1> USE DEF ShownInv, Shown, draftVars, toolVars, hostVars, roomVars
<1>1. CASE TimerFires
  BY <1>1 DEF TimerFires
<1>2. CASE StartSendOrEdit
  BY <1>2 DEF StartSendOrEdit, Resumed
<1>3. CASE SendReturns
  <2>1. SendDone
    BY <1>3, SendFacts
  <2>2. /\ flight # NoFlight /\ pendingText' = pendingText
        /\ \/ lastSent' = flight.text /\ msgs' = Written
           \/ lastSent' = lastSent /\ (msgs' = msgs \/ msgs' = Written)
    BY <2>1 DEF SendDone
  <2>3. CASE msgs' = Written /\ lastSent' = flight.text
    <3>1. Place \in DOMAIN msgs' /\ msgs'[Place].text = lastSent'
      BY <2>3, WrittenFacts, RoomGrows
    <3> QED BY <3>1
  <2>4. CASE msgs' = Written /\ lastSent' = lastSent
    <3>1. ASSUME lastSent \notin {NoText, Placeholder}, ~(lastSent < pendingText)
          PROVE  \E m \in DOMAIN msgs' : msgs'[m].text = lastSent
      <4>1. PICK m \in 1..Len(msgs) : msgs[m].text = lastSent
        BY <3>1, RoomGrows
      <4>2. lastSent < flight.text /\ flight.text <= pendingText
        BY <2>2, <3>1 DEF OrderInv
      <4>3. FALSE
        BY <3>1, <4>2, NumFacts
      <4> QED BY <4>3
    <3> QED BY <2>2, <2>4, <3>1
  <2>5. CASE msgs' = msgs /\ lastSent' = lastSent
    BY <2>2, <2>5
  <2> QED BY <2>2, <2>3, <2>4, <2>5
<1>4. ASSUME NEW t \in Tools, NEW n \in ItemKinds, OnToolItem(t, n) PROVE ShownInv'
  <2>1. PICK c \in CallRec : ItemEmitted(t, n, c)
    BY <1>4, EmittedFacts
  <2> QED BY <2>1 DEF ItemEmitted
<1>5. ASSUME NEW i \in Items, AnchorReturns(i) PROVE ShownInv'
  <2>1. PICK c \in CallRec : AnchorSent(i, c)
    BY <1>5, AnchorFacts
  <2>2. /\ pendingText' = pendingText
        /\ lastSent' = lastSent \/ lastSent' = Placeholder
        /\ msgs' = msgs \/ msgs' = Anchored
    BY <2>1 DEF AnchorSent
  <2>3. ASSUME NEW m \in DOMAIN msgs PROVE m \in DOMAIN msgs' /\ msgs'[m] = msgs[m]
    BY <2>2, RoomGrows, AnchoredFacts
  <2> QED BY <2>2, <2>3
<1>6. ASSUME NEW i \in Items, ToolStartReturns(i) PROVE ShownInv'
  <2>1. PICK c \in CallRec : StartSent(i, c)
    BY <1>6, StartFacts
  <2> QED BY <2>1 DEF StartSent
<1>7. ASSUME NEW i \in Items, ToolEndReturns(i) PROVE ShownInv'
  <2>1. PICK c \in CallRec : EndSent(i, c)
    BY <1>7, EndFacts
  <2> QED BY <2>1 DEF EndSent
<1>8. CASE OnPartialReply
  <2>1. /\ stage = "run" /\ partials < MaxPartials
        /\ pendingText' = Partial(partials + 1) /\ UNCHANGED <<lastSent, msgs>>
    BY <1>8 DEF OnPartialReply, Update
  <2>2. partials + 1 \in 0..MaxPartials
    BY <2>1, NumFacts
  <2>3. pendingText' = partials + 1
    BY <2>1, <2>2, TextFacts
  <2> QED BY <2>1, <2>3, NumFacts, TextFacts DEF OrderInv, Flushing
<1>9. CASE RunEnds \/ DispatchRejects
  BY <1>9 DEF RunEnds, DispatchRejects
<1>10. CASE DeliverText
  <2>1. /\ stage = "finals" /\ finals < MaxFinals
        /\ pendingText' \in FinalTexts(finals + 1) \ {NoText}
        /\ UNCHANGED <<lastSent, msgs>>
    BY <1>10 DEF DeliverText
  <2>2. /\ pendingText' \in Nat
        /\ (finals = 0 /\ pendingText' = partials) \/ pendingText' > MaxPartials
    BY <2>1, FinalFacts
  <2>3. lastSent \notin {NoText, Placeholder} /\ lastSent < pendingText => lastSent < pendingText'
    BY <2>1, <2>2, NumFacts, TextFacts DEF OrderInv, Flushing
  <2> QED BY <2>1, <2>3
<1>11. CASE DeliverBlank
  BY <1>11 DEF DeliverBlank, Reset
<1>12. CASE FinalizeReturns
  BY <1>12 DEF FinalizeReturns, Reset
<1>13. CASE DispatchReturns \/ DisposeReturns
  BY <1>13 DEF DispatchReturns, DisposeReturns
<1> QED BY <1>1, <1>2, <1>3, <1>4, <1>5, <1>6, <1>7, <1>8, <1>9, <1>10, <1>11, <1>12,
     <1>13 DEF Next

\* The draft goes on with a message of its own, a new one or none.
EventMoves ==
    /\ eventId' \in {0, Len(msgs) + 1, eventId}
    /\ flight'.to \in {0, eventId, flight.to}

LEMMA EventStep ==
    ASSUME TypeOK, DataOK, Next
    PROVE  EventMoves
<1> USE DEF EventMoves, draftVars, toolVars, hostVars, roomVars
<1>1. CASE TimerFires
  BY <1>1 DEF TimerFires
<1>2. CASE StartSendOrEdit
  <2>1. eventId' = eventId
    BY <1>2 DEF StartSendOrEdit
  <2>2. CASE flight' = flight
    BY <2>1, <2>2
  <2>3. CASE flight' # flight
    <3>1. flight' = [to |-> eventId, text |-> pendingText, final |-> Head(chain)]
      BY <1>2, <2>3 DEF StartSendOrEdit
    <3>2. flight'.to = eventId
      BY <3>1
    <3> QED BY <2>1, <3>2
  <2> QED BY <2>2, <2>3
<1>3. CASE SendReturns
  <2>1. SendDone
    BY <1>3, SendFacts
  <2> QED BY <2>1 DEF SendDone, Place, NoFlight
<1>4. ASSUME NEW t \in Tools, NEW n \in ItemKinds, OnToolItem(t, n) PROVE EventMoves
  <2>1. PICK c \in CallRec : ItemEmitted(t, n, c)
    BY <1>4, EmittedFacts
  <2> QED BY <2>1 DEF ItemEmitted
<1>5. ASSUME NEW i \in Items, AnchorReturns(i) PROVE EventMoves
  <2>1. PICK c \in CallRec : AnchorSent(i, c)
    BY <1>5, AnchorFacts
  <2> QED BY <2>1 DEF AnchorSent
<1>6. ASSUME NEW i \in Items, ToolStartReturns(i) PROVE EventMoves
  <2>1. PICK c \in CallRec : StartSent(i, c)
    BY <1>6, StartFacts
  <2> QED BY <2>1 DEF StartSent
<1>7. ASSUME NEW i \in Items, ToolEndReturns(i) PROVE EventMoves
  <2>1. PICK c \in CallRec : EndSent(i, c)
    BY <1>7, EndFacts
  <2> QED BY <2>1 DEF EndSent
<1>8. CASE OnPartialReply \/ RunEnds \/ DispatchRejects
  BY <1>8 DEF OnPartialReply, Update,
       RunEnds, DispatchRejects
<1>9. CASE DeliverText
  BY <1>9 DEF DeliverText
<1>10. CASE DeliverBlank
  BY <1>10 DEF DeliverBlank, Reset
<1>11. CASE FinalizeReturns
  BY <1>11 DEF FinalizeReturns, Reset
<1>12. CASE DispatchReturns \/ DisposeReturns
  BY <1>12 DEF DispatchReturns, DisposeReturns
<1> QED BY <1>1, <1>2, <1>3, <1>4, <1>5, <1>6, <1>7, <1>8, <1>9, <1>10, <1>11, <1>12 DEF
     Next

LEMMA KeptStep ==
    ASSUME TypeOK, DataOK, ChainInv, ShownInv, KeptInv, Next
    PROVE  KeptInv'
<1>1. ASSUME NEW m \in 1..Len(msgs), m # eventId, m # flight.to
      PROVE  /\ m \in DOMAIN msgs' /\ msgs'[m].text = msgs[m].text
             /\ m # eventId' /\ m # flight'.to
  <2>1. m \in DOMAIN msgs' /\ msgs'[m] = msgs[m]
    BY <1>1, OthersKept, RoomGrows
  <2>2. m # 0 /\ m # Len(msgs) + 1
    BY RoomGrows
  <2> QED BY <1>1, <2>1, <2>2, EventStep DEF EventMoves
<1>2. ASSUME NEW i \in DOMAIN answers, answers[i].sent
      PROVE  \E m \in DOMAIN msgs' :
                 msgs'[m].text = answers[i].text /\ m # eventId' /\ m # flight'.to
  <2>1. PICK m \in 1..Len(msgs) :
            msgs[m].text = answers[i].text /\ m # eventId /\ m # flight.to
    BY <1>2, RoomGrows DEF KeptInv
  <2> QED BY <1>1, <2>1
<1>3. CASE answers' = answers
  BY <1>2, <1>3 DEF KeptInv
<1>4. CASE Flushed
  <2>1. /\ Len(answers) \in Nat /\ DOMAIN answers = 1..Len(answers)
        /\ DOMAIN answers' = 1..(Len(answers) + 1)
        /\ \A i \in 1..Len(answers) : answers'[i] = answers[i]
        /\ answers'[Len(answers) + 1].text = pendingText
        /\ answers'[Len(answers) + 1].sent <=> lastSent = pendingText
    BY <1>4, AnswerAdded DEF Flushed
  <2>2. ASSUME lastSent = pendingText
        PROVE  \E m \in DOMAIN msgs' :
                   msgs'[m].text = pendingText /\ m # eventId' /\ m # flight'.to
    <3>1. pendingText \notin {NoText, Placeholder} /\ flight = NoFlight
      BY <1>4 DEF Flushed, ChainInv
    <3>2. ~(lastSent < pendingText)
      BY <2>2, NumFacts
    <3>3. PICK m \in 1..Len(msgs) : msgs[m].text = pendingText
      BY <2>2, <3>1, <3>2, RoomGrows DEF ShownInv, Shown
    <3>4. msgs' = msgs /\ eventId' = 0 /\ flight'.to = 0
      BY <1>4, <3>1 DEF Flushed, NoFlight, roomVars
    <3>5. m # 0 /\ m \in DOMAIN msgs
      BY <3>3, RoomGrows
    <3> QED BY <3>3, <3>4, <3>5
  <2>3. ASSUME NEW i \in DOMAIN answers', answers'[i].sent
        PROVE  \E m \in DOMAIN msgs' :
                   msgs'[m].text = answers'[i].text /\ m # eventId' /\ m # flight'.to
    <3>1. CASE i \in 1..Len(answers)
      <4>1. answers'[i] = answers[i] /\ i \in DOMAIN answers
        BY <2>1, <3>1
      <4>2. answers[i].sent
        BY <2>3, <4>1
      <4> QED BY <1>2, <4>1, <4>2
    <3>2. CASE i = Len(answers) + 1
      BY <2>1, <2>2, <2>3, <3>2
    <3> QED BY <2>1, <3>1, <3>2
  <2> QED BY <2>3 DEF KeptInv
<1> QED BY <1>3, <1>4, FlushLasts

-----------------------------------------------------------------------------
(* The calls under way *)

\* A call of item n of tool t changed to c.
LEMMA CallChanged ==
    ASSUME DataOK, NEW t \in Tools, NEW n \in ItemKinds, NEW c \in CallRec,
           call' = [call EXCEPT ![<<t, n>>] = c]
    PROVE  /\ call'[<<t, n>>] = c
           /\ \A m \in ItemKinds : m # n => call'[<<t, m>>] = call[<<t, m>>]
           /\ \A u \in Tools : \A m \in ItemKinds :
                  u # t => call'[<<u, m>>] = call[<<u, m>>]
           /\ Posting(t)' = IF c.at \in {"anchor", "start"} THEN Posting(t) \cup {n}
                            ELSE Posting(t) \ {n}
<1>1. call'[<<t, n>>] = c
  BY ItemFacts DEF DataOK
<1>2. ASSUME NEW m \in ItemKinds, m # n PROVE call'[<<t, m>>] = call[<<t, m>>]
  <2>1. <<t, m>> \in Items /\ <<t, m>> # <<t, n>>
    BY <1>2, ItemFacts
  <2> QED BY <2>1 DEF DataOK
<1>3. ASSUME NEW u \in Tools, NEW m \in ItemKinds, u # t
      PROVE  call'[<<u, m>>] = call[<<u, m>>]
  <2>1. <<u, m>> \in Items /\ <<u, m>> # <<t, n>>
    BY <1>3, ItemFacts
  <2> QED BY <2>1 DEF DataOK
<1>4. Posting(t)' = IF c.at \in {"anchor", "start"} THEN Posting(t) \cup {n}
                    ELSE Posting(t) \ {n}
  BY <1>1, <1>2 DEF Posting
<1> QED BY <1>1, <1>2, <1>3, <1>4

\* Only the end of the run leaves the stages in which tool items are emitted.
Busied == stage \in {"run", "failed"}

\* A step of the draft or the host.
Apart ==
    /\ UNCHANGED <<toolVars, toolEvents>>
    /\ \/ Busied'
       \/ ~Busied
       \/ \A t \in Tools : \A n, m \in ItemKinds :
              call[<<t, n>>].at # "none" => call[<<t, m>>].at # "none"

LEMMA ApartFacts ==
    ASSUME TypeOK, DataOK, ChainInv, Next
    PROVE  \/ Apart
           \/ \E t \in Tools, n \in ItemKinds : OnToolItem(t, n)
           \/ \E i \in Items : AnchorReturns(i) \/ ToolStartReturns(i) \/ ToolEndReturns(i)
<1> USE DEF Apart, Busied, draftVars, toolVars, hostVars, roomVars
<1>1. CASE TimerFires
  BY <1>1 DEF TimerFires
<1>2. CASE StartSendOrEdit
  <2>1. UNCHANGED <<toolVars, toolEvents>>
    BY <1>2 DEF StartSendOrEdit
  <2> QED BY <1>2, <2>1, StageMoves
<1>3. CASE SendReturns
  <2>1. UNCHANGED <<toolVars, toolEvents>>
    BY <1>3 DEF SendReturns
  <2> QED BY <1>3, <2>1, StageMoves
<1>4. CASE OnPartialReply \/ DispatchRejects
  BY <1>4 DEF OnPartialReply, Update,
       DispatchRejects
<1>5. CASE RunEnds
  BY <1>5, ItemFacts DEF RunEnds
<1>6. CASE DeliverText \/ DeliverBlank
  BY <1>6 DEF DeliverText, DeliverBlank, Reset
<1>7. CASE FinalizeReturns \/ DispatchReturns \/ DisposeReturns
  BY <1>7 DEF FinalizeReturns, Reset, DispatchReturns,
       DisposeReturns
<1> QED BY <1>1, <1>2, <1>3, <1>4, <1>5, <1>6, <1>7 DEF Next

LEMMA EmittedStep ==
    ASSUME TypeOK, DataOK, ChainInv, EmittedInv, Next
    PROVE  EmittedInv'
<1>1. CASE Apart
  BY <1>1 DEF Apart, EmittedInv, Busied, toolVars
<1>2. ASSUME NEW t \in Tools, NEW n \in ItemKinds, OnToolItem(t, n) PROVE EmittedInv'
  BY <1>2 DEF OnToolItem, hostVars, EmittedInv
<1>3. ASSUME NEW i \in Items, AnchorReturns(i) \/ ToolStartReturns(i) \/ ToolEndReturns(i)
      PROVE  EmittedInv'
  <2>1. PICK c \in CallRec : c.at # "none" /\ call' = [call EXCEPT ![i] = c]
    <3>1. ASSUME AnchorReturns(i)
          PROVE  \E c \in CallRec : c.at # "none" /\ call' = [call EXCEPT ![i] = c]
      BY <3>1, AnchorFacts DEF AnchorSent
    <3>2. ASSUME ToolStartReturns(i)
          PROVE  \E c \in CallRec : c.at # "none" /\ call' = [call EXCEPT ![i] = c]
      BY <3>2, StartFacts DEF StartSent, GoesOn, Proceeds
    <3>3. ASSUME ToolEndReturns(i)
          PROVE  \E c \in CallRec : c.at # "none" /\ call' = [call EXCEPT ![i] = c]
      BY <3>3, EndFacts DEF EndSent
    <3> QED BY <1>3, <3>1, <3>2, <3>3
  <2>2. stage' = stage /\ call[i].at # "none"
    BY <1>3 DEF AnchorReturns, ToolStartReturns, ToolEndReturns, hostVars
  <2>3. \A j \in Items : call'[j].at # "none" <=> call[j].at # "none"
    BY <2>1, <2>2 DEF DataOK
  <2>4. \A t \in Tools, n \in ItemKinds : call'[<<t, n>>].at # "none" <=> call[<<t, n>>].at # "none"
    BY <2>3, ItemFacts
  <2> QED BY <2>2, <2>4 DEF EmittedInv
<1> QED BY <1>1, <1>2, <1>3, ApartFacts

-----------------------------------------------------------------------------
(* The events of a tool *)

LEMMA EventSet ==
    ASSUME DataOK, NEW t \in Tools
    PROVE  /\ EventsOf(t) \subseteq 1..Len(toolEvents) /\ DOMAIN toolEvents = 1..Len(toolEvents)
           /\ Len(toolEvents) \in Nat
           /\ IsFiniteSet(EventsOf(t)) /\ IsFiniteSet(Posting(t))
           /\ Cardinality(EventsOf(t)) \in Nat /\ Cardinality(Posting(t)) \in Nat
           /\ Posting(t) # {} => Cardinality(Posting(t)) >= 1
           /\ Posting(t) = {} => Cardinality(Posting(t)) = 0
           /\ mishaps[t] \in Nat
<1>1. /\ DOMAIN toolEvents = 1..Len(toolEvents) /\ Len(toolEvents) \in Nat
      /\ mishaps[t] \in Nat
  BY LenProperties DEF DataOK
<1>2. EventsOf(t) \in SUBSET (1..Len(toolEvents))
  BY <1>1 DEF EventsOf
<1>3. IsFiniteSet(1..Len(toolEvents))
  BY <1>1, FS_Interval
<1>4. IsFiniteSet(ItemKinds)
  <2>1. PICK a, b, c, d : ItemKinds \in {{a, b}, {a, b, c, d}}
    <3>1. ItemKinds = {"tool start", "tool end"}
          \/ ItemKinds = {"tool start", "tool end", "command start", "command end"}
      BY TurnAssumption DEF ToolItems, SubItems
    <3> QED BY <3>1
  <2>2. IsFiniteSet({}) /\ IsFiniteSet({} \cup {a}) /\ IsFiniteSet(({} \cup {a}) \cup {b})
    BY FS_EmptySet, FS_AddElement
  <2>3. IsFiniteSet((({} \cup {a}) \cup {b}) \cup {c})
    BY <2>2, FS_AddElement
  <2>4. IsFiniteSet(((({} \cup {a}) \cup {b}) \cup {c}) \cup {d})
    BY <2>3, FS_AddElement
  <2>5. /\ {a, b} = ({} \cup {a}) \cup {b}
        /\ {a, b, c, d} = ((({} \cup {a}) \cup {b}) \cup {c}) \cup {d}
    OBVIOUS
  <2> QED BY <2>1, <2>2, <2>4, <2>5
<1>5. Posting(t) \in SUBSET ItemKinds
  BY DEF Posting
<1>6. IsFiniteSet(EventsOf(t)) /\ IsFiniteSet(Posting(t))
  BY <1>2, <1>3, <1>4, <1>5, FS_Subset
<1>7. Cardinality(EventsOf(t)) \in Nat /\ Cardinality(Posting(t)) \in Nat
  BY <1>6, FS_CardinalityType
<1>8. Posting(t) = {} <=> Cardinality(Posting(t)) = 0
  BY <1>6, FS_EmptySet
<1> QED BY <1>1, <1>2, <1>6, <1>7, <1>8

LEMMA AddedEvents ==
    ASSUME DataOK, NEW t \in Tools, NEW u \in Nat, toolEvents' = Added(t, u)
    PROVE  /\ EventsOf(t)' = EventsOf(t) \cup {Len(toolEvents) + 1}
           /\ Len(toolEvents) + 1 \notin EventsOf(t)
           /\ Cardinality(EventsOf(t)') = Cardinality(EventsOf(t)) + 1
           /\ toolEvents'[Len(toolEvents) + 1].status = "running"
           /\ \A v \in Tools : v # t =>
                  /\ EventsOf(v)' = EventsOf(v)
                  /\ \A m \in EventsOf(v) : toolEvents'[m].status = toolEvents[m].status
<1>1. /\ toolEvents' \in Seq(ToolEvent) /\ Len(toolEvents') = Len(toolEvents) + 1
      /\ \A m \in 1..Len(toolEvents) : toolEvents'[m] = toolEvents[m]
      /\ toolEvents'[Len(toolEvents) + 1] = [tool |-> t, turn |-> u, status |-> "running"]
      /\ Len(toolEvents) \in Nat
  BY EventAdded
<1>2. DOMAIN toolEvents' = 1..(Len(toolEvents) + 1) /\ DOMAIN toolEvents = 1..Len(toolEvents)
  BY <1>1, EventSet, LenProperties
<1>3. /\ toolEvents'[Len(toolEvents) + 1].tool = t
      /\ toolEvents'[Len(toolEvents) + 1].status = "running"
  BY <1>1
<1>4. EventsOf(t)' = EventsOf(t) \cup {Len(toolEvents) + 1}
  BY <1>1, <1>2, <1>3 DEF EventsOf
<1>5. Len(toolEvents) + 1 \notin EventsOf(t)
  BY <1>1, <1>2 DEF EventsOf
<1>6. ASSUME NEW v \in Tools, v # t
      PROVE  /\ EventsOf(v)' = EventsOf(v)
             /\ \A m \in EventsOf(v) : toolEvents'[m].status = toolEvents[m].status
  BY <1>1, <1>2, <1>3, <1>6 DEF EventsOf
<1>7. IsFiniteSet(EventsOf(t))
  BY EventSet
<1>8. Cardinality(EventsOf(t) \cup {Len(toolEvents) + 1}) = Cardinality(EventsOf(t)) + 1
  BY <1>5, <1>7, FS_AddElement
<1> QED BY <1>3, <1>4, <1>5, <1>6, <1>8

LEMMA SettledEvents ==
    ASSUME DataOK, NEW e, NEW st \in ToolStates, toolEvents' = Settle(e, st)
    PROVE  /\ \A v \in Tools : EventsOf(v)' = EventsOf(v)
           /\ \A m \in DOMAIN toolEvents :
                  toolEvents'[m].status = IF m = e THEN st ELSE toolEvents[m].status
<1>1. /\ toolEvents' \in Seq(ToolEvent) /\ Len(toolEvents') = Len(toolEvents)
      /\ \A m \in 1..Len(toolEvents) :
             /\ toolEvents'[m].tool = toolEvents[m].tool
             /\ toolEvents'[m].status = IF m = e THEN st ELSE toolEvents[m].status
  BY EventSettled
<1>2. DOMAIN toolEvents' = 1..Len(toolEvents) /\ DOMAIN toolEvents = 1..Len(toolEvents)
  BY <1>1, LenProperties DEF DataOK
<1> QED BY <1>1, <1>2 DEF EventsOf

\* Nothing happened to tool u.
Untouched(u) ==
    /\ \A n \in ItemKinds : call'[<<u, n>>] = call[<<u, n>>]
    /\ rec'[u] = rec[u] /\ mishaps'[u] = mishaps[u]
    /\ EventsOf(u)' = EventsOf(u)
    /\ \A m \in EventsOf(u) : toolEvents'[m].status = toolEvents[m].status

ToolFor(t) == PaidFor(t) /\ OwnFor(t) /\ CleanFor(t)

LEMMA UntouchedKept ==
    ASSUME NEW u \in Tools, Untouched(u), ToolFor(u)
    PROVE  ToolFor(u)'
<1>1. /\ \A n \in ItemKinds : call'[<<u, n>>] = call[<<u, n>>]
      /\ rec'[u] = rec[u] /\ mishaps'[u] = mishaps[u] /\ EventsOf(u)' = EventsOf(u)
      /\ \A m \in EventsOf(u) : toolEvents'[m].status = toolEvents[m].status
      /\ PaidFor(u) /\ OwnFor(u) /\ CleanFor(u)
  BY DEF Untouched, ToolFor
<1>2. Posting(u)' = Posting(u)
  BY <1>1 DEF Posting
<1>3. PaidFor(u)'
  BY <1>1, <1>2 DEF PaidFor
<1>4. OwnFor(u)'
  BY <1>1 DEF OwnFor
<1>5. CleanFor(u)'
  <2>1. ASSUME Clean(u) PROVE Clean(u)'
    BY <1>1, <1>2, <2>1 DEF Clean
  <2> QED BY <1>1, <2>1 DEF CleanFor
<1> QED BY <1>3, <1>4, <1>5 DEF ToolFor

LEMMA IdleFacts ==
    ASSUME DataOK, NEW t \in Tools, ~Working(t)
    PROVE  \A n \in ItemKinds : call[<<t, n>>].at \notin Going
BY ItemFacts DEF Working, InFlight, Going

-----------------------------------------------------------------------------
(* What a step does to the tools *)

LEMMA ItemTool ==
    ASSUME TypeOK, DataOK, ToolInv, NEW t \in Tools, NEW n \in ItemKinds, NEW c \in CallRec,
           ItemEmitted(t, n, c)
    PROVE  ToolInv'
<1>1. /\ call[<<t, n>>].at = "none" /\ c.at # "none" /\ toolEvents' = toolEvents
      /\ call' = [call EXCEPT ![<<t, n>>] = c]
  BY DEF ItemEmitted, GoesOn, Proceeds, roomVars
<1>2. PICK b \in BOOLEAN : b = Working(t)
  BY DEF Working
<1>3. /\ mishaps'[t] = IF b THEN mishaps[t] + 1 ELSE mishaps[t]
      /\ \A u \in Tools : u # t => mishaps'[u] = mishaps[u]
  BY <1>2, MishapsKept DEF ItemEmitted
<1>4. /\ call'[<<t, n>>] = c
      /\ \A m \in ItemKinds : m # n => call'[<<t, m>>] = call[<<t, m>>]
      /\ \A u \in Tools : \A m \in ItemKinds : u # t => call'[<<u, m>>] = call[<<u, m>>]
      /\ Posting(t)' = IF c.at \in {"anchor", "start"} THEN Posting(t) \cup {n}
                       ELSE Posting(t) \ {n}
  BY <1>1, CallChanged
<1>5. n \notin Posting(t)
  BY <1>1 DEF Posting
<1>6. \A u \in Tools : EventsOf(u)' = EventsOf(u)
  BY <1>1 DEF EventsOf
<1>7. /\ EventsOf(t) \subseteq 1..Len(toolEvents)
      /\ Len(toolEvents) \in Nat /\ IsFiniteSet(Posting(t))
      /\ Cardinality(EventsOf(t)) \in Nat /\ Cardinality(Posting(t)) \in Nat
      /\ Posting(t) = {} => Cardinality(Posting(t)) = 0
      /\ mishaps[t] \in Nat
  BY EventSet
<1>8. PaidFor(t) /\ OwnFor(t) /\ CleanFor(t)
  BY DEF ToolInv
<1>9. ~b => \A m \in ItemKinds : call[<<t, m>>].at \notin Going
  BY <1>2, IdleFacts
<1>10. rec[t] = NoRec => rec[t].event = 0 /\ rec[t].status = "running"
  BY DEF NoRec
<1>11. CASE rec[t] # NoRec
  <2>1. PICK q \in ToolRec :
            rec' = [rec EXCEPT ![t] = q] /\ Follows(q, n, rec[t]) /\ Proceeds(c, n, q)
    BY <1>11 DEF ItemEmitted, GoesOn
  <2>2. rec'[t] = q /\ \A u \in Tools : u # t => rec'[u] = rec[u]
    BY <2>1 DEF DataOK
  <2>3. q.event = rec[t].event /\ q.event \in EventsOf(t) /\ q # NoRec
    <3>1. q.event = rec[t].event /\ q.event \in EventsOf(t)
      BY <1>8, <1>11, <2>1 DEF Follows, OwnFor
    <3>2. q.event # 0
      BY <1>7, <3>1
    <3> QED BY <3>1, <3>2 DEF NoRec
  <2>4. c.at \in {"end", "done"} /\ Posting(t)' = Posting(t)
    BY <1>4, <1>5, <2>1 DEF Proceeds
  <2>5. PaidFor(t)'
    <3>1. mishaps[t] <= mishaps'[t] /\ mishaps'[t] \in Nat
      BY <1>3, <1>7
    <3>2. Cardinality(EventsOf(t)) + Cardinality(Posting(t)) <= 1 + mishaps'[t]
      BY <1>7, <1>8, <3>1 DEF PaidFor
    <3> QED BY <1>6, <2>2, <2>3, <2>4, <3>2 DEF PaidFor
  <2>6. OwnFor(t)'
    <3>1. c.at = "end" => c.event \in EventsOf(t)
      BY <2>1, <2>3 DEF Proceeds
    <3> QED BY <1>1, <1>4, <1>6, <1>8, <2>2, <2>3, <3>1 DEF OwnFor
  <2>7. ASSUME mishaps'[t] = 0 PROVE Clean(t)'
    <3>1. ~b /\ Clean(t)
      BY <1>3, <1>7, <1>8, <2>7 DEF CleanFor
    <3>2. \A m \in ItemKinds : call[<<t, m>>].at \notin Going
      BY <1>9, <3>1
    <3>3. \A m \in ItemKinds : call'[<<t, m>>].at \in Going => m = n
      BY <1>4, <3>2
    <3>4. Posting(t)' = {}
      BY <2>4, <3>2 DEF Posting, Going
    <3>5. ASSUME NEW m \in EventsOf(t)
          PROVE  /\ q.event = m
                 /\ \/ toolEvents[m].status = q.status
                    \/ \E k \in ItemKinds : call'[<<t, k>>].at = "end"
      <4>1. q.event = m /\ toolEvents[m].status = rec[t].status
        BY <2>3, <3>1, <3>2 DEF Clean, Going
      <4>2. IsEnd(n) => call'[<<t, n>>].at = "end"
        BY <1>4, <2>1 DEF Proceeds
      <4>3. ~IsEnd(n) => q = rec[t]
        BY <2>1 DEF Follows
      <4> QED BY <4>1, <4>2, <4>3
    <3>6. ASSUME NEW m \in ItemKinds
          PROVE  /\ call'[<<t, m>>].at = "end" => /\ call'[<<t, m>>].event = q.event
                                                  /\ call'[<<t, m>>].status = q.status
                 /\ m = "tool end" /\ call'[<<t, m>>].at \in {"end", "done"} =>
                        q.status # "running"
      <4>1. CASE m = n
        <5>1. IsEnd("tool end")
          BY DEF IsEnd
        <5> QED BY <1>4, <2>1, <4>1, <5>1 DEF Proceeds
      <4>2. CASE m # n
        <5>1. call'[<<t, m>>] = call[<<t, m>>] /\ call[<<t, m>>].at # "end"
          BY <1>4, <3>2, <4>2 DEF Going
        <5>2. m = "tool end" /\ call[<<t, m>>].at = "done" => rec[t].status # "running"
          BY <3>1 DEF Clean
        <5>3. q = rec[t] \/ q.status # "running"
          BY <2>1 DEF Follows
        <5> QED BY <5>1, <5>2, <5>3
      <4> QED BY <4>1, <4>2
    <3> QED BY <1>1, <1>6, <2>2, <3>3, <3>4, <3>5, <3>6 DEF Clean
  <2>8. ASSUME NEW u \in Tools, u # t PROVE Untouched(u)
    BY <1>1, <1>3, <1>4, <1>6, <2>2, <2>8 DEF Untouched
  <2>9. ASSUME NEW u \in Tools PROVE ToolFor(u)'
    <3>1. CASE u = t
      BY <2>5, <2>6, <2>7, <3>1 DEF ToolFor, CleanFor
    <3>2. CASE u # t
      BY <2>8, <3>2, UntouchedKept DEF ToolInv, ToolFor
    <3> QED BY <3>1, <3>2
  <2> QED BY <2>9 DEF ToolInv, ToolFor
<1>12. CASE rec[t] = NoRec
  <2>1. rec' = rec /\ c.at \in {"anchor", "start"}
    BY <1>12 DEF ItemEmitted
  <2>2. /\ Posting(t)' = Posting(t) \cup {n}
        /\ Cardinality(Posting(t) \cup {n}) = Cardinality(Posting(t)) + 1
    <3>1. Cardinality(Posting(t) \cup {n}) = Cardinality(Posting(t)) + 1
      BY <1>5, <1>7, FS_AddElement
    <3> QED BY <1>4, <2>1, <3>1
  <2>3. ~b => Posting(t) = {}
    BY <1>9 DEF Posting, Going
  <2>4. PaidFor(t)'
    <3>1. Cardinality(EventsOf(t)) + Cardinality(Posting(t)) + 1 <= 1 + mishaps'[t]
      BY <1>3, <1>7, <1>8, <1>12, <2>3 DEF PaidFor
    <3>2. Cardinality(EventsOf(t)) + Cardinality(Posting(t) \cup {n}) <= 1 + mishaps'[t]
      BY <1>7, <2>2, <3>1
    <3>3. Posting(t)' # {}
      BY <2>2
    <3> QED BY <1>6, <2>2, <3>2, <3>3 DEF PaidFor
  <2>5. OwnFor(t)'
    BY <1>1, <1>4, <1>6, <1>8, <2>1 DEF OwnFor
  <2>6. ASSUME mishaps'[t] = 0 PROVE Clean(t)'
    <3>1. ~b /\ Clean(t)
      BY <1>3, <1>7, <1>8, <2>6 DEF CleanFor
    <3>2. \A m \in ItemKinds : call[<<t, m>>].at \notin Going
      BY <1>9, <3>1
    <3>3. \A m \in ItemKinds : call'[<<t, m>>].at \in Going => m = n
      BY <1>4, <3>2
    <3>4. EventsOf(t) = {}
      <4>1. ASSUME NEW m \in EventsOf(t) PROVE FALSE
        <5>1. rec[t].event = m /\ m \in 1..Len(toolEvents)
          BY <1>7, <3>1 DEF Clean
        <5> QED BY <1>7, <1>10, <1>12, <5>1
      <4> QED BY <4>1
    <3>5. ASSUME NEW m \in ItemKinds
          PROVE  /\ call'[<<t, m>>].at # "end"
                 /\ ~(m = "tool end" /\ call'[<<t, m>>].at \in {"end", "done"})
      <4>1. CASE m = n
        BY <1>4, <2>1, <4>1
      <4>2. CASE m # n
        BY <1>4, <1>10, <1>12, <3>1, <3>2, <4>2 DEF Clean, Going
      <4> QED BY <4>1, <4>2
    <3> QED BY <1>6, <1>12, <2>1, <3>3, <3>4, <3>5 DEF Clean
  <2>7. ASSUME NEW u \in Tools, u # t PROVE Untouched(u)
    BY <1>1, <1>3, <1>4, <1>6, <2>1, <2>7 DEF Untouched
  <2>8. ASSUME NEW u \in Tools PROVE ToolFor(u)'
    <3>1. CASE u = t
      BY <2>4, <2>5, <2>6, <3>1 DEF ToolFor, CleanFor
    <3>2. CASE u # t
      BY <2>7, <3>2, UntouchedKept DEF ToolInv, ToolFor
    <3> QED BY <3>1, <3>2
  <2> QED BY <2>8 DEF ToolInv, ToolFor
<1> QED BY <1>11, <1>12

LEMMA AnchorTool ==
    ASSUME TypeOK, DataOK, ToolInv, NEW t \in Tools, NEW n \in ItemKinds, NEW c \in CallRec,
           AnchorSent(<<t, n>>, c)
    PROVE  ToolInv'
<1>1. /\ call[<<t, n>>].at = "anchor" /\ toolEvents' = toolEvents /\ rec' = rec
      /\ call' = [call EXCEPT ![<<t, n>>] = c]
      /\ \/ c.at = "start" /\ mishaps' = mishaps
         \/ c.at = "done" /\ Missed(t)
  BY DEF AnchorSent
<1>2. /\ call'[<<t, n>>] = c
      /\ \A m \in ItemKinds : m # n => call'[<<t, m>>] = call[<<t, m>>]
      /\ \A u \in Tools : \A m \in ItemKinds : u # t => call'[<<u, m>>] = call[<<u, m>>]
      /\ Posting(t)' = IF c.at \in {"anchor", "start"} THEN Posting(t) \cup {n}
                       ELSE Posting(t) \ {n}
  BY <1>1, CallChanged
<1>3. /\ EventsOf(t) \subseteq 1..Len(toolEvents) /\ DOMAIN toolEvents = 1..Len(toolEvents)
      /\ Len(toolEvents) \in Nat /\ IsFiniteSet(Posting(t)) /\ IsFiniteSet(EventsOf(t))
      /\ Cardinality(EventsOf(t)) \in Nat /\ Cardinality(Posting(t)) \in Nat
      /\ Posting(t) = {} => Cardinality(Posting(t)) = 0
      /\ mishaps[t] \in Nat
  BY EventSet
<1>4. PaidFor(t) /\ OwnFor(t) /\ CleanFor(t)
  BY DEF ToolInv
<1>5. \A u \in Tools : EventsOf(u)' = EventsOf(u)
  BY <1>1 DEF EventsOf
<1>6. n \in Posting(t)
  BY <1>1 DEF Posting
<1>7. Cardinality(Posting(t) \ {n}) = Cardinality(Posting(t)) - 1
  BY <1>3, <1>6, FS_RemoveElement
<1>8. \/ c.at = "start" /\ mishaps'[t] = mishaps[t] /\ Posting(t)' = Posting(t)
      \/ c.at = "done" /\ mishaps'[t] = mishaps[t] + 1 /\ Posting(t)' = Posting(t) \ {n}
  BY <1>1, <1>2, <1>6, MishapAdded
<1>9. \A u \in Tools : u # t => mishaps'[u] = mishaps[u]
  BY <1>1, MishapAdded
<1>10. PaidFor(t)'
  <2>1. /\ Cardinality(EventsOf(t)) + Cardinality(Posting(t)) <= 1 + mishaps[t]
        /\ rec[t] = NoRec /\ Posting(t) = {} => Cardinality(EventsOf(t)) <= mishaps[t]
    BY <1>4 DEF PaidFor
  <2>2. CASE c.at = "start"
    BY <1>1, <1>5, <1>8, <2>1, <2>2 DEF PaidFor
  <2>3. CASE c.at = "done"
    <3>1. /\ Cardinality(EventsOf(t)) + (Cardinality(Posting(t)) - 1) <= 1 + (mishaps[t] + 1)
          /\ Cardinality(EventsOf(t)) <= mishaps[t] + 1
      BY <1>3, <2>1
    <3> QED BY <1>5, <1>7, <1>8, <2>3, <3>1 DEF PaidFor
  <2> QED BY <1>8, <2>2, <2>3
<1>11. OwnFor(t)'
  BY <1>1, <1>2, <1>4, <1>5 DEF OwnFor
<1>12. ASSUME mishaps'[t] = 0 PROVE Clean(t)'
  <2>1. c.at = "start" /\ Posting(t)' = Posting(t) /\ Clean(t)
    BY <1>3, <1>4, <1>8, <1>12 DEF CleanFor
  <2>2. \A m \in ItemKinds : call'[<<t, m>>].at \in Going <=> call[<<t, m>>].at \in Going
    BY <1>1, <1>2, <2>1 DEF Going
  <2>3. \A m \in ItemKinds :
            /\ call'[<<t, m>>].at = "end" <=> call[<<t, m>>].at = "end"
            /\ call'[<<t, m>>].at \in {"end", "done"} => call'[<<t, m>>] = call[<<t, m>>]
    BY <1>1, <1>2, <2>1
  <2>4. rec[t] = NoRec /\ EventsOf(t) = {}
    BY <1>6, <2>1 DEF Clean
  <2> QED BY <1>1, <1>5, <2>1, <2>2, <2>3, <2>4 DEF Clean
<1>13. ASSUME NEW u \in Tools, u # t PROVE Untouched(u)
  BY <1>1, <1>2, <1>5, <1>9, <1>13 DEF Untouched
<1> QED
  <2>1. ASSUME NEW u \in Tools PROVE ToolFor(u)'
    <3>1. CASE u = t
      BY <1>10, <1>11, <1>12, <3>1 DEF ToolFor, CleanFor
    <3>2. CASE u # t
      BY <1>13, <3>2, UntouchedKept DEF ToolInv, ToolFor
    <3> QED BY <3>1, <3>2
  <2> QED BY <2>1 DEF ToolInv, ToolFor

LEMMA StartTool ==
    ASSUME TypeOK, DataOK, ToolInv, NEW t \in Tools, NEW n \in ItemKinds, NEW c \in CallRec,
           StartSent(<<t, n>>, c)
    PROVE  ToolInv'
<1>1. call[<<t, n>>].at = "start" /\ call' = [call EXCEPT ![<<t, n>>] = c]
  BY DEF StartSent
<1>2. /\ call'[<<t, n>>] = c
      /\ \A m \in ItemKinds : m # n => call'[<<t, m>>] = call[<<t, m>>]
      /\ \A u \in Tools : \A m \in ItemKinds : u # t => call'[<<u, m>>] = call[<<u, m>>]
      /\ Posting(t)' = IF c.at \in {"anchor", "start"} THEN Posting(t) \cup {n}
                       ELSE Posting(t) \ {n}
  BY <1>1, CallChanged
<1>3. /\ EventsOf(t) \subseteq 1..Len(toolEvents) /\ DOMAIN toolEvents = 1..Len(toolEvents)
      /\ Len(toolEvents) \in Nat /\ IsFiniteSet(Posting(t)) /\ IsFiniteSet(EventsOf(t))
      /\ Cardinality(EventsOf(t)) \in Nat /\ Cardinality(Posting(t)) \in Nat
      /\ Posting(t) = {} => Cardinality(Posting(t)) = 0
      /\ mishaps[t] \in Nat
  BY EventSet
<1>4. PaidFor(t) /\ OwnFor(t) /\ CleanFor(t)
  BY DEF ToolInv
<1>5. n \in Posting(t)
  BY <1>1 DEF Posting
<1>6. Cardinality(Posting(t) \ {n}) = Cardinality(Posting(t)) - 1
  BY <1>3, <1>5, FS_RemoveElement
<1>7. call[<<t, n>>].turn \in Nat
  BY ItemFacts DEF DataOK
<1>8. /\ Cardinality(EventsOf(t)) + Cardinality(Posting(t)) <= 1 + mishaps[t]
      /\ Cardinality(Posting(t)) >= 1
  BY <1>4, <1>5, EventSet DEF PaidFor
<1>9. toolEvents' = Added(t, call[<<t, n>>].turn) =>
          /\ EventsOf(t)' = EventsOf(t) \cup {Len(toolEvents) + 1}
          /\ Cardinality(EventsOf(t)') = Cardinality(EventsOf(t)) + 1
          /\ toolEvents'[Len(toolEvents) + 1].status = "running"
          /\ \A v \in Tools : v # t =>
                 /\ EventsOf(v)' = EventsOf(v)
                 /\ \A m \in EventsOf(v) : toolEvents'[m].status = toolEvents[m].status
  BY <1>7, AddedEvents
<1>10. CASE c.at = "done" /\ Missed(t) /\ rec' = rec
            /\ (toolEvents' = toolEvents \/ toolEvents' = Added(t, call[<<t, n>>].turn))
  <2>1. /\ mishaps'[t] = mishaps[t] + 1 /\ Posting(t)' = Posting(t) \ {n}
        /\ \A u \in Tools : u # t => mishaps'[u] = mishaps[u]
    BY <1>2, <1>10, MishapAdded
  <2>2. \/ Cardinality(EventsOf(t)') = Cardinality(EventsOf(t)) /\ EventsOf(t)' = EventsOf(t)
        \/ /\ Cardinality(EventsOf(t)') = Cardinality(EventsOf(t)) + 1
           /\ EventsOf(t)' = EventsOf(t) \cup {Len(toolEvents) + 1}
    BY <1>9, <1>10 DEF EventsOf
  <2>3. PaidFor(t)'
    <3>1. /\ Cardinality(EventsOf(t)') + (Cardinality(Posting(t)) - 1) <= 1 + (mishaps[t] + 1)
          /\ Cardinality(EventsOf(t)') <= mishaps[t] + 1
      BY <1>3, <1>8, <2>2
    <3>2. /\ Cardinality(EventsOf(t)') + Cardinality(Posting(t)') <= 1 + mishaps'[t]
          /\ Cardinality(EventsOf(t)') <= mishaps'[t]
      BY <1>6, <2>1, <3>1
    <3> QED BY <3>2 DEF PaidFor
  <2>4. EventsOf(t) \subseteq EventsOf(t)'
    BY <2>2
  <2>5. OwnFor(t)'
    BY <1>2, <1>4, <1>10, <2>4 DEF OwnFor
  <2>6. mishaps'[t] # 0
    BY <1>3, <2>1
  <2>7. ASSUME NEW u \in Tools, u # t PROVE Untouched(u)
    <3>1. EventsOf(u)' = EventsOf(u)
          /\ \A m \in EventsOf(u) : toolEvents'[m].status = toolEvents[m].status
      BY <1>9, <1>10, <2>7 DEF EventsOf
    <3> QED BY <1>2, <1>10, <2>1, <2>7, <3>1 DEF Untouched
  <2>8. ASSUME NEW u \in Tools PROVE ToolFor(u)'
    <3>1. CASE u = t
      BY <2>3, <2>5, <2>6, <3>1 DEF ToolFor, CleanFor
    <3>2. CASE u # t
      BY <2>7, <3>2, UntouchedKept DEF ToolInv, ToolFor
    <3> QED BY <3>1, <3>2
  <2> QED BY <2>8 DEF ToolInv, ToolFor
<1>11. CASE /\ toolEvents' = Added(t, call[<<t, n>>].turn) /\ mishaps' = mishaps
            /\ \E r \in ToolRec : /\ r.event = Len(toolEvents) + 1 /\ r.status = "running"
                                  /\ GoesOn(t, n, r, c)
  <2>1. PICK r \in ToolRec : /\ r.event = Len(toolEvents) + 1 /\ r.status = "running"
                             /\ GoesOn(t, n, r, c)
    BY <1>11
  <2>2. PICK q \in ToolRec :
            rec' = [rec EXCEPT ![t] = q] /\ Follows(q, n, r) /\ Proceeds(c, n, q)
    BY <2>1 DEF GoesOn
  <2>3. /\ rec'[t] = q /\ \A u \in Tools : u # t => rec'[u] = rec[u]
        /\ q.event = Len(toolEvents) + 1 /\ c.at \in {"end", "done"}
        /\ (c.at = "end" => c.event = q.event /\ c.status = q.status)
        /\ (IsEnd(n) => c.at = "end")
        /\ (n = "tool end" => q.status # "running")
        /\ (~IsEnd(n) => q.status = "running")
    <3>1. IsEnd("tool end")
      BY DEF IsEnd
    <3>2. rec'[t] = q /\ \A u \in Tools : u # t => rec'[u] = rec[u]
      BY <2>2 DEF DataOK
    <3>3. q.event = Len(toolEvents) + 1 /\ (q = r \/ IsEnd(n))
      BY <2>1, <2>2 DEF Follows
    <3>4. ~IsEnd(n) => q.status = "running"
      BY <2>1, <3>3
    <3>5. n = "tool end" => IsEnd(n)
      BY <3>1
    <3>6. Proceeds(c, n, q)
      BY <2>2
    <3>7. CASE IsEnd(n)
      BY <3>2, <3>3, <3>4, <3>6, <3>7 DEF Proceeds
    <3>8. CASE ~IsEnd(n)
      BY <3>2, <3>3, <3>4, <3>5, <3>6, <3>8 DEF Proceeds
    <3> QED BY <3>7, <3>8
  <2>4. q # NoRec /\ q.event \in EventsOf(t)'
    <3>1. Len(toolEvents) \in Nat /\ q.event = Len(toolEvents) + 1
      BY <1>3, <2>3
    <3>2. q.event # 0
      BY ONLY <3>1
    <3>3. q # NoRec
      BY <3>2 DEF NoRec
    <3> QED BY <1>9, <1>11, <3>1, <3>3
  <2>5. Posting(t)' = Posting(t) \ {n}
    BY <1>2, <2>3
  <2>6. PaidFor(t)'
    <3>1. Cardinality(EventsOf(t)') + Cardinality(Posting(t)') <= 1 + mishaps[t]
      BY <1>3, <1>6, <1>8, <1>9, <1>11, <2>5
    <3> QED BY <1>11, <2>3, <2>4, <3>1 DEF PaidFor
  <2>7. OwnFor(t)'
    <3>1. \A m \in ItemKinds :
              call'[<<t, m>>].at = "end" => call'[<<t, m>>].event \in EventsOf(t)'
      BY <1>2, <1>4, <1>9, <1>11, <2>3, <2>4 DEF OwnFor
    <3>2. call'[<<t, n>>].at # "none"
      BY <1>2, <2>3
    <3> QED BY <2>3, <2>4, <3>1, <3>2 DEF OwnFor
  <2>8. ASSUME mishaps'[t] = 0 PROVE Clean(t)'
    <3>1. Clean(t) /\ rec[t] = NoRec /\ EventsOf(t) = {}
      BY <1>4, <1>5, <1>11, <2>8 DEF CleanFor, Clean
    <3>2. \A m \in ItemKinds : m # n => call[<<t, m>>].at \notin Going
      BY <1>1, <3>1 DEF Clean, Going
    <3>3. \A m \in ItemKinds : call'[<<t, m>>].at \in Going => m = n
      BY <1>2, <3>2
    <3>4. Posting(t)' = {}
      <4>1. ASSUME NEW m \in Posting(t), m # n PROVE FALSE
        BY <3>2, <4>1 DEF Posting, Going
      <4> QED BY <2>5, <4>1
    <3>5. ASSUME NEW m \in EventsOf(t)'
          PROVE  /\ q.event = m
                 /\ \/ toolEvents'[m].status = q.status
                    \/ \E k \in ItemKinds : call'[<<t, k>>].at = "end"
      <4>1. m = Len(toolEvents) + 1 /\ toolEvents'[m].status = "running"
        BY <1>9, <1>11, <3>1
      <4> QED BY <1>2, <2>3, <4>1
    <3>6. ASSUME NEW m \in ItemKinds
          PROVE  /\ call'[<<t, m>>].at = "end" => /\ call'[<<t, m>>].event = q.event
                                                  /\ call'[<<t, m>>].status = q.status
                 /\ m = "tool end" /\ call'[<<t, m>>].at \in {"end", "done"} =>
                        q.status # "running"
      <4>1. CASE m = n
        BY <1>2, <2>3, <4>1
      <4>2. CASE m # n
        <5>1. call'[<<t, m>>] = call[<<t, m>>] /\ call[<<t, m>>].at # "end"
          BY <1>2, <3>2, <4>2 DEF Going
        <5>2. rec[t].status = "running"
          BY <3>1 DEF NoRec
        <5>3. ~(m = "tool end" /\ call[<<t, m>>].at \in {"end", "done"})
          <6>1. m = "tool end" /\ call[<<t, m>>].at \in {"end", "done"} =>
                    rec[t].status # "running"
            BY <3>1 DEF Clean
          <6> QED BY <5>2, <6>1
        <5> QED BY <5>1, <5>3
      <4> QED BY <4>1, <4>2
    <3> QED BY <2>3, <3>3, <3>4, <3>5, <3>6 DEF Clean
  <2>9. ASSUME NEW u \in Tools, u # t PROVE Untouched(u)
    BY <1>2, <1>9, <1>11, <2>3, <2>9 DEF Untouched
  <2>10. ASSUME NEW u \in Tools PROVE ToolFor(u)'
    <3>1. CASE u = t
      BY <2>6, <2>7, <2>8, <3>1 DEF ToolFor, CleanFor
    <3>2. CASE u # t
      BY <2>9, <3>2, UntouchedKept DEF ToolInv, ToolFor
    <3> QED BY <3>1, <3>2
  <2> QED BY <2>10 DEF ToolInv, ToolFor
<1> QED BY <1>10, <1>11 DEF StartSent

LEMMA EndTool ==
    ASSUME TypeOK, DataOK, ToolInv, NEW t \in Tools, NEW n \in ItemKinds, NEW c \in CallRec,
           EndSent(<<t, n>>, c)
    PROVE  ToolInv'
<1>1. /\ call[<<t, n>>].at = "end" /\ call' = [call EXCEPT ![<<t, n>>] = c]
      /\ c.at = "done" /\ rec' = rec
  BY DEF EndSent
<1>2. /\ call'[<<t, n>>] = c
      /\ \A m \in ItemKinds : m # n => call'[<<t, m>>] = call[<<t, m>>]
      /\ \A u \in Tools : \A m \in ItemKinds : u # t => call'[<<u, m>>] = call[<<u, m>>]
      /\ Posting(t)' = IF c.at \in {"anchor", "start"} THEN Posting(t) \cup {n}
                       ELSE Posting(t) \ {n}
  BY <1>1, CallChanged
<1>3. /\ EventsOf(t) \subseteq 1..Len(toolEvents) /\ DOMAIN toolEvents = 1..Len(toolEvents)
      /\ Len(toolEvents) \in Nat /\ IsFiniteSet(Posting(t)) /\ IsFiniteSet(EventsOf(t))
      /\ Cardinality(EventsOf(t)) \in Nat /\ Cardinality(Posting(t)) \in Nat
      /\ Posting(t) = {} => Cardinality(Posting(t)) = 0
      /\ mishaps[t] \in Nat
  BY EventSet
<1>4. PaidFor(t) /\ OwnFor(t) /\ CleanFor(t)
  BY DEF ToolInv
<1>5. call[<<t, n>>].status \in ToolStates /\ call[<<t, n>>].event \in EventsOf(t)
  BY <1>1, <1>4, ItemFacts DEF DataOK, OwnFor
<1>6. n \notin Posting(t) /\ Posting(t)' = Posting(t)
  BY <1>1, <1>2 DEF Posting
<1>7. PICK e \in EventsOf(t), st \in ToolStates :
          e = call[<<t, n>>].event /\ st = call[<<t, n>>].status
  BY <1>5
<1>8. toolEvents' = Settle(e, st) =>
          \A m \in DOMAIN toolEvents :
              toolEvents'[m].status = IF m = e THEN st ELSE toolEvents[m].status
  BY SettledEvents
<1>9. \A u \in Tools : EventsOf(u)' = EventsOf(u)
  <2>1. toolEvents' = toolEvents \/ toolEvents' = Settle(e, st)
    BY <1>7 DEF EndSent
  <2>2. CASE toolEvents' = toolEvents
    BY <2>2 DEF EventsOf
  <2>3. CASE toolEvents' = Settle(e, st)
    BY <2>3, SettledEvents
  <2> QED BY <2>1, <2>2, <2>3
<1>10. /\ \/ mishaps'[t] = mishaps[t] /\ toolEvents' = Settle(e, st)
          \/ mishaps'[t] = mishaps[t] + 1
       /\ \A u \in Tools : u # t => mishaps'[u] = mishaps[u]
  BY <1>7, MishapAdded DEF EndSent
<1>11. PaidFor(t)'
  <2>1. Cardinality(EventsOf(t)) + Cardinality(Posting(t)) <= 1 + mishaps'[t]
    BY <1>3, <1>4, <1>10 DEF PaidFor
  <2>2. rec[t] = NoRec /\ Posting(t) = {} => Cardinality(EventsOf(t)) <= mishaps'[t]
    BY <1>3, <1>4, <1>10 DEF PaidFor
  <2> QED BY <1>1, <1>6, <1>9, <2>1, <2>2 DEF PaidFor
<1>12. OwnFor(t)'
  BY <1>1, <1>2, <1>4, <1>9 DEF OwnFor
<1>13. ASSUME mishaps'[t] = 0 PROVE Clean(t)'
  <2>1. Clean(t) /\ toolEvents' = Settle(e, st)
    BY <1>3, <1>4, <1>10, <1>13 DEF CleanFor
  <2>2. \A m \in ItemKinds : call'[<<t, m>>].at \in Going => call[<<t, m>>].at \in Going
    BY <1>1, <1>2 DEF Going
  <2>3. \A m \in ItemKinds : m # n => call'[<<t, m>>] = call[<<t, m>>]
    BY <1>2
  <2>4. e = rec[t].event /\ st = rec[t].status
    BY <1>1, <1>7, <2>1 DEF Clean
  <2>5. ASSUME NEW m \in EventsOf(t)
        PROVE  rec[t].event = m /\ toolEvents'[m].status = rec[t].status
    <3>1. rec[t].event = m /\ m \in DOMAIN toolEvents
      BY <1>3, <2>1 DEF Clean
    <3> QED BY <1>8, <2>1, <2>4, <3>1
  <2>6. ASSUME NEW m \in ItemKinds
        PROVE  /\ call'[<<t, m>>].at = "end" => /\ call'[<<t, m>>].event = rec[t].event
                                                /\ call'[<<t, m>>].status = rec[t].status
               /\ m = "tool end" /\ call'[<<t, m>>].at \in {"end", "done"} =>
                      rec[t].status # "running"
    <3>1. CASE m = n
      BY <1>1, <1>2, <2>1, <3>1 DEF Clean
    <3>2. CASE m # n
      BY <2>1, <2>3, <3>2 DEF Clean
    <3> QED BY <3>1, <3>2
  <2>7. Posting(t) # {} => rec[t] = NoRec /\ EventsOf(t) = {}
    BY <2>1 DEF Clean
  <2>8. \A k, m \in ItemKinds :
            call'[<<t, k>>].at \in Going /\ call'[<<t, m>>].at \in Going => k = m
    BY <2>1, <2>2 DEF Clean
  <2> QED BY <1>1, <1>6, <1>9, <2>5, <2>6, <2>7, <2>8 DEF Clean
<1>14. ASSUME NEW u \in Tools, u # t PROVE Untouched(u)
  <2>1. ASSUME NEW m \in EventsOf(u) PROVE toolEvents'[m].status = toolEvents[m].status
    <3>1. m # e /\ m \in DOMAIN toolEvents
      BY <1>5, <1>7, <1>14 DEF EventsOf
    <3>2. toolEvents' = toolEvents \/ toolEvents' = Settle(e, st)
      BY <1>7 DEF EndSent
    <3> QED BY <1>8, <3>1, <3>2
  <2> QED BY <1>1, <1>2, <1>9, <1>10, <1>14, <2>1 DEF Untouched
<1> QED
  <2>1. ASSUME NEW u \in Tools PROVE ToolFor(u)'
    <3>1. CASE u = t
      BY <1>11, <1>12, <1>13, <3>1 DEF ToolFor, CleanFor
    <3>2. CASE u # t
      BY <1>14, <3>2, UntouchedKept DEF ToolInv, ToolFor
    <3> QED BY <3>1, <3>2
  <2> QED BY <2>1 DEF ToolInv, ToolFor

LEMMA ToolStep ==
    ASSUME TypeOK, DataOK, ChainInv, ToolInv, Next
    PROVE  ToolInv'
<1>1. CASE Apart
  <2>1. call' = call /\ rec' = rec /\ mishaps' = mishaps /\ toolEvents' = toolEvents
    BY <1>1 DEF Apart, toolVars
  <2>2. ASSUME NEW u \in Tools PROVE Untouched(u)
    BY <2>1 DEF Untouched, EventsOf
  <2> QED BY <2>2, UntouchedKept DEF ToolInv, ToolFor
<1>2. ASSUME NEW t \in Tools, NEW n \in ItemKinds, OnToolItem(t, n) PROVE ToolInv'
  BY <1>2, EmittedFacts, ItemTool
<1>3. ASSUME NEW i \in Items, AnchorReturns(i) PROVE ToolInv'
  <2>1. PICK t \in Tools, n \in ItemKinds : i = <<t, n>>
    BY ItemFacts
  <2>2. PICK c \in CallRec : AnchorSent(<<t, n>>, c)
    BY <1>3, <2>1, AnchorFacts
  <2> QED BY <2>2, AnchorTool
<1>4. ASSUME NEW i \in Items, ToolStartReturns(i) PROVE ToolInv'
  <2>1. PICK t \in Tools, n \in ItemKinds : i = <<t, n>>
    BY ItemFacts
  <2>2. PICK c \in CallRec : StartSent(<<t, n>>, c)
    BY <1>4, <2>1, StartFacts
  <2> QED BY <2>2, StartTool
<1>5. ASSUME NEW i \in Items, ToolEndReturns(i) PROVE ToolInv'
  <2>1. PICK t \in Tools, n \in ItemKinds : i = <<t, n>>
    BY ItemFacts
  <2>2. PICK c \in CallRec : EndSent(<<t, n>>, c)
    BY <1>5, <2>1, EndFacts
  <2> QED BY <2>2, EndTool
<1> QED BY <1>1, <1>2, <1>3, <1>4, <1>5, ApartFacts

-----------------------------------------------------------------------------
(* A turn without tools where every send is answered *)

LEMMA FlushMoves ==
    ASSUME TypeOK, DataOK, ChainInv, Next, answers' = answers
    PROVE  DeliverText \/ DeliverBlank \/ (finals' = finals /\ (Flushing' <=> Flushing))
<1> USE DEF Flushing, draftVars, toolVars, hostVars, roomVars
<1>1. CASE TimerFires
  BY <1>1 DEF TimerFires
<1>2. CASE StartSendOrEdit
  <2>1. finals' = finals
    BY <1>2 DEF StartSendOrEdit
  <2> QED BY <1>2, <2>1, StageMoves
<1>3. CASE SendReturns
  <2>1. finals' = finals
    BY <1>3 DEF SendReturns
  <2> QED BY <1>3, <2>1, StageMoves
<1>4. ASSUME NEW t \in Tools, NEW n \in ItemKinds, OnToolItem(t, n) PROVE finals' = finals /\ (Flushing' <=> Flushing)
  BY <1>4 DEF OnToolItem
<1>5. ASSUME NEW i \in Items, AnchorReturns(i) PROVE finals' = finals /\ (Flushing' <=> Flushing)
  BY <1>5 DEF AnchorReturns
<1>6. ASSUME NEW i \in Items, ToolStartReturns(i) PROVE finals' = finals /\ (Flushing' <=> Flushing)
  BY <1>6 DEF ToolStartReturns
<1>7. ASSUME NEW i \in Items, ToolEndReturns(i) PROVE finals' = finals /\ (Flushing' <=> Flushing)
  BY <1>7 DEF ToolEndReturns
<1>8. CASE OnPartialReply
  BY <1>8 DEF OnPartialReply, Update
<1>11. CASE RunEnds
  BY <1>11 DEF RunEnds
<1>12. CASE DispatchRejects
  BY <1>12 DEF DispatchRejects
<1>13. CASE FinalizeReturns
  <2>1. stage' = "finals" /\ stage = "delivered"
    BY <1>13 DEF FinalizeReturns
  <2>2. Flushed
    BY <1>13 DEF FinalizeReturns, Flushed, Answered, Reset
  <2>3. answers = Append(answers, Answered)
    BY <2>2 DEF Flushed
  <2>4. Len(answers) = Len(answers) + 1 /\ Len(answers) \in Nat
    BY <2>3, AnswerAdded
  <2> QED BY <2>4
<1>14. CASE DispatchReturns
  BY <1>14 DEF DispatchReturns
<1>15. CASE DisposeReturns
  BY <1>15 DEF DisposeReturns
<1> QED BY <1>1, <1>2, <1>3, <1>4, <1>5, <1>6, <1>7, <1>8, <1>11, <1>12,
     <1>13, <1>14, <1>15 DEF Next

LEMMA FaultsGrow ==
    ASSUME TypeOK, Next, faults' = 0
    PROVE  faults = 0
<1> USE DEF draftVars, toolVars, hostVars, roomVars
<1>0. faults \in Nat
  BY TurnAssumption DEF TypeOK
<1>1. CASE TimerFires \/ StartSendOrEdit
  BY <1>1 DEF TimerFires, StartSendOrEdit
<1>2. CASE SendReturns
  BY <1>0, <1>2 DEF SendReturns, Counted
<1>3. ASSUME NEW t \in Tools, NEW n \in ItemKinds, OnToolItem(t, n) PROVE faults = 0
  BY <1>3 DEF OnToolItem
<1>4. ASSUME NEW i \in Items, AnchorReturns(i) \/ ToolStartReturns(i) \/ ToolEndReturns(i)
      PROVE  faults = 0
  BY <1>0, <1>4 DEF AnchorReturns, ToolStartReturns, ToolEndReturns, Counted
<1>5. CASE \/ OnPartialReply \/ RunEnds \/ DispatchRejects
           \/ DeliverText \/ DeliverBlank \/ FinalizeReturns \/ DispatchReturns \/ DisposeReturns
  BY <1>5 DEF OnPartialReply, RunEnds, DispatchRejects, DeliverText, DeliverBlank,
       FinalizeReturns, DispatchReturns, DisposeReturns
<1> QED BY <1>1, <1>2, <1>3, <1>4, <1>5 DEF Next

\* A call, once emitted, stays.
LEMMA CallsStay ==
    ASSUME TypeOK, DataOK, ChainInv, Next, \A i \in Items : call'[i].at = "none"
    PROVE  Apart
<1>1. ASSUME NEW t \in Tools, NEW n \in ItemKinds, OnToolItem(t, n) PROVE FALSE
  <2>1. PICK c \in CallRec : ItemEmitted(t, n, c)
    BY <1>1, EmittedFacts
  <2>2. call' = [call EXCEPT ![<<t, n>>] = c] /\ <<t, n>> \in Items /\ c.at # "none"
    BY <2>1, ItemFacts DEF ItemEmitted, GoesOn, Proceeds
  <2>3. call'[<<t, n>>] = c
    BY <2>2 DEF DataOK
  <2> QED BY <2>2, <2>3
<1>2. ASSUME NEW i \in Items, AnchorReturns(i) PROVE FALSE
  <2>1. PICK c \in CallRec : AnchorSent(i, c)
    BY <1>2, AnchorFacts
  <2>2. call'[i] = c /\ c.at # "none"
    BY <2>1 DEF AnchorSent, DataOK
  <2> QED BY <2>2
<1>3. ASSUME NEW i \in Items, ToolStartReturns(i) PROVE FALSE
  <2>1. PICK c \in CallRec : StartSent(i, c)
    BY <1>3, StartFacts
  <2>2. call'[i] = c /\ c.at # "none"
    BY <2>1 DEF StartSent, GoesOn, Proceeds, DataOK
  <2> QED BY <2>2
<1>4. ASSUME NEW i \in Items, ToolEndReturns(i) PROVE FALSE
  <2>1. PICK c \in CallRec : EndSent(i, c)
    BY <1>4, EndFacts
  <2>2. call'[i] = c /\ c.at # "none"
    BY <2>1 DEF EndSent, DataOK
  <2> QED BY <2>2
<1> QED BY <1>1, <1>2, <1>3, <1>4, ApartFacts

LEMMA PlainBefore ==
    ASSUME TypeOK, DataOK, ChainInv, FinalsInv, Next, Plain'
    PROVE  Plain /\ Apart /\ ~DeliverBlank
<1>1. faults = 0
  BY FaultsGrow DEF Plain
<1>2. Apart
  BY CallsStay DEF Plain
<1>3. \A i \in Items : call[i].at = "none"
  BY <1>2 DEF Plain, Apart, toolVars
<1>4. ASSUME DeliverBlank PROVE FALSE
  <2>1. finals' = finals + 1 /\ ~Flushing /\ ~Flushing' /\ answers' = answers
    BY <1>4 DEF DeliverBlank, Flushing
  <2>2. finals + 1 = Len(answers) /\ Len(answers) <= finals
    BY <2>1 DEF Plain, FinalsInv
  <2> QED BY <2>2, NumFacts, AnswerAdded
<1>5. CASE Flushed
  <2>1. Flushing /\ ~Flushing' /\ finals' = finals /\ Len(answers') = Len(answers) + 1
    BY <1>5, AnswerAdded DEF Flushed, Flushing
  <2> QED BY <1>1, <1>2, <1>3, <1>4, <2>1 DEF Plain
<1>6. CASE answers' = answers /\ DeliverText
  <2>1. ~Flushing /\ Flushing' /\ finals' = finals + 1
    BY <1>6 DEF DeliverText, Flushing
  <2>2. finals = Len(answers)
    BY <1>6, <2>1, NumFacts, AnswerAdded DEF Plain
  <2> QED BY <1>1, <1>2, <1>3, <1>4, <2>1, <2>2 DEF Plain
<1>7. CASE answers' = answers /\ ~DeliverText /\ ~DeliverBlank
  <2>1. finals' = finals /\ (Flushing' <=> Flushing)
    BY <1>7, FlushMoves
  <2> QED BY <1>1, <1>2, <1>3, <1>7, <2>1 DEF Plain
<1> QED BY <1>4, <1>5, <1>6, <1>7, FlushLasts

LEMMA SendPlain ==
    ASSUME TypeOK, DataOK, ChainInv, Plain, PlainRoom, PlainDraft, SendReturns, Next,
           faults' = 0
    PROVE  PlainRoom' /\ PlainDraft'
<1>1. SendDone
  BY SendFacts
<1>2. /\ flight # NoFlight /\ flight' = NoFlight /\ flight.to = eventId
      /\ msgs' = Written /\ lastSent' = flight.text /\ eventId' = Place
      /\ UNCHANGED <<pendingText, finals, answers>>
  BY <1>1 DEF SendDone, PlainDraft, Place
<1>3. /\ Len(msgs) \in Nat /\ Place \in 1..Len(msgs') /\ Place # 0
      /\ Len(msgs') = IF eventId = 0 THEN Len(msgs) + 1 ELSE Len(msgs)
      /\ Place = IF eventId = 0 THEN Len(msgs) + 1 ELSE eventId
      /\ \A m \in 1..Len(msgs) : m # Place => msgs'[m] = msgs[m]
      /\ msgs'[Place].text = flight.text
  BY <1>2, WrittenFacts DEF Place
<1>4. Len(msgs') = Len(answers) + 1
  BY <1>3 DEF PlainRoom
<1>5. ASSUME NEW m \in 1..Len(msgs'), m # Place PROVE msgs'[m].text \in AnswerTexts
  <2>1. m \in 1..Len(msgs) /\ m # eventId
    BY <1>3, <1>5
  <2> QED BY <1>3, <1>5, <2>1 DEF PlainRoom
<1>6. AnswerTexts' = AnswerTexts
  BY <1>2 DEF AnswerTexts
<1>7. PlainRoom'
  BY <1>2, <1>3, <1>4, <1>5, <1>6 DEF PlainRoom
<1>8. ~(finals' > 0 /\ ~Flushing')
  <2>1. Flushing' <=> Flushing
    BY StageMoves DEF Flushing
  <2> QED BY <1>2, <2>1 DEF PlainDraft
<1>9. stage' = "delivered" => lastSent' = pendingText'
  <2>1. stage' = "delivered" => flight.final
    BY <1>1 DEF SendDone, Resumed
  <2> QED BY <1>2, <2>1 DEF ChainInv
<1> QED BY <1>2, <1>7, <1>8, <1>9 DEF PlainDraft

LEMMA StartPlain ==
    ASSUME TypeOK, DataOK, ChainInv, Plain, PlainRoom, PlainDraft, StartSendOrEdit
    PROVE  PlainRoom' /\ PlainDraft'
<1>1. /\ chain # <<>> /\ flight = NoFlight
      /\ UNCHANGED <<eventId, lastSent, pendingText, timer, finals, msgs, answers>>
  BY DEF StartSendOrEdit, roomVars
<1>2. \/ flight' = flight /\ (pendingText = NoText \/ pendingText = lastSent)
      \/ flight' = [to |-> eventId, text |-> pendingText, final |-> Head(chain)] /\ stage' = stage
  BY DEF StartSendOrEdit
<1>3. flight' # NoFlight => flight'.to = eventId
  BY <1>1, <1>2
<1>4. ~(finals > 0 /\ ~Flushing) /\ (Flushing' <=> Flushing)
  BY <1>1, StageMoves DEF PlainDraft, Flushing
<1>5. stage' = "delivered" => lastSent = pendingText
  <2>1. stage # "delivered"
    BY DEF StartSendOrEdit
  <2>2. stage' = "delivered" => stage = "finalizing"
    BY <2>1, StageMoves
  <2> QED BY <1>2, <2>1, <2>2 DEF ChainInv
<1>6. AnswerTexts' = AnswerTexts
  BY <1>1 DEF AnswerTexts
<1>7. PlainRoom'
  BY <1>1, <1>6 DEF PlainRoom
<1> QED BY <1>1, <1>3, <1>4, <1>5, <1>7 DEF PlainDraft

LEMMA FlushedPlain ==
    ASSUME TypeOK, DataOK, ChainInv, Plain, PlainRoom, PlainDraft, Flushed, Next
    PROVE  PlainRoom' /\ PlainDraft'
<1>1. /\ stage = "delivered" /\ stage' = "finals" /\ answers' = Append(answers, Answered)
      /\ eventId' = 0 /\ lastSent' = NoText /\ pendingText' = NoText /\ timer' = FALSE
      /\ UNCHANGED <<chain, flight, finals, msgs>>
  BY DEF Flushed, roomVars
<1>2. /\ chain = <<>> /\ flight = NoFlight /\ pendingText # NoText /\ lastSent = pendingText
  BY <1>1 DEF ChainInv, PlainDraft
<1>3. eventId # 0 /\ Len(msgs) = Len(answers) + 1
  BY <1>2 DEF PlainRoom
<1>4. Len(answers') = Len(answers) + 1
  BY <1>1, AnswerAdded
<1>5. AnswerTexts' = AnswerTexts \cup {pendingText}
  BY AnswersGrow
<1>6. ASSUME NEW m \in 1..Len(msgs) PROVE msgs[m].text \in AnswerTexts' /\ m # 0
  BY <1>2, <1>5, RoomGrows DEF PlainRoom
<1>7. PlainRoom'
  BY <1>1, <1>3, <1>4, <1>6 DEF PlainRoom
<1>8. PlainDraft'
  BY <1>1, <1>2 DEF PlainDraft
<1> QED BY <1>7, <1>8

LEMMA PlainStep ==
    ASSUME TypeOK, DataOK, ChainInv, FinalsInv, PlainInv, Next
    PROVE  PlainInv'
<1> SUFFICES ASSUME Plain' PROVE PlainRoom' /\ PlainDraft'
  BY DEF PlainInv
<1>1. Plain /\ Apart /\ ~DeliverBlank /\ faults' = 0
  BY PlainBefore DEF Plain
<1>2. PlainRoom /\ PlainDraft
  BY <1>1 DEF PlainInv
<1>3. CASE StartSendOrEdit
  BY <1>1, <1>2, <1>3, StartPlain
<1>4. CASE SendReturns
  BY <1>1, <1>2, <1>4, SendPlain
<1>5. CASE Flushed
  BY <1>1, <1>2, <1>5, FlushedPlain
<1>6. ASSUME UNCHANGED <<eventId, lastSent, msgs, answers>> PROVE PlainRoom'
  <2>1. AnswerTexts' = AnswerTexts
    BY <1>6 DEF AnswerTexts
  <2> QED BY <1>2, <1>6, <2>1 DEF PlainRoom
<1>7. CASE TimerFires
  <2>1. /\ stage' = stage /\ finals' = finals /\ stage # "delivered" /\ timer
        /\ UNCHANGED <<eventId, lastSent, flight, msgs, answers>>
    BY <1>7 DEF TimerFires, Quiet, hostVars, roomVars
  <2>2. ~(finals > 0 /\ ~Flushing) /\ (Flushing' <=> Flushing)
    BY <1>2, <2>1 DEF PlainDraft, Flushing
  <2> QED BY <1>2, <1>6, <2>1, <2>2 DEF PlainDraft
<1>8. CASE OnPartialReply
  <2>1. /\ stage = "run" /\ stage' = stage /\ finals' = finals
        /\ UNCHANGED <<eventId, lastSent, flight, msgs, answers>>
    BY <1>8 DEF OnPartialReply, roomVars
  <2>2. finals = 0
    BY <2>1 DEF FinalsInv
  <2> QED BY <1>2, <1>6, <2>1, <2>2 DEF PlainDraft
<1>9. CASE DeliverText
  <2>1. /\ stage' = "finalizing"
        /\ UNCHANGED <<eventId, lastSent, flight, msgs, answers>>
    BY <1>9 DEF DeliverText, roomVars
  <2> QED BY <1>2, <1>6, <2>1 DEF PlainDraft, Flushing
<1>10. CASE \/ RunEnds \/ DispatchRejects
            \/ DispatchReturns \/ DisposeReturns
  <2>1. /\ UNCHANGED <<eventId, lastSent, flight, msgs, answers, chain, pendingText, finals>>
        /\ stage # "delivered" /\ stage' # "delivered" /\ (Flushing' <=> Flushing)
    BY <1>10 DEF RunEnds, DispatchRejects, DispatchReturns,
          DisposeReturns, Flushing, Quiet, draftVars, hostVars, roomVars
  <2>2. timer' = timer \/ timer' = FALSE
    BY <1>10 DEF RunEnds, DispatchRejects, DispatchReturns,
          DisposeReturns, draftVars
  <2> QED BY <1>2, <1>6, <2>1, <2>2 DEF PlainDraft
<1>11. CASE FinalizeReturns
  <2>1. Flushed
    BY <1>11 DEF FinalizeReturns, Flushed, Answered, Reset
  <2> QED BY <1>5, <2>1
<1>12. ASSUME NEW t \in Tools, NEW n \in ItemKinds, OnToolItem(t, n) PROVE FALSE
  <2>1. call' = call
    BY <1>1 DEF Apart, toolVars
  <2>2. PICK c \in CallRec : ItemEmitted(t, n, c)
    BY <1>12, EmittedFacts
  <2>3. call'[<<t, n>>].at # "none"
    BY <2>2, ItemFacts DEF ItemEmitted, GoesOn, Proceeds, DataOK
  <2> QED BY <2>1, <2>2, <2>3 DEF ItemEmitted
<1>13. ASSUME NEW i \in Items, AnchorReturns(i) \/ ToolStartReturns(i) \/ ToolEndReturns(i)
       PROVE  FALSE
  BY <1>1, <1>13 DEF Plain, AnchorReturns, ToolStartReturns, ToolEndReturns
<1> QED BY <1>1, <1>3, <1>4, <1>7, <1>8, <1>9, <1>10, <1>11, <1>12, <1>13 DEF Next

-----------------------------------------------------------------------------
(* The theorems *)

LEMMA IInvInit ==
    ASSUME Init
    PROVE  IInv
<1>1. /\ msgs = <<>> /\ toolEvents = <<>> /\ answers = <<>> /\ chain = <<>>
      /\ flight = NoFlight /\ eventId = 0 /\ stage = "run"
      /\ lastSent = 0 /\ pendingText = 0 /\ partials = 0 /\ finals = 0 /\ faults = 0
  BY TextFacts DEF Init
<1>2. /\ Len(msgs) = 0 /\ Len(toolEvents) = 0 /\ Len(answers) = 0 /\ Len(chain) = 0
      /\ DOMAIN msgs = {} /\ DOMAIN toolEvents = {} /\ DOMAIN answers = {}
  BY <1>1
<1>3. \A i \in Items : call[i] = Idle
  BY DEF Init
<1>4. \A t \in Tools, n \in ItemKinds : call[<<t, n>>] = Idle
  <2>1. ASSUME NEW t \in Tools, NEW n \in ItemKinds PROVE call[<<t, n>>] = Idle
    <3>1. <<t, n>> \in Items
      BY ItemFacts
    <3> QED BY <1>3, <3>1
  <2> QED BY <2>1
<1>5. \A t \in Tools : mishaps[t] = 0 /\ rec[t] = NoRec
  BY DEF Init
<1>6. flight.text = 0 /\ flight.to = 0 /\ flight.final = FALSE
  BY <1>1, TextFacts DEF NoFlight
<1>8. DataOK
  <2>1. /\ msgs \in Seq([text : Texts, pushed : Texts])
        /\ toolEvents \in Seq([tool : Tools, turn : Nat, status : ToolStates])
        /\ answers \in Seq([text : Texts, sent : BOOLEAN])
    BY <1>1
  <2>2. mishaps \in [Tools -> Nat]
    BY DEF Init
  <2>3. call \in [Items -> [at : Phases, turn : Nat, event : Nat, status : ToolStates]]
    BY DEF Init, Idle, Phases, ToolStates
  <2>4. rec \in [Tools -> [event : Nat, status : ToolStates]]
    BY DEF Init, NoRec, ToolStates
  <2>5. partials \in 0..MaxPartials /\ finals \in 0..MaxFinals
    BY <1>1, TurnAssumption
  <2> QED BY <2>1, <2>2, <2>3, <2>4, <2>5 DEF DataOK
<1>9. TypeOK
  <2>1. 0 \in Texts /\ 0 \in 0..Len(msgs) /\ 0 \in 0..Len(toolEvents)
    BY <1>2, TextFacts
  <2>2. flight \in [to : 0..Len(msgs), text : Texts, final : BOOLEAN]
    BY <1>1, <2>1, TextFacts DEF NoFlight
  <2>3. timer \in BOOLEAN /\ disposed \in BOOLEAN
    BY DEF Init
  <2>4. chain \in Seq(BOOLEAN)
    BY <1>1
  <2>5. \A i \in Items : call[i].at \in {"none", "anchor", "start", "end", "done"}
    BY <1>3 DEF Idle
  <2>6. \A t \in Tools : mishaps[t] \in Nat /\ rec[t].event \in 0..Len(toolEvents)
    BY <1>5, <2>1 DEF NoRec
  <2>7. faults \in 0..MaxFaults
    BY <1>1, TurnAssumption
  <2> QED BY <1>1, <1>2, <2>1, <2>2, <2>3, <2>4, <2>5, <2>6, <2>7 DEF TypeOK
<1>10. TurnInv
  BY <1>3 DEF TurnInv, Idle
<1>11. ChainInv
  BY <1>1, <1>2, <1>6 DEF ChainInv
<1>12. PushOnlyFinals /\ KeptInv
  BY <1>2 DEF PushOnlyFinals, KeptInv
<1>13. OrderInv /\ ShownInv
  BY <1>1, <1>6, <1>8, <1>9, TextFacts, NumFacts DEF OrderInv, ShownInv, Flushing
<1>14. EmittedInv
  BY <1>1 DEF EmittedInv
<1>15. ToolInv
  <2>1. ASSUME NEW t \in Tools PROVE ToolFor(t)
    <3>1. \A n \in ItemKinds : call[<<t, n>>].at = "none"
      BY <1>4 DEF Idle
    <3>2. EventsOf(t) = {} /\ Posting(t) = {}
      BY <1>2, <3>1 DEF EventsOf, Posting
    <3>3. Cardinality({}) = 0
      BY FS_EmptySet
    <3>4. mishaps[t] = 0 /\ rec[t] = NoRec
      BY <1>5
    <3>5. PaidFor(t)
      BY <3>2, <3>3, <3>4 DEF PaidFor
    <3>6. OwnFor(t) /\ Clean(t)
      BY <3>1, <3>2, <3>4 DEF OwnFor, Clean, Going
    <3> QED BY <3>5, <3>6 DEF ToolFor, CleanFor
  <2> QED BY <2>1 DEF ToolInv, ToolFor
<1>16. FinalsInv /\ PlainInv
  <2>1. FinalsInv
    BY <1>1, <1>2 DEF FinalsInv, Flushing
  <2>2. PlainRoom /\ PlainDraft
    BY <1>1, <1>2, TextFacts DEF PlainRoom, PlainDraft
  <2> QED BY <2>1, <2>2 DEF PlainInv
<1> QED BY <1>8, <1>9, <1>10, <1>11, <1>12, <1>13, <1>14, <1>15, <1>16 DEF IInv

LEMMA IInvStep ==
    ASSUME IInv, [Next]_vars
    PROVE  IInv'
<1>1. CASE Next
  <2>1. /\ TypeOK /\ DataOK /\ TurnInv /\ ChainInv /\ PushOnlyFinals
        /\ OrderInv /\ ShownInv /\ KeptInv
        /\ ToolInv /\ EmittedInv /\ FinalsInv /\ PlainInv
    BY DEF IInv
  <2>2. TypeOK' /\ DataOK' /\ TurnInv' /\ ChainInv' /\ PushOnlyFinals'
    BY <1>1, <2>1, TypeStep, DataStep, TurnStep, ChainStep, PushStep
  <2>3. OrderInv' /\ ShownInv' /\ KeptInv'
    BY <1>1, <2>1, OrderStep, ShownStep, KeptStep
  <2>4. ToolInv' /\ EmittedInv' /\ FinalsInv' /\ PlainInv'
    BY <1>1, <2>1, ToolStep, EmittedStep, FinalsStep, PlainStep
  <2> QED BY <2>2, <2>3, <2>4 DEF IInv
<1>2. CASE UNCHANGED vars
  <2>1. /\ UNCHANGED <<eventId, lastSent, pendingText, timer, chain, flight, disposed>>
        /\ UNCHANGED <<call, rec, mishaps, stage, partials, finals>>
        /\ UNCHANGED <<msgs, toolEvents, answers, faults>>
    BY <1>2 DEF vars, draftVars, toolVars, hostVars, roomVars
  <2>2. AnswerTexts' = AnswerTexts /\ Flushing' = Flushing
    BY <2>1 DEF AnswerTexts, Flushing
  <2>3. TypeOK' /\ DataOK' /\ TurnInv' /\ ChainInv'
    BY <2>1 DEF IInv, TypeOK, DataOK, TurnInv, ChainInv
  <2>4. PushOnlyFinals' /\ OrderInv' /\ ShownInv' /\ KeptInv'
    BY <2>1, <2>2 DEF IInv, PushOnlyFinals, OrderInv, ShownInv, Shown, KeptInv
  <2>5. ToolInv'
    <3>1. ASSUME NEW u \in Tools PROVE Untouched(u)
      BY <2>1 DEF Untouched, EventsOf
    <3> QED BY <3>1, UntouchedKept DEF IInv, ToolInv, ToolFor
  <2>6. EmittedInv'
    BY <2>1 DEF IInv, EmittedInv
  <2>7. FinalsInv' /\ PlainInv'
    BY <2>1, <2>2 DEF IInv, FinalsInv, PlainInv, Plain, PlainRoom, PlainDraft
  <2> QED BY <2>3, <2>4, <2>5, <2>6, <2>7 DEF IInv
<1> QED BY <1>1, <1>2

LEMMA Invariance == Spec => []IInv
<1>1. Init => IInv
  BY IInvInit
<1>2. IInv /\ [Next]_vars => IInv'
  BY IInvStep
<1> QED BY <1>1, <1>2, PTL DEF Spec

\* Every variable keeps its type, whatever the host, the timer and the sends do:
\* the message being edited and the one a tool event is related to exist
\* (streaming.ts, sendOrEdit; channel.ts, onToolItem).
THEOREM TypeCorrect == Spec => []TypeOK
<1>1. IInv => TypeOK
  BY DEF IInv
<1> QED BY <1>1, Invariance, PTL

\* What is written with push is a final: the chain of sendOrEdits
\* (streaming.ts) flushes one with push only as its last, and by then the
\* pending text is the final's.
THEOREM OnlyFinalsPush == Spec => []PushOnlyFinals
<1>1. IInv => PushOnlyFinals
  BY DEF IInv
<1> QED BY <1>1, Invariance, PTL

\* The message of a final whose send was answered is edited no more: reset
\* (streaming.ts) takes it out of reach before the next block, and a late anchor
\* (channel.ts) is a new message.
THEOREM AnswersStay == Spec => []AnswersShown
<1>1. KeptInv => AnswersShown
  BY DEF KeptInv, AnswersShown
<1>2. IInv => AnswersShown
  BY <1>1 DEF IInv
<1> QED BY <1>2, Invariance, PTL

\* A tool call is one event in the room, whatever items are emitted for it, in
\* whatever order and however they overlap (channel.ts, onToolItem): each further
\* event has a mishap of the same tool to itself.
THEOREM OneEventPerTool == Spec => []OneEventButForMishaps
<1>1. ASSUME IInv PROVE OneEventButForMishaps
  <2>1. ASSUME NEW t \in Tools PROVE Cardinality(EventsOf(t)) <= 1 + mishaps[t]
    <3>1. Cardinality(EventsOf(t)) + Cardinality(Posting(t)) <= 1 + mishaps[t]
      BY <1>1 DEF IInv, ToolInv, PaidFor
    <3>2. /\ Cardinality(EventsOf(t)) \in Nat /\ Cardinality(Posting(t)) \in Nat
          /\ mishaps[t] \in Nat
      BY <1>1, EventSet DEF IInv
    <3> QED BY <3>1, <3>2
  <2> QED BY <2>1 DEF OneEventButForMishaps
<1> QED BY <1>1, Invariance, PTL

\* At the end of the turn the event of a tool without mishaps, none of whose items
\* is under way, shows how the tool ended (channel.ts, onToolItem; send.ts,
\* editToolEnd): the last edit sent carries what its record says.
THEOREM ToolsShownDone == Spec => []SettledButForMishaps
<1>1. ASSUME IInv PROVE SettledButForMishaps
  <2>1. ASSUME stage = "ended", NEW t \in Tools, mishaps[t] = 0, ~Working(t),
               NEW m \in EventsOf(t)
        PROVE  toolEvents[m].status # "running"
    <3>1. Clean(t) /\ OwnFor(t)
      BY <1>1, <2>1 DEF IInv, ToolInv, CleanFor
    <3>2. \A n \in ItemKinds : call[<<t, n>>].at \notin Going
      BY <1>1, <2>1, IdleFacts DEF IInv
    <3>3. \E n \in ItemKinds : call[<<t, n>>].at # "none"
      BY <3>1 DEF OwnFor
    <3>4. \A n \in ItemKinds : call[<<t, n>>].at # "none"
      BY <1>1, <2>1, <3>3 DEF IInv, EmittedInv
    <3>5. "tool end" \in ItemKinds
      BY TurnAssumption DEF ToolItems, SubItems
    <3>6. call[<<t, "tool end">>].at \in Phases
      BY <1>1, <3>5, ItemFacts DEF IInv, DataOK
    <3>7. call[<<t, "tool end">>].at = "done"
      BY <3>2, <3>4, <3>5, <3>6 DEF Phases, Going
    <3>8. rec[t].status # "running"
      BY <3>1, <3>5, <3>7 DEF Clean
    <3>9. toolEvents[m].status = rec[t].status
      BY <3>1, <3>2 DEF Clean, Going
    <3> QED BY <3>8, <3>9
  <2> QED BY <2>1 DEF SettledButForMishaps
<1> QED BY <1>1, Invariance, PTL

\* A turn without tools that ended with all its finals delivered leaves a message
\* for each of them and nothing else, if every send was answered: however the
\* throttle timer fires, no partial is left (streaming.ts; channel.ts, deliver).
THEOREM NothingElseLeft == Spec => []OnlyAnswersLeft
<1>1. ASSUME IInv PROVE OnlyAnswersLeft
  <2>1. ASSUME stage = "ended", answers # <<>>, Len(answers) = finals, faults = 0,
               \A i \in Items : call[i].at = "none"
        PROVE  /\ \A m \in DOMAIN msgs : msgs[m].text \in AnswerTexts
               /\ Len(msgs) = Len(answers)
    <3>1. ~Flushing
      BY <2>1 DEF Flushing
    <3>2. Plain
      BY <2>1, <3>1 DEF Plain
    <3>3. PlainRoom /\ PlainDraft
      BY <1>1, <3>2 DEF IInv, PlainInv
    <3>4. finals > 0
      <4>1. answers \in Seq([text : Texts, sent : BOOLEAN])
        BY <1>1 DEF IInv, DataOK
      <4>2. Len(answers) \in Nat /\ Len(answers) # 0
        BY <2>1, <4>1, LenProperties, EmptySeq
      <4> QED BY <2>1, <4>2
    <3>5. eventId = 0
      BY <3>1, <3>3, <3>4 DEF PlainDraft
    <3>6. DOMAIN msgs = 1..Len(msgs) /\ Len(msgs) \in Nat
      BY <1>1, LenProperties DEF IInv, DataOK
    <3>7. \A m \in DOMAIN msgs : m # eventId
      BY <3>5, <3>6
    <3> QED BY <3>3, <3>5, <3>6, <3>7 DEF PlainRoom
  <2> QED BY <2>1 DEF OnlyAnswersLeft
<1> QED BY <1>1, Invariance, PTL

=============================================================================
