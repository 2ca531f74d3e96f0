---------------------- MODULE ResidentMessagesProofs ----------------------
(***************************************************************************)
(* What becomes of the messages of a task, of its rows and of its order in *)
(* ResidentTurns, proved with TLAPS for every set of tasks and messages    *)
(* and every value of the bounds.  The invariants of ResidentTurnsProofs   *)
(* are cited, each result adds the clauses it needs.                       *)
(***************************************************************************)
EXTENDS ResidentTurnsProofs

\* What a step of a turn does to its task's messages: it leaves them, reads those
\* that wait for its card, or takes no more of them.
LEMMA TurnStepMessages ==
    ASSUME TypeInv, NEW c \in Card, TurnStep(c)
    PROVE  /\ UNCHANGED <<sess, home, dropped, resets>>
           /\ \/ UNCHANGED <<pend, read>>
              \/ /\ read' = read \cup (IF pend[sess[c]].card = c THEN pend[sess[c]].unread
                                       ELSE {})
                 /\ pend' = [pend EXCEPT ![sess[c]] =
                               IF @.card = c THEN [@ EXCEPT !.unread = {}] ELSE @]
              \/ CloseInputs(c) /\ UNCHANGED read
<1> DEFINE Goal ==
           /\ UNCHANGED <<sess, home, dropped, resets>>
           /\ \/ UNCHANGED <<pend, read>>
              \/ /\ read' = read \cup (IF pend[sess[c]].card = c THEN pend[sess[c]].unread
                                       ELSE {})
                 /\ pend' = [pend EXCEPT ![sess[c]] =
                               IF @.card = c THEN [@ EXCEPT !.unread = {}] ELSE @]
              \/ CloseInputs(c) /\ UNCHANGED read
<1>1. CASE \/ Start(c) \/ CloseOpenCall(c) \/ AnswerWithCalls(c) \/ AnswerFinal(c)
           \/ AnswerUnfinished(c) \/ SkipCalls(c) \/ StartTool(c) \/ ToolDone(c)
           \/ ToolsDone(c) \/ SaveLateSteers(c) \/ CloseCard(c) \/ WriteRow(c) \/ Finish(c)
  BY <1>1 DEF Start, CloseOpenCall, AnswerWithCalls, AnswerFinal, AnswerUnfinished,
     SkipCalls, StartTool, ToolDone, ToolsDone, SaveLateSteers, CloseCard, WriteRow,
     Finish, sqlVars, memVars, histVars
<1>2. CASE NextModelStep(c)
  BY <1>2 DEF NextModelStep, TakeSteers, histVars
<1>3. CASE OutOfSteps(c)
  BY <1>3 DEF OutOfSteps, AnswerLate, TakeSteers, histVars
<1>4. CASE EndStopped(c) \/ LoopError(c) \/ LateError(c) \/ Report(c) \/ HandOn(c)
  BY <1>4 DEF EndStopped, LoopError, LateError, Report, HandOn, CommitAs, histVars
<1>5. CASE SaveSteers(c)
  BY <1>5 DEF SaveSteers, CommitAs, histVars
<1>6. CASE CommitAnswer(c) \/ LateAnswer(c)
  <2>1. CASE AnswerLate(c) /\ UNCHANGED <<sess, home, histVars>>
    BY <2>1 DEF AnswerLate, TakeSteers, histVars
  <2>2. CASE \E how \in EndStatus : CommitAs(c, how)
    BY <2>2 DEF CommitAs, histVars
  <2> QED
    BY <1>6, <2>1, <2>2 DEF CommitAnswer, LateAnswer, EndStatus
<1>7. CASE FailTurn(c)
  BY <1>7 DEF FailTurn, histVars
<1> QED
  BY <1>1, <1>2, <1>3, <1>4, <1>5, <1>6, <1>7 DEF TurnStep

\* Only cards of a task are among those a set of it begins with.
LEMMA FirstOfTask ==
    ASSUME NEW s, NEW C \in SUBSET CardsOf(s), C # {}
    PROVE  First(C) \in C /\ First(C) \in Card /\ sess[First(C)] = s
           /\ status[First(C)] # "none"
<1>1. C \in SUBSET Card
  BY DEF CardsOf
<1>2. First(C) \in C
  BY <1>1, FirstIsIn
<1> QED
  BY <1>1, <1>2 DEF CardsOf

\* What a card has left to read changes with its messages and with what is read.
LEMMA UnreadSame ==
    ASSUME NEW c, home' = home, NEW R, read' = read \cup R, R \cap InputsOf(c) = {}
    PROVE  Unread(c)' = Unread(c)
BY DEF Unread, InputsOf

\* A turn's step touches no other card, and never forgets that its own was opened.
LEMMA TurnStepCards ==
    ASSUME TypeInv, NEW c \in Card, TurnStep(c)
    PROVE  /\ \A d \in Card : d # c =>
                 status'[d] = status[d] /\ row'[d] = row[d] /\ pc'[d] = pc[d]
           /\ status[c] # "none" => status'[c] # "none"
<1>1. \A d \in Card : d # c => status'[d] = status[d] /\ row'[d] = row[d] /\ pc'[d] = pc[d]
  BY DEF TurnStep, Start, CloseOpenCall, NextModelStep, OutOfSteps,
     EndStopped, SaveSteers, AnswerWithCalls, AnswerFinal, CommitAnswer,
     AnswerUnfinished, SkipCalls, StartTool, ToolDone, ToolsDone, LoopError,
     SaveLateSteers, LateAnswer, LateError, Report, HandOn, CloseCard, WriteRow, Finish,
     FailTurn, CommitAs, AnswerLate, TakeSteers, EndCards, Leave, memVars, sqlVars,
     TypeInv, TypeOK
<1>2. status[c] # "none" => status'[c] # "none"
  BY DEF TurnStep, Start, CloseOpenCall, NextModelStep, OutOfSteps,
     EndStopped, SaveSteers, AnswerWithCalls, AnswerFinal, CommitAnswer,
     AnswerUnfinished, SkipCalls, StartTool, ToolDone, ToolsDone, LoopError,
     SaveLateSteers, LateAnswer, LateError, Report, HandOn, CloseCard, WriteRow, Finish,
     FailTurn, CommitAs, AnswerLate, EndCards, memVars, sqlVars, TypeInv, TypeOK,
     EndKnown, Committed, EndPc
<1> QED
  BY <1>1, <1>2

\* A card once opened stays opened, in its task.
LEMMA StaysOpened ==
    ASSUME TypeInv, [Next]_vars
    PROVE  \A c \in Card : status[c] # "none" => status'[c] # "none" /\ sess'[c] = sess[c]
<1> DEFINE StillOpened == \A c \in Card : status[c] # "none" =>
                              status'[c] # "none" /\ sess'[c] = sess[c]
<1> SUFFICES StillOpened
  OBVIOUS
<1>1. ASSUME UNCHANGED <<status, sess>> PROVE StillOpened
  BY <1>1
<1>2. ASSUME NEW s \in Session, NEW m \in Msg, Join(s, m) PROVE StillOpened
  BY <1>1, <1>2 DEF Join
<1>3. ASSUME NEW s \in Session, NEW m \in Msg, NEW c \in Card, Open(s, m, c) PROVE StillOpened
  BY <1>3 DEF Open, TypeInv, TypeOK
<1>4. ASSUME NEW c \in Card, TurnStep(c) PROVE StillOpened
  BY <1>4, TurnStepMessages, TurnStepCards
<1>5. ASSUME NEW c \in Card, Park(c) PROVE StillOpened
  BY <1>5 DEF Park, TypeInv, TypeOK
<1>6. ASSUME NEW c \in Card, MissedBeat(c) PROVE StillOpened
  BY <1>1, <1>6 DEF MissedBeat
<1>7. ASSUME NEW loops \in SUBSET Card, Reset(loops) PROVE StillOpened
  BY <1>7 DEF Reset
<1>8. ASSUME NEW s \in Session, NEW D \in SUBSET Card, ResumeDue(s, D) PROVE StillOpened
  BY <1>8 DEF ResumeDue
<1>9. ASSUME NEW s \in Session, StopLive(s) PROVE StillOpened
  BY <1>1, <1>9 DEF StopLive, sqlVars
<1>10. ASSUME NEW s \in Session, StopJournaled(s) PROVE StillOpened
  BY <1>10 DEF StopJournaled, EndCards
<1>11. CASE UNCHANGED vars
  BY <1>1, <1>11 DEF vars, sqlVars
<1> HIDE DEF StillOpened
<1> QED
  BY <1>2, <1>3, <1>4, <1>5, <1>6, <1>7, <1>8, <1>9, <1>10, <1>11 DEF Next

\* A step that opens no card: the card that takes a task's messages is the one that
\* did, none, or another opened card of the task.
LEMMA TakerKept ==
    ASSUME TypeInv, [Next]_vars, TakerInv,
           \A s \in Session :
              \/ pend'[s].card = pend[s].card
              \/ pend'[s].card = NoCard
              \/ /\ pend'[s].card \in Card
                 /\ sess[pend'[s].card] = s /\ status[pend'[s].card] # "none",
           \A m \in Msg : home'[m] = home[m] \/ (home'[m] \in Card /\ status[home'[m]] # "none"),
           \A m \in read' : m \in Msg /\ home'[m] # NoCard
    PROVE  TakerInv'
<1>1. \A s \in Session : pend[s].card \in Card \cup {NoCard}
  BY DEF TypeInv, TypeOK, Pending
<1>2. \A m \in Msg : home[m] \in Card \cup {NoCard}
  BY DEF TypeInv, TypeOK
<1>3. ASSUME NEW s \in Session, pend'[s].card # NoCard
      PROVE  sess'[pend'[s].card] = s /\ status'[pend'[s].card] # "none"
  <2>1. /\ pend'[s].card \in Card
        /\ sess[pend'[s].card] = s /\ status[pend'[s].card] # "none"
    BY <1>1, <1>3 DEF TakerInv
  <2> QED
    BY <2>1, StaysOpened
<1>4. ASSUME NEW m \in Msg, home'[m] # NoCard PROVE status'[home'[m]] # "none"
  <2>1. home'[m] \in Card /\ status[home'[m]] # "none"
    BY <1>2, <1>4 DEF TakerInv
  <2> QED
    BY <2>1, StaysOpened
<1> QED
  BY <1>3, <1>4 DEF TakerInv

\* Every step keeps, of the cards that take messages, that they are opened cards of
\* their task, and of the messages that they are read only on an opened card.
LEMMA NextTaker ==
    ASSUME TypeInv, TakerInv, ResumedKeepsSteers, [Next]_vars
    PROVE  TakerInv'
<1>0. /\ \A s \in Session : pend[s] \in Pending
      /\ \A m \in read : m \in Msg /\ home[m] # NoCard
      /\ read \subseteq Msg /\ pend \in [Session -> Pending]
  BY DEF TypeInv, TypeOK, TakerInv
<1>1. ASSUME UNCHANGED <<home, read>>,
             \A s \in Session :
                \/ pend'[s].card = pend[s].card
                \/ pend'[s].card = NoCard
                \/ /\ pend'[s].card \in Card
                   /\ sess[pend'[s].card] = s /\ status[pend'[s].card] # "none"
      PROVE  TakerInv'
  BY <1>0, <1>1, TakerKept
<1>2. ASSUME NEW s \in Session, NEW m \in Msg, Join(s, m) PROVE TakerInv'
  <2>1. pend[s].card \in Card /\ status[pend[s].card] # "none"
    BY <1>0, <1>2 DEF Join, Pending, TakerInv
  <2>2. \A t \in Session : pend'[t].card = pend[t].card
    BY <1>0, <1>2 DEF Join, Pending
  <2>3. /\ \A n \in Msg : home'[n] = home[n] \/ (home'[n] \in Card /\ status[home'[n]] # "none")
        /\ \A n \in read' : n \in Msg /\ home'[n] # NoCard
    BY <1>0, <1>2, <2>1 DEF Join, TypeInv, TypeOK
  <2> QED
    BY <2>2, <2>3, TakerKept
<1>3. ASSUME NEW s \in Session, NEW m \in Msg, NEW c \in Card, Open(s, m, c)
      PROVE  TakerInv'
  <2>0. status'[c] # "none" /\ sess'[c] = s /\ c # NoCard /\ status[c] = "none"
    BY <1>3, BoundsAssumption DEF Open, TypeInv, TypeOK, Card, NoCard
  <2>1. ASSUME NEW t \in Session, pend'[t].card # NoCard
        PROVE  sess'[pend'[t].card] = t /\ status'[pend'[t].card] # "none"
    <3>1. CASE pend'[t].card = pend[t].card
      <4>1. /\ pend[t].card \in Card /\ sess[pend[t].card] = t
            /\ status[pend[t].card] # "none"
        BY <1>0, <2>1, <3>1 DEF TakerInv, Pending
      <4> QED
        BY <3>1, <4>1, StaysOpened
    <3>2. CASE pend'[t].card # pend[t].card
      <4>1. t = s /\ pend'[t].card = c
        BY <1>0, <1>3, <3>2 DEF Open, Taker
      <4> QED
        BY <2>0, <4>1
    <3> QED
      BY <3>1, <3>2
  <2>2. ASSUME NEW n \in Msg, home'[n] # NoCard PROVE status'[home'[n]] # "none"
    <3>1. home'[n] = c \/ (home'[n] = home[n] /\ home[n] \in Card)
      BY <1>3, <2>2 DEF Open, TypeInv, TypeOK
    <3>2. home'[n] = home[n] => status[home[n]] # "none"
      BY <2>2 DEF TakerInv
    <3> QED
      BY <2>0, <3>1, <3>2, StaysOpened
  <2>3. \A n \in read' : home'[n] # NoCard
    BY <1>0, <1>3, <2>0 DEF Open, TypeInv, TypeOK
  <2> QED
    BY <2>1, <2>2, <2>3 DEF TakerInv
<1>4. ASSUME NEW c \in Card, TurnStep(c) PROVE TakerInv'
  <2>1. UNCHANGED home /\ \A s \in Session : pend'[s].card \in {pend[s].card, NoCard}
    <3>1. \/ UNCHANGED pend
          \/ pend' = [pend EXCEPT ![sess[c]] =
                        IF @.card = c THEN [@ EXCEPT !.unread = {}] ELSE @]
          \/ pend' = [pend EXCEPT ![sess[c]] = IF @.card = c THEN NoPend ELSE @]
      BY <1>4, TurnStepMessages DEF CloseInputs
    <3>2. UNCHANGED home
      BY <1>4, TurnStepMessages
    <3>3. ASSUME NEW s \in Session PROVE pend'[s].card \in {pend[s].card, NoCard}
      <4> DEFINE none == [pend[s] EXCEPT !.unread = {}]
      <4>1. none.card = pend[s].card
        BY <1>0 DEF Pending
      <4>2. pend'[s] \in {pend[s], none, NoPend}
        BY <1>0, <3>1
      <4> HIDE DEF none
      <4> QED
        BY <4>1, <4>2 DEF NoPend
    <3> QED
      BY <3>2, <3>3
  <2>2. \A m \in read' : m \in Msg /\ home'[m] # NoCard
    <3> DEFINE took == IF pend[sess[c]].card = c THEN pend[sess[c]].unread ELSE {}
    <3>1. sess[c] \in Session
      BY <1>4 DEF TypeInv, Opened, Live, TurnStep, Start, CloseOpenCall, NextModelStep,
         OutOfSteps, EndStopped, SaveSteers, AnswerWithCalls, AnswerFinal, CommitAnswer,
         AnswerUnfinished, SkipCalls, StartTool, ToolDone, ToolsDone, LoopError,
         SaveLateSteers, LateAnswer, LateError, Report, HandOn, CloseCard, WriteRow, Finish,
         FailTurn
    <3>2. took \subseteq InputsOf(c) /\ took \subseteq Msg
      BY <1>0, <3>1, BoundsAssumption DEF ResumedKeepsSteers, Unread, InputsOf, Card, NoCard, Pending
    <3>3. read' = read \/ read' = read \cup took
      BY <1>4, TurnStepMessages
    <3> HIDE DEF took
    <3> QED
      BY <1>0, <2>1, <3>2, <3>3, BoundsAssumption DEF InputsOf, Card, NoCard
  <2> QED
    BY <2>1, <2>2, TakerKept
<1>5. ASSUME NEW c \in Card, Park(c) PROVE TakerInv'
  BY <1>1, <1>5 DEF Park
<1>6. ASSUME NEW c \in Card, MissedBeat(c) PROVE TakerInv'
  BY <1>1, <1>6 DEF MissedBeat, memVars
<1>7. ASSUME NEW loops \in SUBSET Card, Reset(loops) PROVE TakerInv'
  <2>1. ASSUME NEW s \in Session
        PROVE  \/ pend'[s].card = NoCard
               \/ /\ pend'[s].card \in Card
                  /\ sess[pend'[s].card] = s /\ status[pend'[s].card] # "none"
    <3> DEFINE C == CarryOn(loops) \cap CardsOf(s)
    <3>1. pend'[s] = IF C = {} THEN NoPend ELSE PendOf(First(C))
      BY <1>7 DEF Reset
    <3>2. C \in SUBSET CardsOf(s)
      OBVIOUS
    <3> HIDE DEF C
    <3> QED
      BY <3>1, <3>2, FirstOfTask DEF NoPend, PendOf
  <2> QED
    BY <1>1, <1>7, <2>1 DEF Reset
<1>8. ASSUME NEW s \in Session, NEW D \in SUBSET Card, ResumeDue(s, D) PROVE TakerInv'
  <2> DEFINE used == {c \in D : journal[c] = "resuming" /\ UsedUp(c)}
             again == {c \in D : journal[c] = "resuming"} \ used
             free == {c \in again : \/ pend[s].card = NoCard
                                    \/ pend[s].card \in used /\ pend[s].card < c}
  <2>1. pend' = [pend EXCEPT ![s] = IF free # {} THEN PendOf(First(free))
                                    ELSE IF @.card \in used THEN NoPend ELSE @]
    BY <1>8 DEF ResumeDue
  <2>2. free \in SUBSET CardsOf(s)
    BY <1>8 DEF ResumeDue, Due, Resumable
  <2> HIDE DEF free, used, again
  <2>3. \A t \in Session :
           \/ pend'[t].card \in {pend[t].card, NoCard}
           \/ /\ pend'[t].card \in Card
              /\ sess[pend'[t].card] = t /\ status[pend'[t].card] # "none"
    BY <1>0, <2>1, <2>2, FirstOfTask DEF NoPend, PendOf, Pending
  <2> QED
    BY <1>1, <1>8, <2>3 DEF ResumeDue
<1>9. ASSUME NEW s \in Session, StopLive(s) PROVE TakerInv'
  <2>1. \A t \in Session : pend'[t].card = pend[t].card
    BY <1>0, <1>9 DEF StopLive, Pending
  <2> QED
    BY <1>1, <1>9, <2>1 DEF StopLive, sqlVars
<1>10. ASSUME NEW s \in Session, StopJournaled(s) PROVE TakerInv'
  <2>1. \A t \in Session : pend'[t].card \in {pend[t].card, NoCard}
    BY <1>0, <1>10 DEF StopJournaled, NoPend, Pending
  <2> QED
    BY <1>1, <1>10, <2>1 DEF StopJournaled
<1>11. CASE UNCHANGED vars
  BY <1>1, <1>11 DEF vars, sqlVars, memVars
<1> QED
  BY <1>2, <1>3, <1>4, <1>5, <1>6, <1>7, <1>8, <1>9, <1>10, <1>11 DEF Next

\* A card that reads what is in u still has all it must read before it.
Reads(c, u) == Unread(c) = u \cup (dropped \cap Unread(c))

\* What a card will read stays right when its messages stay and more is dropped.
LEMMA ReadsKept ==
    ASSUME NEW c, NEW u, Reads(c, u), Unread(c)' = Unread(c), dropped \subseteq dropped'
    PROVE  Reads(c, u)'
BY DEF Reads

\* The messages a resumed card takes over are all it has left to read.
LEMMA ReadsPendOf ==
    ASSUME NEW c
    PROVE  Reads(c, PendOf(c).unread)
BY DEF Reads, PendOf

\* ResumedKeepsSteers, task by task.
LEMMA ResumedReads ==
    ResumedKeepsSteers <=>
        \A s \in Session : pend[s].card # NoCard => Reads(pend[s].card, pend[s].unread)
BY DEF ResumedKeepsSteers, Reads

\* Every step keeps, of a card that takes messages, that it will read all it has.
LEMMA NextResumed ==
    ASSUME TypeInv, TakerInv, ResumedKeepsSteers, [Next]_vars
    PROVE  ResumedKeepsSteers'
<1> DEFINE Good(s) == \E c, u : /\ c = pend'[s].card /\ u = pend'[s].unread
                                /\ (c # NoCard => Reads(c, u)')
<1> SUFFICES ASSUME NEW s \in Session PROVE Good(s)
  BY DEF ResumedKeepsSteers, Reads, Unread, InputsOf
<1>0. /\ pend[s] \in Pending /\ pend \in [Session -> Pending] /\ read \subseteq Msg
      /\ pend[s].card # NoCard =>
            /\ Reads(pend[s].card, pend[s].unread)
            /\ pend[s].card \in Card /\ sess[pend[s].card] = s
            /\ status[pend[s].card] # "none"
      /\ \A t \in Session : pend[t].card # NoCard =>
            pend[t].card \in Card /\ sess[pend[t].card] = t
            /\ pend[t].unread \subseteq InputsOf(pend[t].card)
  <2>1. pend \in [Session -> Pending] /\ read \subseteq Msg
    BY DEF TypeInv, TypeOK
  <2>2. \A t \in Session : pend[t].card # NoCard =>
            /\ Reads(pend[t].card, pend[t].unread)
            /\ pend[t].card \in Card /\ sess[pend[t].card] = t
            /\ status[pend[t].card] # "none"
    BY <2>1, ResumedReads DEF TakerInv, Pending
  <2>3. \A t \in Session : pend[t].card # NoCard =>
            pend[t].unread \subseteq InputsOf(pend[t].card)
    BY <2>2 DEF Reads, Unread
  <2> QED
    BY <2>1, <2>2, <2>3
<1>1. ASSUME NEW u, NEW c, c = pend[s].card, u = pend[s].unread,
             pend'[s].card = c, pend'[s].unread = u,
             dropped \subseteq dropped', c # NoCard => Unread(c)' = Unread(c)
      PROVE  Good(s)
  <2>1. c # NoCard => Reads(c, u)'
    BY <1>0, <1>1, ReadsKept
  <2> QED
    BY <1>1, <2>1
<1>2. ASSUME pend'[s] = pend[s], UNCHANGED <<home, read>>, dropped \subseteq dropped'
      PROVE  Good(s)
  <2>1. PICK c, u : c = pend[s].card /\ u = pend[s].unread
    OBVIOUS
  <2>2. Unread(c)' = Unread(c)
    BY <1>2 DEF Unread, InputsOf
  <2>3. pend'[s].card = c /\ pend'[s].unread = u
    BY <1>2, <2>1
  <2> QED
    BY <1>1, <1>2, <2>1, <2>2, <2>3
<1>3. ASSUME pend'[s] = NoPend PROVE Good(s)
  BY <1>3 DEF NoPend
<1>4. ASSUME NEW c, UNCHANGED <<home, read>>, pend'[s] = PendOf(c)
      PROVE  Good(s)
  <2>1. Unread(c)' = Unread(c)
    BY <1>4 DEF Unread, InputsOf
  <2>2. Reads(c, Unread(c))'
    BY <2>1 DEF Reads
  <2>3. pend'[s].card = c /\ pend'[s].unread = Unread(c)
    BY <1>4 DEF PendOf
  <2> QED
    BY <2>1, <2>2, <2>3 DEF Reads
<1>5. ASSUME NEW t \in Session, NEW m \in Msg, Join(t, m) PROVE Good(s)
  <2>1. PICK c, u : c = pend[s].card /\ u = pend[s].unread
    OBVIOUS
  <2>2. PICK d : d = pend[t].card
    OBVIOUS
  <2>3. /\ home' = [home EXCEPT ![m] = d] /\ home[m] = NoCard /\ d # NoCard
        /\ home \in [Msg -> Card \cup {NoCard}] /\ UNCHANGED <<read, dropped>>
        /\ m \notin read
    BY <1>5, <2>2 DEF Join, histVars, TypeInv, TypeOK, TakerInv
  <2>4. CASE s = t
    <3>1. pend'[s].card = c /\ pend'[s].unread = u \cup {m}
      BY <1>0, <1>5, <2>1, <2>4 DEF Join, Pending
    <3>2. Unread(c)' = Unread(c) \cup {m} /\ c # NoCard /\ c = d
      BY <2>1, <2>2, <2>3, <2>4 DEF Unread, InputsOf
    <3>3. Reads(c, u \cup {m})'
      BY <1>0, <2>1, <2>3, <3>2 DEF Reads
    <3> QED
      BY <3>1, <3>3
  <2>5. CASE s # t
    <3>1. pend'[s].card = c /\ pend'[s].unread = u
      BY <1>0, <1>5, <2>1, <2>5 DEF Join
    <3>2. c # NoCard => c # d
      BY <1>0, <2>1, <2>2, <2>3, <2>5
    <3>3. c # NoCard => Unread(c)' = Unread(c)
      BY <2>3, <3>2 DEF Unread, InputsOf
    <3> QED
      BY <1>1, <2>1, <2>3, <3>1, <3>3
  <2> QED
    BY <2>4, <2>5
<1>6. ASSUME NEW t \in Session, NEW m \in Msg, NEW d \in Card, Open(t, m, d)
      PROVE  Good(s)
  <2>1. PICK c, u : c = pend[s].card /\ u = pend[s].unread
    OBVIOUS
  <2>2. /\ home' = [home EXCEPT ![m] = d] /\ home[m] = NoCard
        /\ home \in [Msg -> Card \cup {NoCard}] /\ UNCHANGED dropped
        /\ read' = read \cup {m} /\ status[d] = "none"
    BY <1>6 DEF Open, histVars, TypeInv, TypeOK
  <2>3. CASE pend'[s] = pend[s]
    <3>1. c # NoCard => c # d
      BY <1>0, <2>1, <2>2
    <3>2. c # NoCard => Unread(c)' = Unread(c)
      BY <2>2, <3>1 DEF Unread, InputsOf
    <3>3. pend'[s].card = c /\ pend'[s].unread = u
      BY <2>1, <2>3
    <3> QED
      BY <1>1, <2>1, <2>2, <3>2, <3>3
  <2>4. CASE pend'[s] # pend[s]
    <3>1. pend'[s].card = d /\ pend'[s].unread = {}
      BY <1>0, <1>6, <2>4 DEF Open, Taker
    <3>2. \A n \in Msg : home[n] # d
      BY <2>2, BoundsAssumption DEF TakerInv, Card, NoCard
    <3>3. Unread(d)' = {}
      BY <2>2, <3>2 DEF Unread, InputsOf
    <3>4. Reads(d, {})'
      BY <3>3 DEF Reads
    <3> QED
      BY <3>1, <3>4
  <2> QED
    BY <2>3, <2>4
<1>7. ASSUME NEW d \in Card, TurnStep(d) PROVE Good(s)
  <2>1. PICK c, u : c = pend[s].card /\ u = pend[s].unread
    OBVIOUS
  <2>2. UNCHANGED <<home, dropped>>
    BY <1>7, TurnStepMessages
  <2>3. CASE UNCHANGED <<pend, read>>
    BY <1>2, <2>2, <2>3
  <2>4. CASE CloseInputs(d) /\ UNCHANGED read
    <3>1. pend'[s] = pend[s] \/ pend'[s] = NoPend
      BY <1>0, <2>4 DEF CloseInputs
    <3> QED
      BY <1>2, <1>3, <2>2, <2>4, <3>1
  <2> DEFINE took == IF pend[sess[d]].card = d THEN pend[sess[d]].unread ELSE {}
  <2>5. ASSUME read' = read \cup took,
               pend' = [pend EXCEPT ![sess[d]] =
                          IF @.card = d THEN [@ EXCEPT !.unread = {}] ELSE @]
        PROVE  Good(s)
    <3>1. CASE s = sess[d] /\ c = d
      <4>1. pend'[s].card = c /\ pend'[s].unread = {} /\ read' = read \cup u
        BY <1>0, <2>1, <2>5, <3>1 DEF Pending
      <4>2. Reads(c, u) /\ Unread(c)' = Unread(c) \ u
        BY <1>0, <2>1, <2>2, <3>1, <4>1, BoundsAssumption DEF Unread, InputsOf, Card, NoCard
      <4>3. Reads(c, {})'
        BY <2>2, <4>2 DEF Reads
      <4> QED
        BY <4>1, <4>3
    <3>2. CASE ~(s = sess[d] /\ c = d)
      <4>1. pend'[s] = pend[s]
        BY <1>0, <2>1, <2>5, <3>2
      <4>2. c # NoCard => took \cap InputsOf(c) = {}
        <5>1. sess[d] \in Session
          BY <1>7 DEF TypeInv, Opened, Live, TurnStep, Start, CloseOpenCall, NextModelStep,
             OutOfSteps, EndStopped, SaveSteers, AnswerWithCalls, AnswerFinal, CommitAnswer,
             AnswerUnfinished, SkipCalls, StartTool, ToolDone, ToolsDone, LoopError,
             SaveLateSteers, LateAnswer, LateError, Report, HandOn, CloseCard, WriteRow, Finish,
             FailTurn
        <5>2. CASE pend[sess[d]].card # d
          BY <5>2
        <5>3. CASE pend[sess[d]].card = d
          <6>1. took \subseteq InputsOf(d)
            BY <1>0, <5>1, <5>3, BoundsAssumption DEF Card, NoCard
          <6>2. c # NoCard => c # d
            BY <1>0, <2>1, <3>2
          <6> HIDE DEF took
          <6> QED
            BY <6>1, <6>2 DEF InputsOf
        <5> QED
          BY <5>2, <5>3
      <4>3. c # NoCard => Unread(c)' = Unread(c)
        <5> HIDE DEF took
        <5> QED
          BY <2>2, <2>5, <4>2 DEF Unread, InputsOf
      <4>4. pend'[s].card = c /\ pend'[s].unread = u
        BY <2>1, <4>1
      <4> QED
        BY <1>1, <2>1, <2>2, <4>3, <4>4
    <3> QED
      BY <3>1, <3>2
  <2> HIDE DEF took
  <2> QED
    BY <1>7, <2>3, <2>4, <2>5, TurnStepMessages DEF took
<1>8. ASSUME NEW d \in Card, Park(d) \/ MissedBeat(d) PROVE Good(s)
  BY <1>2, <1>8 DEF Park, MissedBeat, memVars, histVars
<1>9. ASSUME NEW loops \in SUBSET Card, Reset(loops) PROVE Good(s)
  <2>1. UNCHANGED <<home, read>> /\ (pend'[s] = NoPend \/ \E c : pend'[s] = PendOf(c))
    BY <1>9 DEF Reset
  <2> QED
    BY <1>3, <1>4, <2>1
<1>10. ASSUME NEW t \in Session, NEW D \in SUBSET Card, ResumeDue(t, D) PROVE Good(s)
  <2>1. /\ UNCHANGED <<home, read, dropped>>
        /\ pend'[s] = NoPend \/ pend'[s] = pend[s] \/ \E c : pend'[s] = PendOf(c)
    BY <1>0, <1>10 DEF ResumeDue
  <2> QED
    BY <1>2, <1>3, <1>4, <2>1
<1>11. ASSUME NEW t \in Session, StopLive(t) PROVE Good(s)
  <2>1. PICK c, u : c = pend[s].card /\ u = pend[s].unread
    OBVIOUS
  <2>2. UNCHANGED <<home, read>> /\ dropped \subseteq dropped'
    BY <1>11 DEF StopLive, sqlVars
  <2>3. CASE pend'[s] = pend[s]
    BY <1>2, <2>2, <2>3
  <2>4. CASE pend'[s] # pend[s]
    <3>1. pend'[s].card = c /\ pend'[s].unread = {} /\ u \subseteq dropped'
      BY <1>0, <1>11, <2>1, <2>4 DEF StopLive, Pending
    <3>2. Unread(c)' = Unread(c)
      BY <2>2 DEF Unread, InputsOf
    <3>3. c # NoCard => Reads(c, {})'
      BY <1>0, <2>1, <2>2, <3>1, <3>2 DEF Reads
    <3> QED
      BY <3>1, <3>3
  <2> QED
    BY <2>3, <2>4
<1>12. ASSUME NEW t \in Session, StopJournaled(t) PROVE Good(s)
  <2>1. UNCHANGED <<home, read, dropped>> /\ (pend'[s] = NoPend \/ pend'[s] = pend[s])
    BY <1>0, <1>12 DEF StopJournaled, histVars
  <2> QED
    BY <1>2, <1>3, <2>1
<1>13. CASE UNCHANGED vars
  BY <1>2, <1>13 DEF vars, sqlVars, memVars, histVars
<1> HIDE DEF Good
<1> QED
  BY <1>5, <1>6, <1>7, <1>8, <1>9, <1>10, <1>11, <1>12, <1>13 DEF Next

\* The cards that take messages and what they read stay right through every message,
\* step, park, reset, resume and Stop.
LEMMA TakerInvariant == Spec => [](TakerInv /\ ResumedKeepsSteers)
<1>1. Init => TakerInv /\ ResumedKeepsSteers
  BY DEF Init, TakerInv, ResumedKeepsSteers, NoPend
<1>2. Inv /\ TakerInv /\ ResumedKeepsSteers /\ [Next]_vars
         => (TakerInv /\ ResumedKeepsSteers)'
  BY NextTaker, NextResumed DEF Inv
<1> QED
  BY <1>1, <1>2, Invariant, PTL DEF Spec

\* A turn that is carried on takes over all the messages of its card that were unread,
\* but for those a Stop dropped, however often the object is reset, turns are parked,
\* resumed out of turn, given up or stopped (pendOf in resume.js, takeSteers in
\* resident.js, hardStop in stop.js).
THEOREM ResumedReadsAll == Spec => []ResumedKeepsSteers
BY TakerInvariant, PTL
----------------------------------------------------------------------------
(* No message is left behind, as long as the object is not reset *)

\* A step that leaves an open card its place as taker leaves none of it behind.
LEMMA SteerKept ==
    ASSUME SteerInv, UNCHANGED <<sess, home>>, read \subseteq read',
           dropped \subseteq dropped',
           \A c \in Card : status'[c] # "none" => status[c] # "none",
           \A c \in Card : status'[c] \in OpenStatus /\ ~Committed(c)' =>
               /\ status[c] \in OpenStatus /\ ~Committed(c)
               /\ pend[sess[c]].card = c => pend'[sess[c]].card = c
    PROVE  SteerInv'
<1>1. \A c \in Card : Unread(c)' \subseteq Unread(c)
  BY DEF Unread, InputsOf
<1> QED
  BY <1>1 DEF SteerInv

\* A turn's step keeps its card as taker until it commits or fails.
LEMMA TurnStepSteer ==
    ASSUME TypeInv, StatusInv, NEW c \in Card, TurnStep(c)
    PROVE  /\ status'[c] # "none" => status[c] # "none"
           /\ status'[c] \in OpenStatus /\ ~Committed(c)' =>
                 /\ status[c] \in OpenStatus /\ ~Committed(c)
                 /\ pend[sess[c]].card = c => pend'[sess[c]].card = c
<1> USE DEF OpenStatus, EndStatus, EndPc
<1>0. Live(c)
  BY DEF Live, TurnStep, Start, CloseOpenCall, NextModelStep,
     OutOfSteps, EndStopped, SaveSteers, AnswerWithCalls, AnswerFinal, CommitAnswer,
     AnswerUnfinished, SkipCalls, StartTool, ToolDone, ToolsDone, LoopError,
     SaveLateSteers, LateAnswer, LateError, Report, HandOn, CloseCard, WriteRow, Finish,
     FailTurn
<1>1. sess[c] \in Session /\ status[c] # "none" /\ pend \in [Session -> Pending]
  BY <1>0 DEF TypeInv, TypeOK, Opened
<1>2. CASE \/ Start(c) \/ CloseOpenCall(c) \/ AnswerWithCalls(c) \/ AnswerFinal(c)
           \/ AnswerUnfinished(c) \/ SkipCalls(c) \/ StartTool(c) \/ ToolDone(c)
           \/ ToolsDone(c) \/ SaveLateSteers(c)
  BY <1>1, <1>2 DEF Start, CloseOpenCall, AnswerWithCalls, AnswerFinal, AnswerUnfinished,
     SkipCalls, StartTool, ToolDone, ToolsDone, SaveLateSteers, sqlVars, memVars,
     Committed, TypeInv, TypeOK
<1>3. CASE CloseCard(c) \/ WriteRow(c)
  BY <1>1, <1>3 DEF CloseCard, WriteRow, Committed, TypeInv, TypeOK
<1>4. CASE Finish(c)
  <2>1. status'[c] \notin OpenStatus
    BY <1>4 DEF Finish, StatusInv, TypeInv, TypeOK, EndKnown, Committed
  <2> QED
    BY <1>1, <2>1
<1>5. CASE FailTurn(c)
  <2>1. status'[c] \notin OpenStatus
    BY <1>5 DEF FailTurn, EndCards, TypeInv, TypeOK
  <2> QED
    BY <1>1, <2>1
<1>6. ASSUME UNCHANGED status, pc[c] \notin EndPc,
             NEW next, NEW wait, TakeSteers(c, next, wait)
      PROVE  /\ status[c] \in OpenStatus <=> status'[c] \in OpenStatus /\ ~Committed(c)
             /\ pend[sess[c]].card = c => pend'[sess[c]].card = c
  BY <1>1, <1>6 DEF TakeSteers, Committed, Pending
<1>7. ASSUME NEW how, CommitAs(c, how) PROVE Committed(c)'
  BY <1>7 DEF CommitAs, Committed, TypeInv, TypeOK
<1>8. CASE NextModelStep(c)
  BY <1>1, <1>6, <1>8 DEF NextModelStep
<1>9. CASE OutOfSteps(c)
  BY <1>1, <1>6, <1>9 DEF OutOfSteps, AnswerLate, Committed, TypeInv, TypeOK
<1>10. CASE EndStopped(c) \/ LoopError(c) \/ LateError(c) \/ Report(c) \/ HandOn(c)
  BY <1>1, <1>7, <1>10 DEF EndStopped, LoopError, LateError, Report, HandOn
<1>11. CASE SaveSteers(c)
  BY <1>1, <1>7, <1>11 DEF SaveSteers, Committed, TypeInv, TypeOK
<1>12. CASE CommitAnswer(c) \/ LateAnswer(c)
  BY <1>1, <1>6, <1>7, <1>12 DEF CommitAnswer, LateAnswer, AnswerLate
<1> QED
  BY <1>2, <1>3, <1>4, <1>5, <1>8, <1>9, <1>10, <1>11, <1>12 DEF TurnStep

\* Without resets of the object every step leaves no message of an open card behind.
LEMMA NextSteer ==
    ASSUME Inv, TakerInv, ResumedKeepsSteers, SteerInv, MaxResets = 0, [Next]_vars
    PROVE  SteerInv'
<1>0. /\ TypeInv /\ LifeInv /\ pend \in [Session -> Pending]
      /\ read \subseteq Msg /\ status \in [Card -> {"none"} \cup OpenStatus \cup EndStatus]
  BY DEF Inv, TypeInv, TypeOK
<1>1. ASSUME UNCHANGED <<sess, home, read, status, pc>>, dropped \subseteq dropped',
             \A s \in Session : pend'[s].card = pend[s].card
      PROVE  SteerInv'
  <2>1. \A c \in Card : status[c] \in OpenStatus =>
           sess[c] \in Session /\ pend'[sess[c]].card = pend[sess[c]].card
    BY <1>1 DEF SteerInv, OpenStatus
  <2> QED
    BY <1>1, <2>1, SteerKept DEF Committed
<1>2. ASSUME NEW s \in Session, NEW m \in Msg, Join(s, m) PROVE SteerInv'
  <2>1. PICK d : d = pend[s].card
    OBVIOUS
  <2>2. /\ d \in Card /\ sess[d] = s /\ home' = [home EXCEPT ![m] = d]
        /\ UNCHANGED <<sess, read, status, pc, dropped>>
    BY <1>0, <1>2, <2>1 DEF Join, Pending, TakerInv, histVars
  <2>3. \A t \in Session : pend'[t].card = pend[t].card
    BY <1>0, <1>2 DEF Join, Pending
  <2>4. \A c \in Card : c # d => Unread(c)' \subseteq Unread(c)
    BY <2>2 DEF Unread, InputsOf
  <2>5. \A c \in Card : status[c] # "none" => sess[c] \in Session
    BY DEF SteerInv
  <2>6. pend[sess[d]].card = d
    BY <2>1, <2>2
  <2> QED
    BY <2>2, <2>3, <2>4, <2>5, <2>6 DEF SteerInv, Committed, OpenStatus
<1>3. ASSUME NEW s \in Session, NEW m \in Msg, NEW c \in Card, Open(s, m, c)
      PROVE  SteerInv'
  <2>1. /\ home' = [home EXCEPT ![m] = c] /\ read' = read \cup {m} /\ home[m] = NoCard
        /\ home \in [Msg -> Card \cup {NoCard}] /\ UNCHANGED dropped
        /\ status[c] = "none" /\ sess' = [sess EXCEPT ![c] = s]
        /\ \A d \in Card : d # c => status'[d] = status[d] /\ pc'[d] = pc[d]
    BY <1>0, <1>3 DEF Open, histVars, TypeInv, TypeOK
  <2>2. \A n \in Msg : home[n] # c
    BY <2>1, BoundsAssumption DEF TakerInv, Card, NoCard
  <2>3. Unread(c)' = {} /\ \A d \in Card : d # c => Unread(d)' = Unread(d)
    <3>1. NoCard \notin Card
      BY BoundsAssumption DEF Card, NoCard
    <3> QED
      BY <2>1, <2>2, <3>1 DEF Unread, InputsOf
  <2>4. sess'[c] = s /\ \A d \in Card : d # c => sess'[d] = sess[d]
    BY <2>1 DEF TypeInv, TypeOK, Inv
  <2>5. \A t \in Session : pend'[t] = pend[t] \/ pend[t].card = NoCard
    BY <1>0, <1>3 DEF Open, Taker
  <2>6. ASSUME NEW d \in Card, d # c, status[d] # "none", pend[sess[d]].card = d
        PROVE  pend'[sess[d]].card = d
    BY <2>5, <2>6, BoundsAssumption DEF SteerInv, Card, NoCard
  <2> QED
    BY <2>1, <2>3, <2>4, <2>6 DEF SteerInv, Committed, OpenStatus
<1>4. ASSUME NEW c \in Card, TurnStep(c) PROVE SteerInv'
  <2>1. /\ UNCHANGED <<sess, home, dropped>> /\ read \subseteq read'
        /\ \A d \in Card : d # c => status'[d] = status[d] /\ pc'[d] = pc[d]
    BY <1>0, <1>4, TurnStepMessages, TurnStepCards
  <2>2. \A s \in Session : pend[s].card # c => pend'[s] = pend[s]
    BY <1>0, <1>4, TurnStepMessages DEF CloseInputs
  <2>3. /\ status'[c] # "none" => status[c] # "none"
        /\ status'[c] \in OpenStatus /\ ~Committed(c)' =>
              /\ status[c] \in OpenStatus /\ ~Committed(c)
              /\ pend[sess[c]].card = c => pend'[sess[c]].card = c
    BY <1>0, <1>4, TurnStepSteer DEF LifeInv
  <2>4. ASSUME NEW d \in Card, d # c, status[d] \in OpenStatus, pend[sess[d]].card = d
        PROVE  pend'[sess[d]].card = d
    BY <2>2, <2>4 DEF SteerInv, OpenStatus
  <2> QED
    BY <2>1, <2>3, <2>4, SteerKept DEF Committed
<1>5. ASSUME NEW c \in Card, Park(c) PROVE SteerInv'
  <2>1. /\ UNCHANGED <<sess, home, read, dropped, pend>>
        /\ \A d \in Card : status'[d] # "none" => status[d] # "none"
        /\ \A d \in Card : status'[d] \in OpenStatus => status[d] \in OpenStatus
        /\ \A d \in Card : Committed(d) => Committed(d)'
    BY <1>0, <1>5 DEF Park, Leave, OpenStatus, EndStatus, Committed, EndPc, LoopPc, TypeInv, TypeOK
  <2> QED
    BY <2>1, SteerKept
<1>6. ASSUME NEW c \in Card, MissedBeat(c) PROVE SteerInv'
  BY <1>1, <1>6 DEF MissedBeat, memVars, histVars
<1>7. ASSUME NEW loops \in SUBSET Card, Reset(loops) PROVE FALSE
  BY <1>0, <1>7 DEF Reset, TypeInv, TypeOK
<1>8. ASSUME NEW s \in Session, NEW D \in SUBSET Card, ResumeDue(s, D) PROVE SteerInv'
  <2> DEFINE used == {c \in D : journal[c] = "resuming" /\ UsedUp(c)}
             again == {c \in D : journal[c] = "resuming"} \ used
             free == {c \in again : \/ pend[s].card = NoCard
                                    \/ pend[s].card \in used /\ pend[s].card < c}
  <2>1. pend' = [pend EXCEPT ![s] = IF free # {} THEN PendOf(First(free))
                                    ELSE IF @.card \in used THEN NoPend ELSE @]
    BY <1>8 DEF ResumeDue
  <2>2. \A c \in D : ~Live(c) /\ status[c] \in OpenStatus
    BY <1>0, <1>8 DEF ResumeDue, Due, Resumable, CardsOf, LifeInv, JournalOpen
  <2>3. /\ UNCHANGED <<sess, home, read, dropped>>
        /\ \A c \in Card : c \notin D => status'[c] = status[c] /\ pc'[c] = pc[c]
        /\ \A c \in used : status'[c] = "interrupted"
    BY <1>0, <1>8 DEF ResumeDue, TypeInv, TypeOK
  <2>4. free # {} => pend[s].card = NoCard \/ pend[s].card \in used
    OBVIOUS
  <2> HIDE DEF free, used, again
  <2>5. ASSUME NEW c \in Card, status'[c] \in OpenStatus
        PROVE  status[c] \in OpenStatus /\ (pend[sess[c]].card = c => pend'[sess[c]].card = c)
    <3>1. c \notin used /\ status[c] \in OpenStatus
      BY <2>2, <2>3, <2>5 DEF OpenStatus
    <3>2. sess[c] \in Session
      BY <3>1 DEF SteerInv, OpenStatus
    <3>3. ASSUME pend[sess[c]].card = c PROVE pend'[sess[c]] = pend[sess[c]]
      <4>1. c # NoCard
        BY BoundsAssumption DEF Card, NoCard
      <4> QED
        BY <1>0, <2>1, <2>4, <3>1, <3>2, <3>3, <4>1
    <3> QED
      BY <3>1, <3>3
  <2>6. \A c \in Card : status'[c] # "none" => status[c] # "none"
    BY <2>2, <2>3 DEF OpenStatus
  <2>7. \A c \in Card : Committed(c) => Committed(c)'
    BY <2>2, <2>3 DEF Live, Committed, EndPc
  <2> QED
    BY <2>3, <2>5, <2>6, <2>7, SteerKept
<1>9. ASSUME NEW s \in Session, StopLive(s) PROVE SteerInv'
  <2>1. \A t \in Session : pend'[t].card = pend[t].card
    BY <1>0, <1>9 DEF StopLive, Pending
  <2> QED
    BY <1>1, <1>9, <2>1 DEF StopLive, sqlVars
<1>10. ASSUME NEW s \in Session, StopJournaled(s) PROVE SteerInv'
  <2>1. UNCHANGED <<sess, home, read, dropped, pc>>
    BY <1>10 DEF StopJournaled, histVars
  <2>2. ASSUME NEW c \in Card
        PROVE  /\ status'[c] # "none" => status[c] # "none"
               /\ status'[c] \in OpenStatus =>
                     status[c] \in OpenStatus /\ (pend[sess[c]].card = c => pend'[sess[c]].card = c)
    <3>1. \/ status'[c] = status[c]
          \/ status[c] \in OpenStatus /\ status'[c] = "stopped"
      BY <1>0, <1>10 DEF StopJournaled, EndCards
    <3>2. c \in Resumable(s) => status'[c] \notin OpenStatus
      BY <1>0, <1>10 DEF StopJournaled, EndCards, OpenStatus
    <3>3. status[c] \in OpenStatus /\ c \notin Resumable(s) /\ pend[sess[c]].card = c
             => pend'[sess[c]] = pend[sess[c]]
      BY <1>0, <1>10 DEF StopJournaled, SteerInv, OpenStatus
    <3> QED
      BY <3>1, <3>2, <3>3 DEF OpenStatus
  <2> QED
    BY <2>1, <2>2, SteerKept DEF Committed
<1>11. CASE UNCHANGED vars
  BY <1>1, <1>11 DEF vars, sqlVars, memVars, histVars
<1> QED
  BY <1>2, <1>3, <1>4, <1>5, <1>6, <1>7, <1>8, <1>9, <1>10, <1>11 DEF Next

\* While the object is not reset a turn that works leaves no message of its card
\* behind: each is read, or waits in the list the turn reads from, or a Stop dropped
\* it, also for turns that are parked, resumed out of order or given up (steerOrOpen,
\* takeSteers, commitTurn in resident.js, pendOf in resume.js).
THEOREM NoMessageLeftBehind ==
    ASSUME MaxResets = 0
    PROVE  Spec => []SteersReach
<1>1. Init => SteerInv
  BY DEF Init, SteerInv, OpenStatus
<1>2. Inv /\ TakerInv /\ ResumedKeepsSteers /\ SteerInv /\ [Next]_vars => SteerInv'
  BY NextSteer
<1>3. Inv /\ TakerInv /\ ResumedKeepsSteers /\ SteerInv => SteersReach
  <2> SUFFICES ASSUME Inv, TakerInv, ResumedKeepsSteers, SteerInv,
                      NEW c \in Card, pc[c] \in LoopPc
               PROVE  Unread(c) \subseteq dropped \cup
                        (IF pend[sess[c]].card = c THEN pend[sess[c]].unread ELSE {})
    BY DEF SteersReach
  <2>1. status[c] \in OpenStatus /\ ~Committed(c) /\ sess[c] \in Session /\ c # NoCard
    BY BoundsAssumption DEF Inv, LifeInv, StatusInv, TypeInv, Opened, Live, OpenStatus, LoopPc,
       Committed, EndPc, Card, NoCard
  <2>2. CASE pend[sess[c]].card = c
    BY <2>1, <2>2, ResumedReads DEF Reads
  <2>3. CASE pend[sess[c]].card # c
    BY <2>1, <2>3 DEF SteerInv
  <2> QED
    BY <2>2, <2>3
<1> QED
  BY <1>1, <1>2, <1>3, Invariant, TakerInvariant, PTL DEF Spec
----------------------------------------------------------------------------
(* An ending reaches the history, as long as the object is not reset *)

\* A turn's step writes the row, ends the turn, or leaves it running before its row.
LEMMA TurnStepPlace ==
    ASSUME TypeInv, NEW c \in Card, TurnStep(c)
    PROVE  \/ WriteRow(c) \/ Finish(c) \/ FailTurn(c)
           \/ pc'[c] \in LoopPc \cup {"committed", "closed"}
<1> USE DEF LoopPc
<1>1. CASE CloseOpenCall(c) \/ SkipCalls(c)
  BY <1>1 DEF CloseOpenCall, SkipCalls, memVars
<1>2. CASE NextModelStep(c) \/ OutOfSteps(c)
  BY <1>2 DEF NextModelStep, OutOfSteps, AnswerLate, TakeSteers, TypeInv, TypeOK
<1>3. CASE EndStopped(c) \/ SaveSteers(c) \/ LoopError(c) \/ LateError(c) \/ Report(c) \/ HandOn(c)
  BY <1>3 DEF EndStopped, SaveSteers, LoopError, LateError, Report, HandOn, CommitAs, TypeInv, TypeOK
<1>4. CASE CommitAnswer(c) \/ LateAnswer(c)
  BY <1>4 DEF CommitAnswer, LateAnswer, CommitAs, AnswerLate, TakeSteers, TypeInv, TypeOK
<1>5. CASE \/ Start(c) \/ AnswerWithCalls(c) \/ AnswerFinal(c) \/ AnswerUnfinished(c)
           \/ StartTool(c) \/ ToolDone(c) \/ ToolsDone(c) \/ SaveLateSteers(c)
           \/ CloseCard(c)
  BY <1>5 DEF Start, AnswerWithCalls, AnswerFinal, AnswerUnfinished, StartTool, ToolDone,
     ToolsDone, SaveLateSteers, CloseCard, TypeInv, TypeOK
<1> QED
  BY <1>1, <1>2, <1>3, <1>4, <1>5 DEF TurnStep

\* Without resets of the object every step keeps that an ended card has its row.
LEMMA NextRow ==
    ASSUME Inv, RowInv, MaxResets = 0, [Next]_vars
    PROVE  RowInv'
<1> DEFINE Good(c) == /\ status'[c] \in EndStatus /\ ~Live(c)' => row'[c] # "none"
                      /\ pc'[c] = "wrote" => row'[c] # "none"
<1> SUFFICES ASSUME NEW c \in Card PROVE Good(c)
  BY DEF RowInv, EndedHasRow
<1>0. /\ TypeInv /\ LifeInv
      /\ status[c] \in EndStatus /\ ~Live(c) => row[c] # "none"
      /\ pc[c] = "wrote" => row[c] # "none"
      /\ status \in [Card -> {"none"} \cup OpenStatus \cup EndStatus]
      /\ row \in [Card -> {"none", "reply"} \cup EndStatus] /\ pc \in [Card -> Pc]
  BY DEF Inv, TypeInv, TypeOK, RowInv, EndedHasRow
<1>1. ASSUME status'[c] = status[c], row'[c] = row[c], pc'[c] = pc[c] PROVE Good(c)
  BY <1>0, <1>1 DEF Live
<1>2. ASSUME NEW s \in Session, NEW m \in Msg, Join(s, m) PROVE Good(c)
  BY <1>1, <1>2 DEF Join
<1>3. ASSUME NEW s \in Session, NEW m \in Msg, NEW d \in Card, Open(s, m, d) PROVE Good(c)
  <2>1. CASE c = d
    BY <1>0, <1>3, <2>1 DEF Open, OpenStatus, EndStatus
  <2>2. CASE c # d
    BY <1>0, <1>1, <1>3, <2>2 DEF Open
  <2> QED
    BY <2>1, <2>2
<1>4. ASSUME NEW d \in Card, TurnStep(d) PROVE Good(c)
  <2>1. CASE c # d
    BY <1>0, <1>1, <1>4, <2>1, TurnStepCards
  <2>2. CASE c = d /\ WriteRow(c)
    <3>1. outcome[c] \in EndStatus
      BY <1>0, <2>2 DEF WriteRow, TypeInv, TypeOK, EndKnown, Committed, EndPc
    <3>2. row'[c] # "none" /\ pc'[c] = "wrote"
      BY <1>0, <2>2, <3>1 DEF WriteRow, Row, EndStatus
    <3> QED
      BY <3>2
  <2>3. CASE c = d /\ Finish(c)
    BY <1>0, <2>3 DEF Finish, Leave
  <2>4. CASE c = d /\ FailTurn(c)
    BY <1>0, <2>4 DEF FailTurn, EndCards, Leave
  <2>5. CASE c = d /\ pc'[c] \in LoopPc \cup {"committed", "closed"}
    BY <2>5 DEF Live, LoopPc
  <2> QED
    BY <1>0, <1>4, <2>1, <2>2, <2>3, <2>4, <2>5, TurnStepPlace
<1>5. ASSUME NEW d \in Card, Park(d) PROVE Good(c)
  <2>1. CASE c # d
    BY <1>0, <1>1, <1>5, <2>1 DEF Park, Leave
  <2>2. CASE c = d
    BY <1>0, <1>5, <2>2 DEF Park, Leave, LifeInv, StatusInv, OpenStatus, EndStatus
  <2> QED
    BY <2>1, <2>2
<1>6. ASSUME NEW d \in Card, MissedBeat(d) PROVE Good(c)
  BY <1>1, <1>6 DEF MissedBeat, memVars
<1>7. ASSUME NEW loops \in SUBSET Card, Reset(loops) PROVE FALSE
  BY <1>0, <1>7 DEF Reset, TypeInv, TypeOK
<1>8. ASSUME NEW s \in Session, NEW D \in SUBSET Card, ResumeDue(s, D) PROVE Good(c)
  <2>1. \A d \in D : ~Live(d) /\ status[d] \in OpenStatus
    BY <1>0, <1>8 DEF ResumeDue, Due, Resumable, CardsOf, LifeInv, JournalOpen
  <2>2. CASE c \notin D
    BY <1>0, <1>1, <1>8, <2>2 DEF ResumeDue
  <2>3. CASE c \in D /\ journal[c] = "resuming" /\ UsedUp(c)
    BY <1>0, <1>8, <2>1, <2>3 DEF ResumeDue, Live
  <2>4. CASE c \in D /\ ~(journal[c] = "resuming" /\ UsedUp(c))
    <3>1. pc'[c] \in {"start", "waiting"}
      BY <1>8, <2>4 DEF ResumeDue
    <3> QED
      BY <3>1 DEF Live
  <2> QED
    BY <2>2, <2>3, <2>4
<1>9. ASSUME NEW s \in Session, StopLive(s) PROVE Good(c)
  BY <1>1, <1>9 DEF StopLive, sqlVars
<1>10. ASSUME NEW s \in Session, StopJournaled(s) PROVE Good(c)
  <2>1. pc'[c] = pc[c]
    BY <1>10 DEF StopJournaled
  <2>2. CASE c \in Resumable(s)
    BY <1>0, <1>10, <2>1, <2>2 DEF StopJournaled, EndCards
  <2>3. CASE c \notin Resumable(s)
    BY <1>0, <1>1, <1>10, <2>1, <2>3 DEF StopJournaled, EndCards
  <2> QED
    BY <2>2, <2>3
<1>11. CASE UNCHANGED vars
  BY <1>1, <1>11 DEF vars, sqlVars, memVars
<1> HIDE DEF Good
<1> QED
  BY <1>2, <1>3, <1>4, <1>5, <1>6, <1>7, <1>8, <1>9, <1>10, <1>11 DEF Next

\* While the object is not reset a card that ended has its row in the task's history,
\* however it ended: by its turn, a failure, a Stop or a resume given up
\* (runTurnInner's INSERT INTO turns, abandonTurn, stopJournaled).
THEOREM EndingReachesHistory ==
    ASSUME MaxResets = 0
    PROVE  Spec => []EndedHasRow
<1>1. Init => RowInv
  BY DEF Init, RowInv, EndedHasRow, EndStatus
<1>2. Inv /\ RowInv /\ [Next]_vars => RowInv'
  BY NextRow
<1>3. RowInv => EndedHasRow
  BY DEF RowInv
<1> QED
  BY <1>1, <1>2, <1>3, Invariant, PTL DEF Spec
----------------------------------------------------------------------------
(* What is marked read is saved, when no model is asked in between *)

\* Without the routing model a message is saved in the step that marks it read.
LEMMA NextSaved ==
    ASSUME Routing = FALSE, read \subseteq saved, [Next]_vars
    PROVE  read' \subseteq saved'
<1>1. ASSUME NEW s \in Session, NEW m \in Msg, Join(s, m) \/ \E c \in Card : Open(s, m, c)
      PROVE  read' \subseteq saved'
  BY <1>1 DEF Join, Open
<1>2. ASSUME NEW c \in Card, TurnStep(c) PROVE read' \subseteq saved'
  <2>1. CASE \/ Start(c) \/ CloseOpenCall(c) \/ AnswerWithCalls(c) \/ AnswerFinal(c)
             \/ AnswerUnfinished(c) \/ SkipCalls(c) \/ StartTool(c) \/ ToolDone(c)
             \/ ToolsDone(c) \/ SaveLateSteers(c) \/ CloseCard(c) \/ WriteRow(c)
             \/ Finish(c) \/ FailTurn(c)
    BY <2>1 DEF Start, CloseOpenCall, AnswerWithCalls, AnswerFinal, AnswerUnfinished,
       SkipCalls, StartTool, ToolDone, ToolsDone, SaveLateSteers, CloseCard, WriteRow,
       Finish, FailTurn, sqlVars
  <2>2. ASSUME NEW next, NEW wait, TakeSteers(c, next, wait) PROVE read' \subseteq saved'
    BY <2>2 DEF TakeSteers, Waits
  <2>3. ASSUME NEW how, CommitAs(c, how), saved \subseteq saved' PROVE read' \subseteq saved'
    BY <2>3 DEF CommitAs
  <2>4. CASE NextModelStep(c) \/ OutOfSteps(c)
    BY <2>2, <2>4 DEF NextModelStep, OutOfSteps, AnswerLate
  <2>5. CASE EndStopped(c) \/ LoopError(c) \/ LateError(c) \/ Report(c) \/ HandOn(c)
    BY <2>3, <2>5 DEF EndStopped, LoopError, LateError, Report, HandOn
  <2>6. CASE SaveSteers(c)
    BY <2>3, <2>6 DEF SaveSteers
  <2>7. CASE CommitAnswer(c) \/ LateAnswer(c)
    BY <2>2, <2>3, <2>7 DEF CommitAnswer, LateAnswer, AnswerLate
  <2> QED
    BY <1>2, <2>1, <2>4, <2>5, <2>6, <2>7 DEF TurnStep
<1>3. CASE UNCHANGED <<read, saved>>
  BY <1>3
<1>4. ASSUME NEW c \in Card, Park(c) \/ MissedBeat(c) PROVE UNCHANGED <<read, saved>>
  BY <1>4 DEF Park, MissedBeat
<1>5. ASSUME NEW loops \in SUBSET Card, Reset(loops) PROVE UNCHANGED <<read, saved>>
  BY <1>5 DEF Reset
<1>6. ASSUME NEW s \in Session, NEW D \in SUBSET Card, ResumeDue(s, D)
      PROVE  UNCHANGED <<read, saved>>
  BY <1>6 DEF ResumeDue
<1>7. ASSUME NEW s \in Session, StopLive(s) \/ StopJournaled(s)
      PROVE  UNCHANGED <<read, saved>>
  BY <1>7 DEF StopLive, StopJournaled, sqlVars
<1> QED
  BY <1>1, <1>2, <1>3, <1>4, <1>5, <1>6, <1>7 DEF Next, vars, sqlVars

\* When no routing model is asked, a message marked read is in what a resume rebuilds
\* the turn from, through every reset (takeSteers and steerMessage in resident.js).
\* With routing the code does not keep this: run read_unsaved.
THEOREM ReadIsKept ==
    ASSUME Routing = FALSE
    PROVE  Spec => []ReadIsSaved
<1>1. Init => read \subseteq saved
  BY DEF Init
<1>2. read \subseteq saved /\ [Next]_vars => (read \subseteq saved)'
  BY NextSaved
<1>3. read \subseteq saved => ReadIsSaved
  BY DEF ReadIsSaved
<1> QED
  BY <1>1, <1>2, <1>3, PTL DEF Spec
----------------------------------------------------------------------------
(* The order of a task's turns, as long as nothing is reset *)

\* When nothing is reset no turn is resumed, parked or recovered.
LEMMA NothingResumes ==
    ASSUME TypeInv, StopInv, MaxResets = 0, MaxParks = 0
    PROVE  /\ \A c \in Card : ~Park(c)
           /\ \A loops \in SUBSET Card : ~Reset(loops)
           /\ \A s \in Session, D \in SUBSET Card : ~ResumeDue(s, D)
<1>1. ASSUME NEW s \in Session PROVE Resumable(s) = {}
  BY DEF Resumable, CardsOf, StopInv
<1> QED
  BY <1>1 DEF StopInv, Park, Reset, ResumeDue, Due

\* A turn's step keeps which turns live and what they wait for, unless it ends its turn.
LEMMA TurnStepLive ==
    ASSUME TypeInv, NEW c \in Card, TurnStep(c)
    PROVE  /\ Live(c) /\ UNCHANGED sess
           /\ \/ Live(c)' /\ UNCHANGED before
              \/ /\ ~Live(c)'
                 /\ before' = [d \in Card |-> IF d \in {c} THEN {} ELSE before[d] \ {c}]
<1>1. CASE Finish(c) \/ FailTurn(c)
  BY <1>1 DEF Finish, FailTurn, Leave, Live
<1>2. CASE ~Finish(c) /\ ~FailTurn(c)
  <2>1. pc'[c] \in LoopPc \cup EndPc
    BY <1>2, TurnStepPlace DEF WriteRow, EndPc, TypeInv, TypeOK
  <2>2. UNCHANGED <<sess, before>> /\ Live(c)
    BY <1>2 DEF TurnStep, Start, CloseOpenCall, NextModelStep, OutOfSteps, EndStopped,
       SaveSteers, AnswerWithCalls, AnswerFinal, CommitAnswer, AnswerUnfinished,
       SkipCalls, StartTool, ToolDone, ToolsDone, LoopError, SaveLateSteers, LateAnswer,
       LateError, Report, HandOn, CloseCard, WriteRow, CommitAs, AnswerLate, memVars, sqlVars, Live
  <2> QED
    BY <2>1, <2>2 DEF Live, LoopPc, EndPc
<1> QED
  BY <1>1, <1>2

\* When nothing is reset every step keeps the order in which a task's turns wait.
LEMMA NextOrder ==
    ASSUME TypeInv, StopInv, OrderInv, MaxResets = 0, MaxParks = 0, [Next]_vars
    PROVE  OrderInv'
<1>0. /\ status \in [Card -> {"none"} \cup OpenStatus \cup EndStatus] /\ pc \in [Card -> Pc]
      /\ sess \in [Card -> Session \cup {NoSession}] /\ before \in [Card -> SUBSET Card]
      /\ \A c \in Card : Live(c) => status[c] # "none"
      /\ Card \subseteq Nat
  BY BoundsAssumption DEF TypeInv, TypeOK, Opened, Card
<1>1. ASSUME UNCHANGED <<sess, pc, before>>,
             \A c \in Card : status'[c] = "none" <=> status[c] = "none"
      PROVE  OrderInv'
  BY <1>1 DEF OrderInv, Live
<1>2. ASSUME NEW s \in Session, NEW m \in Msg, Join(s, m) PROVE OrderInv'
  BY <1>1, <1>2 DEF Join
<1>3. ASSUME NEW s \in Session, NEW m \in Msg, NEW c \in Card, Open(s, m, c)
      PROVE  OrderInv'
  <2>1. /\ status[c] = "none" /\ status'[c] # "none" /\ sess'[c] = s
        /\ before'[c] = LiveOf(s) /\ \A d \in Card : d < c => status[d] # "none"
        /\ \A d \in Card : d # c => /\ status'[d] = status[d] /\ sess'[d] = sess[d]
                                   /\ pc'[d] = pc[d] /\ before'[d] = before[d]
    BY <1>0, <1>3 DEF Open
  <2>2. \A d \in Card : status[d] # "none" => d < c
    BY <1>0, <2>1 DEF OrderInv
  <2>3. \A d \in Card : Live(d) /\ sess[d] = s => d \in LiveOf(s)
    BY <1>0 DEF LiveOf, CardsOf
  <2>4. ASSUME NEW d \in Card, NEW e \in Card, status'[e] # "none", d < e
        PROVE  status'[d] # "none"
    BY <1>0, <2>1, <2>2, <2>4 DEF OrderInv
  <2>5. ASSUME NEW d \in Card, NEW e \in Card, Live(d)', Live(e)', (sess[d] = sess[e])', e < d
        PROVE  e \in before'[d]
    <3>1. CASE d = c
      <4>1. e # c
        BY <1>0, <2>5, <3>1
      <4> QED
        BY <2>1, <2>3, <2>5, <3>1, <4>1 DEF Live
    <3>2. CASE d # c
      <4>1. d < c
        BY <1>0, <2>1, <2>2, <2>5, <3>2 DEF Live
      <4>2. e # c
        BY <1>0, <2>5, <4>1
      <4> QED
        BY <2>1, <2>5, <3>2, <4>2 DEF OrderInv, Live
    <3> QED
      BY <3>1, <3>2
  <2> QED
    BY <2>4, <2>5 DEF OrderInv
<1>4. ASSUME NEW c \in Card, TurnStep(c) PROVE OrderInv'
  <2>1. /\ UNCHANGED sess /\ Live(c) /\ status[c] # "none" /\ status'[c] # "none"
        /\ \A d \in Card : d # c => status'[d] = status[d] /\ pc'[d] = pc[d]
    BY <1>0, <1>4, TurnStepLive, TurnStepCards
  <2>2. CASE UNCHANGED before
    BY <2>1, <2>2 DEF OrderInv, Live
  <2>3. CASE ~Live(c)' /\ before' = [d \in Card |-> IF d \in {c} THEN {} ELSE before[d] \ {c}]
    BY <2>1, <2>3 DEF OrderInv, Live
  <2> QED
    BY <1>4, <2>2, <2>3, TurnStepLive
<1>5. ASSUME NEW c \in Card, MissedBeat(c) PROVE OrderInv'
  BY <1>1, <1>5 DEF MissedBeat, memVars
<1>6. ASSUME NEW s \in Session, StopLive(s) PROVE OrderInv'
  BY <1>1, <1>6 DEF StopLive, sqlVars
<1>7. ASSUME NEW s \in Session, StopJournaled(s) PROVE OrderInv'
  BY <1>0, <1>1, <1>7 DEF StopJournaled, EndCards, OpenStatus
<1>8. CASE UNCHANGED vars
  BY <1>1, <1>8 DEF vars, sqlVars, memVars
<1> QED
  BY <1>2, <1>3, <1>4, <1>5, <1>6, <1>7, <1>8, NothingResumes DEF Next

\* When nothing is reset an open card has a live turn.
LEMMA OpenIsLive ==
    ASSUME Inv, StopInv, NEW c \in Card, status[c] \in OpenStatus
    PROVE  Live(c)
BY DEF Inv, LifeInv, NoLostTask, StopInv

\* When nothing is reset, each step that lets a turn run lets it run in its turn.
LEMMA StepInTurn ==
    ASSUME Inv, StopInv, OrderInv, (Inv /\ StopInv)', MaxResets = 0, MaxParks = 0, [Next]_vars,
           NEW c \in Card, ~Active(c), Active(c)',
           NEW d \in Card, (status[d] # "none" /\ sess[d] = sess[c])', d < c
    PROVE  ~(status[d] \in OpenStatus)'
<1> SUFFICES ASSUME Live(d)' PROVE FALSE
  BY OpenIsLive DEF Inv, LifeInv, NoLostTask, StopInv
<1>0. /\ TypeInv /\ QueueInv /\ c # d
      /\ status \in [Card -> {"none"} \cup OpenStatus \cup EndStatus] /\ pc \in [Card -> Pc]
      /\ sess \in [Card -> Session \cup {NoSession}]
  <2>1. c # d
    BY BoundsAssumption DEF Card
  <2> QED
    BY <2>1 DEF Inv, TypeInv, TypeOK
<1>1. CASE UNCHANGED pc
  BY <1>1 DEF Active
<1>2. ASSUME NEW s \in Session, NEW m \in Msg, NEW e \in Card, Open(s, m, e) PROVE FALSE
  <2>1. c = e /\ LiveOf(s) = {} /\ sess'[c] = s
    BY <1>0, <1>2 DEF Open, Active, ActivePc, LoopPc, EndPc
  <2>2. sess[d] = s /\ Live(d) /\ status[d] # "none"
    BY <1>0, <1>2, <2>1 DEF Open, Live
  <2> QED
    BY <2>1, <2>2 DEF LiveOf, CardsOf
<1>3. ASSUME NEW e \in Card, TurnStep(e) PROVE FALSE
  <2>1. e = c
    BY <1>0, <1>3, TurnStepCards DEF Active
  <2>2. before[c] = {} /\ Live(c)
    BY <1>0, <1>3, <2>1 DEF TurnStep, Start, CloseOpenCall, NextModelStep, OutOfSteps,
       EndStopped, SaveSteers, AnswerWithCalls, AnswerFinal, CommitAnswer,
       AnswerUnfinished, SkipCalls, StartTool, ToolDone, ToolsDone, LoopError,
       SaveLateSteers, LateAnswer, LateError, Report, HandOn, CloseCard, WriteRow, Finish,
       FailTurn, Live, Active, ActivePc, LoopPc, EndPc
  <2>3. Live(d) /\ sess[d] = sess[c]
    BY <1>0, <1>3, <2>1, TurnStepCards, TurnStepLive DEF Live
  <2> QED
    BY <2>2, <2>3 DEF OrderInv
<1>4. CASE \/ \E s \in Session, m \in Msg : Join(s, m)
           \/ \E e \in Card : MissedBeat(e)
           \/ \E s \in Session : StopLive(s) \/ StopJournaled(s)
           \/ UNCHANGED vars
  BY <1>1, <1>4 DEF Join, MissedBeat, StopLive, StopJournaled, vars, memVars
<1> QED
  BY <1>0, <1>2, <1>3, <1>4, NothingResumes DEF Next

\* When nothing is reset the turns of a task run in the order of their cards: a turn
\* starts only when every card opened before its own has ended (the sessQ chain of
\* runTurn).  With parks a waiting turn may pass a parked one.
THEOREM TurnsInOrder ==
    ASSUME MaxResets = 0, MaxParks = 0
    PROVE  Spec => InOrder
<1>1. Init => OrderInv
  BY DEF Init, OrderInv, Live
<1>2. Inv /\ StopInv /\ OrderInv /\ [Next]_vars => OrderInv'
  BY NextOrder DEF Inv
<1>3. Inv /\ StopInv /\ OrderInv /\ (Inv /\ StopInv)' /\ [Next]_vars
         => [\A c \in Card :
               ~Active(c) /\ Active(c)' =>
                  \A d \in CardsOf(sess[c])' : d < c => ~(status[d] \in OpenStatus)']_vars
  BY StepInTurn DEF CardsOf
<1> QED
  BY <1>1, <1>2, <1>3, Invariant, StopInvariant, PTL DEF Spec, InOrder
=============================================================================
