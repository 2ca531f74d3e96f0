------------------------ MODULE ResidentTurnsProofs ------------------------
(***************************************************************************)
(* What holds of ResidentTurns for every set of tasks and messages and     *)
(* every value of the bounds, proved with TLAPS.                           *)
(***************************************************************************)
EXTENDS ResidentTurns, WellFoundedInduction, TLAPS

\* A set of cards that is not empty has a first card.
LEMMA FirstIsIn ==
    ASSUME NEW C \in SUBSET Card, C # {}
    PROVE  First(C) \in C
<1>1. C \subseteq Nat
  BY BoundsAssumption DEF Card
<1>2. PICK x \in C : \A y \in C : ~ (<<y, x>> \in OpToRel(<, Nat))
  BY <1>1, NatLessThanWellFounded, WFMin
<1>3. \A y \in C : x <= y
  <2> SUFFICES ASSUME NEW y \in C PROVE x <= y
    OBVIOUS
  <2>1. ~ (y < x)
    BY <1>1, <1>2 DEF OpToRel
  <2> QED
    BY <1>1, <2>1
<1> QED
  BY <1>3 DEF First

\* The fresh object, before any message, has well-typed state.
LEMMA InitType == Init => TypeInv
<1> SUFFICES ASSUME Init PROVE TypeInv
  OBVIOUS
<1>1. NoPend \in Pending
  BY DEF NoPend, Pending, NoCard
<1>2. TypeOK
  BY <1>1 DEF Init, TypeOK, NoCard, Pc
<1>3. ToolOpen /\ Opened /\ EndKnown
  BY DEF Init, ToolOpen, Opened, EndKnown, Live, Committed, EndPc
<1> QED
  BY <1>2, <1>3 DEF TypeInv

\* The list of a task's messages stays such a list when it is closed or read.
LEMMA PendType ==
    ASSUME TypeOK, NEW s
    PROVE  /\ [pend EXCEPT ![s] = NoPend] \in [Session -> Pending]
           /\ s \in Session => [pend[s] EXCEPT !.unread = {}] \in Pending
           /\ s \in Session => pend[s].unread \subseteq Msg
<1>1. pend \in [Session -> Pending]
  BY DEF TypeOK
<1>2. NoPend \in Pending
  BY DEF NoPend, Pending, NoCard
<1> QED
  BY <1>1, <1>2 DEF Pending

\* commitTurn leaves the lists of unread messages well-typed.
LEMMA CloseInputsType ==
    ASSUME TypeOK, NEW c \in Card, CloseInputs(c)
    PROVE  pend' \in [Session -> Pending]
<1>1. pend \in [Session -> Pending]
  BY DEF TypeOK
<1>2. NoPend \in Pending
  BY DEF NoPend, Pending, NoCard
<1>3. CASE sess[c] \in Session
  BY <1>1, <1>2, <1>3 DEF CloseInputs
<1>4. CASE sess[c] \notin Session
  BY <1>1, <1>4 DEF CloseInputs
<1> QED
  BY <1>3, <1>4

\* takeSteers keeps the type of everything it changes.
LEMMA TakeSteersType ==
    ASSUME TypeOK, NEW c \in Card, sess[c] \in Session,
           NEW next \in Pc, NEW wait \in Pc, TakeSteers(c, next, wait)
    PROVE  /\ pend' \in [Session -> Pending]
           /\ read' \subseteq Msg /\ saved' \subseteq Msg
           /\ taken' \in [Card -> SUBSET Msg]
           /\ pc' \in [Card -> Pc]
           /\ \E p \in {next, wait} : pc' = [pc EXCEPT ![c] = p]
<1> DEFINE took == IF pend[sess[c]].card = c THEN pend[sess[c]].unread ELSE {}
<1>1. /\ pend \in [Session -> Pending] /\ took \subseteq Msg
      /\ [pend[sess[c]] EXCEPT !.unread = {}] \in Pending
  BY PendType DEF TypeOK, Pending
<1>2. /\ read \subseteq Msg /\ saved \subseteq Msg /\ taken \in [Card -> SUBSET Msg]
      /\ pc \in [Card -> Pc]
  BY DEF TypeOK
<1>3. pend' = [pend EXCEPT ![sess[c]] =
                 IF @.card = c THEN [@ EXCEPT !.unread = {}] ELSE @]
  BY DEF TakeSteers
<1>4. pend' \in [Session -> Pending]
  BY <1>1, <1>3
<1>5. /\ read' = read \cup took
      /\ \/ taken' = [taken EXCEPT ![c] = took] /\ pc' = [pc EXCEPT ![c] = wait]
            /\ saved' = saved
         \/ saved' = saved \cup took /\ pc' = [pc EXCEPT ![c] = next]
            /\ taken' = taken
  BY DEF TakeSteers
<1> HIDE DEF took
<1> QED
  BY <1>1, <1>2, <1>4, <1>5

\* So does one more answer after the loop.
LEMMA AnswerLateType ==
    ASSUME TypeOK, NEW c \in Card, sess[c] \in Session, AnswerLate(c)
    PROVE  /\ pend' \in [Session -> Pending]
           /\ read' \subseteq Msg /\ saved' \subseteq Msg
           /\ taken' \in [Card -> SUBSET Msg]
           /\ pc' \in [Card -> Pc]
           /\ lates' \in [Card -> Nat]
           /\ \E p \in {"late", "lateSteering"} : pc' = [pc EXCEPT ![c] = p]
<1>1. /\ "late" \in Pc /\ "lateSteering" \in Pc
      /\ TakeSteers(c, "late", "lateSteering")
  BY DEF Pc, ActivePc, LoopPc, AnswerLate
<1>2. lates' \in [Card -> Nat]
  BY DEF AnswerLate, TypeOK
<1> QED
  BY <1>1, <1>2, TakeSteersType

\* A turn that commits knows its ending, and the state stays well-typed.
LEMMA CommitAsType ==
    ASSUME TypeInv, NEW c \in Card, NEW how \in EndStatus, CommitAs(c, how),
           Live(c), open' \in [Card -> Nat], saved' \subseteq Msg,
           phase' = phase, jstep' = jstep,
           \A d \in Card : d # c => open'[d] = open[d]
    PROVE  TypeInv'
<1>1. pend' \in [Session -> Pending]
  BY CloseInputsType DEF CommitAs, TypeInv
<1>2. TypeOK'
  BY <1>1 DEF CommitAs, TypeInv, TypeOK, histVars, Pc, ActivePc, EndPc
<1>3. /\ ToolOpen' /\ Opened' /\ EndKnown'
  BY DEF CommitAs, TypeInv, TypeOK, ToolOpen, Opened, EndKnown, Live, Committed, EndPc,
         EndStatus
<1> QED
  BY <1>2, <1>3 DEF TypeInv

\* Every step of a turn keeps the type invariant.
LEMMA TurnStepType ==
    ASSUME TypeInv, NEW c \in Card, TurnStep(c)
    PROVE  TypeInv'
<1> USE DEF TypeInv, TypeOK, ToolOpen, Opened, EndKnown, Live, Committed, Pc, ActivePc,
            LoopPc, EndPc, OpenStatus, EndStatus, sqlVars, memVars, histVars
<1>1. CASE Start(c)
  BY <1>1 DEF Start
<1>2. CASE CloseOpenCall(c)
  BY <1>2 DEF CloseOpenCall
<1>3. CASE NextModelStep(c)
  <2>1. sess[c] \in Session /\ TakeSteers(c, "model", "steering") /\ NextStep(c) \in Nat
    BY <1>3 DEF NextModelStep, NextStep
  <2>2. /\ pend' \in [Session -> Pending] /\ read' \subseteq Msg /\ saved' \subseteq Msg
        /\ taken' \in [Card -> SUBSET Msg] /\ pc' \in [Card -> Pc]
        /\ \E p \in {"model", "steering"} : pc' = [pc EXCEPT ![c] = p]
    BY <2>1, TakeSteersType
  <2> QED
    BY <1>3, <2>1, <2>2 DEF NextModelStep
<1>4. CASE OutOfSteps(c)
  <2>1. CASE AnswerLate(c)
    BY <1>4, <2>1, AnswerLateType DEF OutOfSteps
  <2>2. CASE pc' = [pc EXCEPT ![c] = "report"] /\ UNCHANGED <<pend, read, saved, taken, lates>>
    BY <1>4, <2>2 DEF OutOfSteps
  <2> QED
    BY <1>4, <2>1, <2>2 DEF OutOfSteps
<1>5. CASE EndStopped(c)
  BY <1>5, CommitAsType DEF EndStopped
<1>6. CASE SaveSteers(c)
  <2>1. saved' \subseteq Msg
    BY <1>6 DEF SaveSteers
  <2>2. CASE c \in abort
    BY <1>6, <2>1, <2>2, CommitAsType DEF SaveSteers
  <2>3. CASE c \notin abort
    BY <1>6, <2>1, <2>3 DEF SaveSteers
  <2> QED
    BY <2>2, <2>3
<1>7. CASE AnswerWithCalls(c)
  BY <1>7 DEF AnswerWithCalls
<1>8. CASE AnswerFinal(c)
  BY <1>8 DEF AnswerFinal
<1>9. CASE CommitAnswer(c)
  <2>1. CASE CommitAs(c, "complete") /\ UNCHANGED saved
    BY <1>9, <2>1, CommitAsType DEF CommitAnswer
  <2>2. CASE CommitAs(c, "stopped") /\ UNCHANGED saved
    BY <1>9, <2>2, CommitAsType DEF CommitAnswer
  <2>3. CASE AnswerLate(c) /\ UNCHANGED <<sess, home, journal, resumes, row, status,
                 before, abort, stopping, outcome, histVars>>
    BY <1>9, <2>3, AnswerLateType DEF CommitAnswer
  <2> QED
    BY <1>9, <2>1, <2>2, <2>3 DEF CommitAnswer
<1>10. CASE AnswerUnfinished(c)
  BY <1>10 DEF AnswerUnfinished
<1>11. CASE SkipCalls(c)
  BY <1>11 DEF SkipCalls
<1>12. CASE StartTool(c)
  BY <1>12 DEF StartTool
<1>13. CASE ToolDone(c)
  BY <1>13 DEF ToolDone
<1>14. CASE ToolsDone(c)
  BY <1>14 DEF ToolsDone
<1>15. CASE LoopError(c)
  BY <1>15, CommitAsType DEF LoopError
<1>16. CASE SaveLateSteers(c)
  BY <1>16 DEF SaveLateSteers
<1>17. CASE LateAnswer(c)
  <2>1. CASE CommitAs(c, "complete") /\ UNCHANGED saved
    BY <1>17, <2>1, CommitAsType DEF LateAnswer
  <2>2. CASE AnswerLate(c) /\ UNCHANGED <<sess, home, journal, resumes, row, status,
                 before, abort, stopping, outcome, histVars>>
    BY <1>17, <2>2, AnswerLateType DEF LateAnswer
  <2> QED
    BY <1>17, <2>1, <2>2 DEF LateAnswer
<1>18. CASE LateError(c)
  BY <1>18, CommitAsType DEF LateError
<1>19. CASE Report(c)
  BY <1>19, CommitAsType DEF Report
<1>24. CASE HandOn(c)
  <2>1. PICK how \in {"complete", "failed"} : CommitAs(c, how)
    BY <1>24 DEF HandOn
  <2>2. open' \in [Card -> Nat]
    BY <1>24 DEF HandOn
  <2> QED
    BY <1>24, <2>1, <2>2, CommitAsType DEF HandOn
<1>20. CASE CloseCard(c)
  BY <1>20 DEF CloseCard
<1>21. CASE WriteRow(c)
  BY <1>21 DEF WriteRow, Row
<1>22. CASE Finish(c)
  BY <1>22 DEF Finish, Leave, DropJournal
<1>23. CASE FailTurn(c)
  <2>1. pend' \in [Session -> Pending]
    BY <1>23, CloseInputsType DEF FailTurn
  <2> QED
    BY <1>23, <2>1 DEF FailTurn, Leave, DropJournal, EndCards
<1> QED
  BY <1>1, <1>2, <1>3, <1>4, <1>5, <1>6, <1>7, <1>8, <1>9, <1>10, <1>11, <1>12, <1>13, <1>14, <1>15, <1>16, <1>17, <1>18, <1>19, <1>20, <1>21, <1>22, <1>23, <1>24 DEF TurnStep

\* The list a resumed card reads from holds messages of its own.
LEMMA PendOfType ==
    ASSUME NEW c \in Card
    PROVE  PendOf(c) \in Pending
BY DEF PendOf, Pending, Unread, InputsOf

\* A reset and the recovery in the fresh object keep the type invariant.
LEMMA ResetType ==
    ASSUME TypeInv, NEW loops \in SUBSET Card, Reset(loops)
    PROVE  TypeInv'
<1>1. pend' \in [Session -> Pending]
  <2>1. /\ NoPend \in Pending
        /\ \A s \in Session : CarryOn(loops) \cap CardsOf(s) # {} =>
              PendOf(First(CarryOn(loops) \cap CardsOf(s))) \in Pending
    <3>1. NoPend \in Pending
      BY DEF NoPend, Pending, NoCard
    <3>2. ASSUME NEW s \in Session, CarryOn(loops) \cap CardsOf(s) # {}
          PROVE  First(CarryOn(loops) \cap CardsOf(s)) \in Card
      <4> DEFINE C == CarryOn(loops) \cap CardsOf(s)
      <4>1. C \in SUBSET Card /\ C # {}
        BY <3>2 DEF CardsOf
      <4> HIDE DEF C
      <4>2. First(C) \in C
        BY <4>1, FirstIsIn
      <4> QED
        BY <4>1, <4>2 DEF C
    <3> QED
      BY <3>1, <3>2, PendOfType
  <2> QED
    BY <2>1 DEF Reset
<1>2. TypeOK'
  <2>1. /\ status' \in [Card -> {"none"} \cup OpenStatus \cup EndStatus]
        /\ row' \in [Card -> {"none", "reply"} \cup EndStatus]
        /\ journal' \in [Card -> {"none", "queued", "running", "resuming"}]
        /\ phase' \in [Card -> {"model", "tools"}]
    BY DEF Reset, TypeInv, TypeOK, OpenStatus, EndStatus
  <2>2. jstep' \in [Card -> Nat] /\ resumes' \in [Card -> Nat]
    BY DEF Reset, TypeInv, TypeOK
  <2>3. /\ pc' \in [Card -> Pc] /\ before' \in [Card -> SUBSET Card]
        /\ taken' \in [Card -> SUBSET Msg] /\ lates' \in [Card -> Nat]
        /\ outcome' \in [Card -> {"none"} \cup EndStatus]
        /\ abort' = {} /\ stopping' = {} /\ dropped' = {}
        /\ resets' = resets + 1
        /\ UNCHANGED <<sess, home, read, saved, open, stopReq, starts, parks>>
    BY DEF Reset, Pc
  <2> QED
    BY <1>1, <2>1, <2>2, <2>3 DEF TypeInv, TypeOK
<1>3. ToolOpen' /\ Opened' /\ EndKnown'
  BY DEF Reset, ToolOpen, Opened, EndKnown, Live, Committed, EndPc
<1> QED
  BY <1>2, <1>3 DEF TypeInv

\* Resuming, starting and giving up journaled turns keeps the type invariant.
LEMMA ResumeDueType ==
    ASSUME TypeInv, NEW s \in Session, NEW D \in SUBSET Card, ResumeDue(s, D)
    PROVE  TypeInv'
<1> DEFINE used == {c \in D : journal[c] = "resuming" /\ UsedUp(c)}
           again == {c \in D : journal[c] = "resuming"} \ used
           free == {c \in again : \/ pend[s].card = NoCard
                                  \/ pend[s].card \in used /\ pend[s].card < c}
<1>1. pend' \in [Session -> Pending]
  <2>1. NoPend \in Pending
    BY DEF NoPend, Pending, NoCard
  <2>2. free # {} => PendOf(First(free)) \in Pending
    <3>1. free \in SUBSET Card
      OBVIOUS
    <3> HIDE DEF free
    <3> QED
      BY <3>1, FirstIsIn, PendOfType
  <2>3. pend' = [pend EXCEPT ![s] = IF free # {} THEN PendOf(First(free))
                                    ELSE IF @.card \in used THEN NoPend ELSE @]
    BY DEF ResumeDue
  <2> HIDE DEF free, used, again
  <2> QED
    BY <2>1, <2>2, <2>3 DEF TypeInv, TypeOK
<1>2. \A c \in D : ~Live(c) /\ sess[c] = s /\ status[c] # "none"
  BY DEF ResumeDue, Due, Resumable, CardsOf
<1>3. TypeOK'
  <2>1. /\ status' \in [Card -> {"none"} \cup OpenStatus \cup EndStatus]
        /\ row' \in [Card -> {"none", "reply"} \cup EndStatus]
        /\ journal' \in [Card -> {"none", "queued", "running", "resuming"}]
        /\ phase' \in [Card -> {"model", "tools"}]
    BY DEF ResumeDue, TypeInv, TypeOK, OpenStatus, EndStatus
  <2>2. /\ jstep' \in [Card -> Nat] /\ resumes' \in [Card -> Nat]
        /\ starts' \in [Card -> Nat]
    BY DEF ResumeDue, TypeInv, TypeOK
  <2>3. pc' \in [Card -> Pc]
    BY DEF ResumeDue, TypeInv, TypeOK, Pc, ActivePc, LoopPc
  <2>4. before' \in [Card -> SUBSET Card]
    BY DEF ResumeDue, TypeInv, TypeOK, LiveOf, CardsOf
  <2> QED
    BY <1>1, <2>1, <2>2, <2>3, <2>4 DEF ResumeDue, TypeInv, TypeOK
<1>4. ToolOpen' /\ Opened' /\ EndKnown'
  <2>1. UNCHANGED <<sess, open, outcome>>
    BY DEF ResumeDue
  <2>2. \A c \in Card : pc'[c] = pc[c] \/ (c \in D /\ pc'[c] \in {"start", "waiting"})
    BY DEF ResumeDue
  <2>3. \A c \in Card : status[c] # "none" => status'[c] # "none"
    BY DEF ResumeDue
  <2> QED
    BY <1>2, <2>1, <2>2, <2>3
       DEF TypeInv, TypeOK, ToolOpen, Opened, EndKnown, Live, Committed, EndPc
<1> QED
  BY <1>3, <1>4 DEF TypeInv

\* Every step keeps the type invariant.
LEMMA NextType ==
    ASSUME TypeInv, [Next]_vars
    PROVE  TypeInv'
<1> USE DEF TypeInv, TypeOK, ToolOpen, Opened, EndKnown, Live, Committed, Pc, ActivePc,
            LoopPc, EndPc, OpenStatus, EndStatus, sqlVars, memVars, histVars
<1>1. ASSUME NEW s \in Session, NEW m \in Msg, Join(s, m) PROVE TypeInv'
  BY <1>1 DEF Join, Pending
<1>2. ASSUME NEW s \in Session, NEW m \in Msg, NEW c \in Card, Open(s, m, c)
      PROVE  TypeInv'
  <2>1. Taker(s, c) \in Pending
    BY DEF Taker, Pending
  <2> QED
    BY <1>2, <2>1 DEF Open, LiveOf, CardsOf
<1>3. ASSUME NEW c \in Card, TurnStep(c) PROVE TypeInv'
  BY <1>3, TurnStepType
<1>4. ASSUME NEW c \in Card, Park(c) PROVE TypeInv'
  BY <1>4 DEF Park, Leave
<1>5. ASSUME NEW c \in Card, MissedBeat(c) PROVE TypeInv'
  BY <1>5 DEF MissedBeat
<1>6. ASSUME NEW loops \in SUBSET Card, Reset(loops) PROVE TypeInv'
  BY <1>6, ResetType
<1>7. ASSUME NEW s \in Session, NEW D \in SUBSET Card, ResumeDue(s, D) PROVE TypeInv'
  BY <1>7, ResumeDueType
<1>8. ASSUME NEW s \in Session, StopLive(s) PROVE TypeInv'
  <2>1. pend' \in [Session -> Pending]
    BY <1>8, PendType DEF StopLive
  <2>2. pend[s].unread \subseteq Msg
    BY PendType
  <2> QED
    BY <1>8, <2>1, <2>2 DEF StopLive, CardsOf
<1>9. ASSUME NEW s \in Session, StopJournaled(s) PROVE TypeInv'
  <2>1. pend' \in [Session -> Pending]
    BY <1>9, PendType DEF StopJournaled, NoPend, Pending, NoCard
  <2> QED
    BY <1>9, <2>1 DEF StopJournaled, EndCards, DropJournal
<1>10. CASE UNCHANGED vars
  BY <1>10 DEF vars
<1> QED
  BY <1>1, <1>2, <1>3, <1>4, <1>5, <1>6, <1>7, <1>8, <1>9, <1>10 DEF Next
----------------------------------------------------------------------------
(* The queue of a task *)

\* A running turn's step that leaves it running keeps the queue as it is.
LEMMA StayQueue ==
    ASSUME TypeInv, QueueInv, NEW c \in Card, Active(c), NEW p \in ActivePc,
           pc' = [pc EXCEPT ![c] = p], UNCHANGED <<sess, before>>
    PROVE  QueueInv'
BY DEF TypeInv, TypeOK, QueueInv, Active, Live, ActivePc, LoopPc, EndPc

\* A turn that leaves releases those that waited for it.
LEMMA LeaveQueue ==
    ASSUME TypeInv, QueueInv, NEW c \in Card, Leave({c}), UNCHANGED sess
    PROVE  QueueInv'
BY DEF TypeInv, TypeOK, QueueInv, Active, Live, Leave, ActivePc, LoopPc, EndPc

\* Every step of a turn keeps the queue invariant.
LEMMA TurnStepQueue ==
    ASSUME TypeInv, QueueInv, NEW c \in Card, TurnStep(c)
    PROVE  QueueInv'
<1>1. CASE Start(c)
  BY <1>1 DEF Start, TypeInv, TypeOK, QueueInv, Active, Live, ActivePc, LoopPc, EndPc
<1>2. CASE Finish(c) \/ FailTurn(c)
  BY <1>2, LeaveQueue DEF Finish, FailTurn
<1>3. CASE ~Start(c) /\ ~Finish(c) /\ ~FailTurn(c)
  <2>1. Active(c)
    BY <1>3 DEF TurnStep, CloseOpenCall, NextModelStep, OutOfSteps, EndStopped,
       SaveSteers, AnswerWithCalls, AnswerFinal, CommitAnswer, AnswerUnfinished,
       SkipCalls, StartTool, ToolDone, ToolsDone, LoopError, SaveLateSteers, LateAnswer,
       LateError, Report, HandOn, CloseCard, WriteRow, Active, ActivePc, LoopPc, EndPc
  <2>2. UNCHANGED <<sess, before>>
    BY <1>3 DEF TurnStep, CloseOpenCall, NextModelStep, OutOfSteps, EndStopped,
       SaveSteers, AnswerWithCalls, AnswerFinal, CommitAnswer, AnswerUnfinished,
       SkipCalls, StartTool, ToolDone, ToolsDone, LoopError, SaveLateSteers, LateAnswer,
       LateError, Report, HandOn, CloseCard, WriteRow, CommitAs, AnswerLate, memVars,
       sqlVars
  <2>3. \E p \in ActivePc : pc' = [pc EXCEPT ![c] = p]
    <3> USE DEF ActivePc, LoopPc, EndPc
    <3>1. pc = [pc EXCEPT ![c] = pc[c]] /\ pc[c] \in ActivePc
      BY <2>1 DEF Active, TypeInv, TypeOK
    <3>2. CASE CloseOpenCall(c) \/ SkipCalls(c)
      BY <3>1, <3>2 DEF CloseOpenCall, SkipCalls, memVars
    <3>3. CASE NextModelStep(c)
      BY <3>3 DEF NextModelStep, TakeSteers
    <3>4. CASE OutOfSteps(c)
      BY <3>4 DEF OutOfSteps, AnswerLate, TakeSteers
    <3>5. CASE EndStopped(c) \/ SaveSteers(c) \/ LoopError(c) \/ LateError(c) \/ Report(c) \/ HandOn(c)
      BY <3>5 DEF EndStopped, SaveSteers, LoopError, LateError, Report, HandOn, CommitAs
    <3>6. CASE CommitAnswer(c) \/ LateAnswer(c)
      BY <3>6 DEF CommitAnswer, LateAnswer, CommitAs, AnswerLate, TakeSteers
    <3>7. CASE \/ AnswerWithCalls(c) \/ AnswerFinal(c) \/ AnswerUnfinished(c)
               \/ StartTool(c) \/ ToolDone(c) \/ ToolsDone(c) \/ SaveLateSteers(c)
               \/ CloseCard(c) \/ WriteRow(c)
      BY <3>7 DEF AnswerWithCalls, AnswerFinal, AnswerUnfinished, StartTool, ToolDone,
         ToolsDone, SaveLateSteers, CloseCard, WriteRow
    <3> QED
      BY <1>3, <3>2, <3>3, <3>4, <3>5, <3>6, <3>7 DEF TurnStep
  <2> QED
    BY <2>1, <2>2, <2>3, StayQueue
<1> QED
  BY <1>1, <1>2, <1>3

\* A card that is opened goes behind every live turn of its task.
LEMMA OpenQueue ==
    ASSUME TypeInv, QueueInv, NEW s \in Session, NEW m \in Msg, NEW c \in Card,
           Open(s, m, c)
    PROVE  QueueInv'
<1>1. /\ ~Live(c) /\ \A d \in Card : d # c => sess'[d] = sess[d] /\ pc'[d] = pc[d]
                                             /\ before'[d] = before[d]
  BY DEF Open, TypeInv, TypeOK, Opened
<1>2. sess'[c] = s /\ before'[c] = LiveOf(s) /\ (Active(c)' => LiveOf(s) = {})
  BY DEF Open, TypeInv, TypeOK, Active, ActivePc, LoopPc, EndPc
<1>3. \A d \in Card : Live(d) /\ sess[d] = s => d \in LiveOf(s)
  BY DEF TypeInv, Opened, LiveOf, CardsOf
<1> QED
  BY <1>1, <1>2, <1>3 DEF QueueInv, Live, Active

\* Turns that are resumed together queue in their order behind the live ones.
LEMMA ResumeDueQueue ==
    ASSUME TypeInv, QueueInv, NEW s \in Session, NEW D \in SUBSET Card, ResumeDue(s, D)
    PROVE  QueueInv'
<1> DEFINE go == D \ {c \in D : journal[c] = "resuming" /\ UsedUp(c)}
           ahead(c) == LiveOf(s) \cup {d \in go : d < c}
<1>1. UNCHANGED sess /\ \A c \in go : sess[c] = s /\ ~Live(c)
  BY DEF ResumeDue, Due, Resumable, CardsOf
<1>2. \A c \in Card \ go : pc'[c] = pc[c] /\ before'[c] = before[c]
  BY DEF ResumeDue, TypeInv, TypeOK
<1>3. \A c \in go : /\ before'[c] = ahead(c)
                    /\ pc'[c] = IF ahead(c) = {} THEN "start" ELSE "waiting"
  <2> TAKE c \in go
  <2>1. c \in Card /\ go = D \ {d \in D : journal[d] = "resuming" /\ UsedUp(d)}
    OBVIOUS
  <2>2. before'[c] = ahead(c)
    BY <2>1 DEF ResumeDue
  <2>3. pc'[c] = IF ahead(c) = {} THEN "start" ELSE "waiting"
    BY <2>1 DEF ResumeDue
  <2> QED
    BY <2>2, <2>3
<1>4. \A d \in Card : Live(d) /\ sess[d] = s => d \in LiveOf(s)
  BY DEF TypeInv, Opened, LiveOf, CardsOf
<1>5. go \subseteq Nat
  <2>1. Card \subseteq Nat
    BY BoundsAssumption DEF Card
  <2>2. go \subseteq Card
    OBVIOUS
  <2> QED
    BY <2>1, <2>2
<1>6. \A c \in Card : Active(c)' => before'[c] = {}
  BY <1>2, <1>3 DEF QueueInv, Active, ActivePc, LoopPc, EndPc
<1>7. ASSUME NEW c \in Card, NEW d \in Card, Live(c)', Live(d)', (sess[c] = sess[d])',
             c # d
      PROVE  (c \in before[d] \/ d \in before[c])'
  <2>1. CASE c \notin go /\ d \notin go
    BY <1>1, <1>2, <1>7, <2>1 DEF QueueInv, Live
  <2>2. CASE c \in go /\ d \notin go
    BY <1>1, <1>2, <1>3, <1>4, <1>7, <2>2 DEF Live
  <2>3. CASE c \notin go /\ d \in go
    BY <1>1, <1>2, <1>3, <1>4, <1>7, <2>3 DEF Live
  <2>4. CASE c \in go /\ d \in go
    <3>1. c < d \/ d < c
      BY <1>5, <1>7, <2>4
    <3> QED
      BY <1>3, <2>4, <3>1
  <2> QED
    BY <2>1, <2>2, <2>3, <2>4
<1> QED
  BY <1>6, <1>7 DEF QueueInv

\* Every step keeps the queue invariant.
LEMMA NextQueue ==
    ASSUME TypeInv, QueueInv, [Next]_vars
    PROVE  QueueInv'
<1>1. ASSUME UNCHANGED <<pc, sess, before>> PROVE QueueInv'
  BY <1>1 DEF QueueInv, Live, Active
<1>2. ASSUME NEW s \in Session, NEW m \in Msg, Join(s, m) PROVE QueueInv'
  BY <1>1, <1>2 DEF Join
<1>3. ASSUME NEW s \in Session, NEW m \in Msg, NEW c \in Card, Open(s, m, c)
      PROVE  QueueInv'
  BY <1>3, OpenQueue
<1>4. ASSUME NEW c \in Card, TurnStep(c) PROVE QueueInv'
  BY <1>4, TurnStepQueue
<1>5. ASSUME NEW c \in Card, Park(c) PROVE QueueInv'
  BY <1>5, LeaveQueue DEF Park
<1>6. ASSUME NEW c \in Card, MissedBeat(c) PROVE QueueInv'
  BY <1>1, <1>6 DEF MissedBeat, memVars
<1>7. ASSUME NEW loops \in SUBSET Card, Reset(loops) PROVE QueueInv'
  BY <1>7 DEF Reset, QueueInv, Live, Active, ActivePc, LoopPc, EndPc
<1>8. ASSUME NEW s \in Session, NEW D \in SUBSET Card, ResumeDue(s, D) PROVE QueueInv'
  BY <1>8, ResumeDueQueue
<1>9. ASSUME NEW s \in Session, StopLive(s) \/ StopJournaled(s) PROVE QueueInv'
  BY <1>1, <1>9 DEF StopLive, StopJournaled, sqlVars
<1>10. CASE UNCHANGED vars
  BY <1>1, <1>10 DEF vars, sqlVars, memVars
<1> QED
  BY <1>2, <1>3, <1>4, <1>5, <1>6, <1>7, <1>8, <1>9, <1>10 DEF Next
----------------------------------------------------------------------------
(* What a card shows, its journal row and its history row *)

\* A step inside the turn that leaves the card, its journal and its row alone.
LEMMA MidStepLife ==
    ASSUME TypeInv, LifeInv, NEW c \in Card, pc[c] \in LoopPc,
           NEW p \in LoopPc \cup {"committed"}, pc' = [pc EXCEPT ![c] = p],
           \A d \in Card : d # c => outcome'[d] = outcome[d],
           jstep' \in [Card -> Nat], \A d \in Card : jstep'[d] <= MaxSteps,
           UNCHANGED <<status, journal, row, resumes, starts>>
    PROVE  LifeInv'
<1>1. StatusInv'
  BY DEF TypeInv, TypeOK, LifeInv, StatusInv, LoopPc
<1>2. JournalOpen' /\ NoLostTask'
  BY DEF TypeInv, TypeOK, LifeInv, JournalOpen, NoLostTask, Live, LoopPc
<1>3. RowMatchesCard' /\ ResumesCounted' /\ ResumesBounded'
  BY DEF TypeInv, TypeOK, LifeInv, RowMatchesCard, ResumesCounted, ResumesBounded
<1> QED
  BY <1>1, <1>2, <1>3 DEF LifeInv

\* A turn that leaves with its card closed takes its journal row with it.
LEMMA EndLife ==
    ASSUME TypeInv, LifeInv, NEW c \in Card, Leave({c}), DropJournal({c}),
           status' \in [Card -> {"none"} \cup OpenStatus \cup EndStatus],
           status'[c] \in EndStatus,
           \A d \in Card : d # c => status'[d] = status[d] /\ row'[d] = row[d],
           row'[c] \in {"none", status'[c]}
               \/ (row'[c] = "reply" /\ status'[c] = "complete"),
           UNCHANGED starts
    PROVE  LifeInv'
<1> USE DEF LoopPc, EndPc, OpenStatus, EndStatus
<1>1. /\ pc'[c] = "none" /\ journal'[c] = "none" /\ jstep'[c] = 0 /\ resumes'[c] = 0
      /\ \A d \in Card : d # c => /\ pc'[d] = pc[d] /\ journal'[d] = journal[d]
                                  /\ jstep'[d] = jstep[d] /\ resumes'[d] = resumes[d]
                                  /\ outcome'[d] = outcome[d]
  BY DEF Leave, DropJournal
<1>2. StatusInv'
  BY <1>1 DEF LifeInv, StatusInv
<1>3. JournalOpen' /\ NoLostTask'
  BY <1>1 DEF LifeInv, JournalOpen, NoLostTask, Live
<1>4. RowMatchesCard'
  BY <1>1 DEF LifeInv, RowMatchesCard
<1>5. ResumesCounted'
  BY <1>1 DEF LifeInv, ResumesCounted
<1>6. ResumesBounded'
  BY <1>1, BoundsAssumption DEF LifeInv, ResumesBounded
<1> QED
  BY <1>2, <1>3, <1>4, <1>5, <1>6 DEF LifeInv

\* Every step of a turn keeps the life invariant.
LEMMA TurnStepLife ==
    ASSUME TypeInv, LifeInv, NEW c \in Card, TurnStep(c)
    PROVE  LifeInv'
<1> USE DEF LoopPc, EndPc, OpenStatus, EndStatus
<1>1. CASE Start(c)
  BY <1>1 DEF Start, TypeInv, TypeOK, LifeInv, StatusInv, JournalOpen, NoLostTask,
     RowMatchesCard, ResumesCounted, ResumesBounded, Live, histVars
<1>2. CASE CloseCard(c)
  BY <1>2 DEF CloseCard, TypeInv, TypeOK, EndKnown, Committed, LifeInv, StatusInv,
     JournalOpen, NoLostTask, RowMatchesCard, ResumesCounted, ResumesBounded, Live, histVars
<1>3. CASE WriteRow(c)
  BY <1>3 DEF WriteRow, Row, TypeInv, TypeOK, EndKnown, Committed, LifeInv, StatusInv,
     JournalOpen, NoLostTask, RowMatchesCard, ResumesCounted, ResumesBounded, Live, histVars
<1>4. CASE Finish(c)
  <2>1. status[c] \in EndStatus /\ UNCHANGED <<status, row, starts>>
    BY <1>4 DEF Finish, TypeInv, TypeOK, EndKnown, Committed, LifeInv, StatusInv, histVars
  <2>2. status \in [Card -> {"none"} \cup OpenStatus \cup EndStatus]
    BY DEF TypeInv, TypeOK
  <2>3. row[c] \in {"none", status[c]} \/ (row[c] = "reply" /\ status[c] = "complete")
    BY DEF LifeInv, RowMatchesCard
  <2> QED
    BY <1>4, <2>1, <2>2, <2>3, EndLife DEF Finish
<1>5. CASE FailTurn(c)
  <2>1. status[c] = "working" /\ row[c] = "none"
    BY <1>5 DEF FailTurn, TypeInv, TypeOK, LifeInv, StatusInv, RowMatchesCard
  <2>2. /\ status'[c] = "failed" /\ row'[c] = "failed" /\ UNCHANGED starts
        /\ status' \in [Card -> {"none"} \cup OpenStatus \cup EndStatus]
        /\ \A d \in Card : d # c => status'[d] = status[d] /\ row'[d] = row[d]
    BY <1>5, <2>1 DEF FailTurn, EndCards, TypeInv, TypeOK, histVars
  <2> QED
    BY <1>5, <2>2, EndLife DEF FailTurn
<1>6. CASE ~Start(c) /\ ~CloseCard(c) /\ ~WriteRow(c) /\ ~Finish(c) /\ ~FailTurn(c)
  <2>1. pc[c] \in LoopPc
    BY <1>6 DEF TurnStep, CloseOpenCall, NextModelStep, OutOfSteps, EndStopped,
       SaveSteers, AnswerWithCalls, AnswerFinal, CommitAnswer, AnswerUnfinished,
       SkipCalls, StartTool, ToolDone, ToolsDone, LoopError, SaveLateSteers, LateAnswer,
       LateError, Report, HandOn
  <2>2. UNCHANGED <<status, journal, row, resumes, starts>>
    BY <1>6 DEF TurnStep, CloseOpenCall, NextModelStep, OutOfSteps, EndStopped,
       SaveSteers, AnswerWithCalls, AnswerFinal, CommitAnswer, AnswerUnfinished,
       SkipCalls, StartTool, ToolDone, ToolsDone, LoopError, SaveLateSteers, LateAnswer,
       LateError, Report, HandOn, CommitAs, AnswerLate, memVars, sqlVars, histVars
  <2>3. \E p \in LoopPc \cup {"committed"} : pc' = [pc EXCEPT ![c] = p]
    <3>1. pc = [pc EXCEPT ![c] = pc[c]]
      BY DEF TypeInv, TypeOK
    <3>2. CASE CloseOpenCall(c) \/ SkipCalls(c)
      BY <2>1, <3>1, <3>2 DEF CloseOpenCall, SkipCalls, memVars
    <3>3. CASE NextModelStep(c) \/ OutOfSteps(c)
      BY <3>3 DEF NextModelStep, OutOfSteps, AnswerLate, TakeSteers
    <3>4. CASE EndStopped(c) \/ SaveSteers(c) \/ LoopError(c) \/ LateError(c) \/ Report(c) \/ HandOn(c)
      BY <3>4 DEF EndStopped, SaveSteers, LoopError, LateError, Report, HandOn, CommitAs
    <3>5. CASE CommitAnswer(c) \/ LateAnswer(c)
      BY <3>5 DEF CommitAnswer, LateAnswer, CommitAs, AnswerLate, TakeSteers
    <3>6. CASE \/ AnswerWithCalls(c) \/ AnswerFinal(c) \/ AnswerUnfinished(c)
               \/ StartTool(c) \/ ToolDone(c) \/ ToolsDone(c) \/ SaveLateSteers(c)
      BY <3>6 DEF AnswerWithCalls, AnswerFinal, AnswerUnfinished, StartTool, ToolDone,
         ToolsDone, SaveLateSteers
    <3> QED
      BY <1>6, <3>2, <3>3, <3>4, <3>5, <3>6 DEF TurnStep
  <2>4. /\ jstep' \in [Card -> Nat]
        /\ \A d \in Card : jstep'[d] <= MaxSteps
    <3>1. TypeOK'
      BY TurnStepType DEF TypeInv
    <3>2. CASE NextModelStep(c)
      BY <3>1, <3>2, BoundsAssumption
         DEF NextModelStep, NextStep, TypeInv, TypeOK, LifeInv, ResumesBounded
    <3>3. CASE ~NextModelStep(c)
      <4>1. jstep' = jstep
        BY <1>6, <3>3 DEF TurnStep, CloseOpenCall, OutOfSteps, EndStopped,
           SaveSteers, AnswerWithCalls, AnswerFinal, CommitAnswer, AnswerUnfinished,
           SkipCalls, StartTool, ToolDone, ToolsDone, LoopError, SaveLateSteers, LateAnswer,
           LateError, Report, HandOn, sqlVars
      <4> QED
        BY <3>1, <4>1 DEF TypeOK, LifeInv, ResumesBounded
    <3> QED
      BY <3>2, <3>3
  <2>5. \A d \in Card : d # c => outcome'[d] = outcome[d]
    BY <1>6 DEF TurnStep, CloseOpenCall, NextModelStep, OutOfSteps, EndStopped,
       SaveSteers, AnswerWithCalls, AnswerFinal, CommitAnswer, AnswerUnfinished,
       SkipCalls, StartTool, ToolDone, ToolsDone, LoopError, SaveLateSteers, LateAnswer,
       LateError, Report, HandOn, CommitAs, AnswerLate, memVars, TypeInv, TypeOK
  <2> QED
    BY <2>1, <2>2, <2>3, <2>4, <2>5, MidStepLife
<1> QED
  BY <1>1, <1>2, <1>3, <1>4, <1>5, <1>6

\* A reset and the recovery in the fresh object keep the life invariant: each open
\* card is carried on or closed with its row.
LEMMA ResetLife ==
    ASSUME TypeInv, LifeInv, NEW loops \in SUBSET Card, Reset(loops)
    PROVE  LifeInv'
<1> USE DEF LoopPc, EndPc, OpenStatus, EndStatus
<1>1. /\ Kept(loops) \subseteq {c \in Card : status[c] \in OpenStatus}
      /\ CarryOn(loops) \subseteq Kept(loops)
      /\ \A c \in Kept(loops) \ CarryOn(loops) : journal[c] = "queued"
  BY DEF Kept, CarryOn, Journaled
<1>2. StatusInv'
  BY DEF Reset, StatusInv
<1>3. JournalOpen' /\ NoLostTask'
  BY <1>1 DEF Reset, TypeInv, TypeOK, JournalOpen, NoLostTask, Live
<1>4. RowMatchesCard'
  BY <1>1 DEF Reset, TypeInv, TypeOK, LifeInv, RowMatchesCard
<1>5. ResumesCounted'
  BY <1>1 DEF Reset, TypeInv, TypeOK, LifeInv, ResumesCounted
<1>6. ResumesBounded'
  BY BoundsAssumption DEF Reset, TypeInv, TypeOK, LifeInv, ResumesBounded
<1> QED
  BY <1>2, <1>3, <1>4, <1>5, <1>6 DEF LifeInv

\* Resuming, starting and giving up journaled turns keeps the life invariant.
LEMMA ResumeDueLife ==
    ASSUME TypeInv, LifeInv, NEW s \in Session, NEW D \in SUBSET Card, ResumeDue(s, D)
    PROVE  LifeInv'
<1> USE DEF LoopPc, EndPc, OpenStatus, EndStatus
<1>1. \A c \in D : /\ c \in Card /\ ~Live(c) /\ status[c] \in OpenStatus
                   /\ journal[c] \in {"resuming", "queued"}
  BY DEF ResumeDue, Due, Resumable, CardsOf, LifeInv, JournalOpen
<1>2. StatusInv'
  BY <1>1 DEF ResumeDue, TypeInv, TypeOK, LifeInv, StatusInv, Live
<1>3. JournalOpen' /\ NoLostTask'
  BY <1>1 DEF ResumeDue, TypeInv, TypeOK, LifeInv, JournalOpen, NoLostTask, Live
<1>4. RowMatchesCard'
  BY <1>1 DEF ResumeDue, TypeInv, TypeOK, LifeInv, RowMatchesCard
<1>5. ResumesCounted'
  BY <1>1 DEF ResumeDue, TypeInv, TypeOK, LifeInv, ResumesCounted
<1>6. ResumesBounded'
  BY <1>1, BoundsAssumption
     DEF ResumeDue, UsedUp, TypeInv, TypeOK, LifeInv, ResumesCounted, ResumesBounded
<1> QED
  BY <1>2, <1>3, <1>4, <1>5, <1>6 DEF LifeInv

\* Every step keeps the life invariant.
LEMMA NextLife ==
    ASSUME TypeInv, LifeInv, [Next]_vars
    PROVE  LifeInv'
<1> USE DEF LoopPc, EndPc, OpenStatus, EndStatus
<1>1. ASSUME UNCHANGED <<status, journal, row, jstep, resumes, starts, pc, outcome>>
      PROVE  LifeInv'
  BY <1>1 DEF LifeInv, StatusInv, JournalOpen, NoLostTask, RowMatchesCard,
     ResumesCounted, ResumesBounded, Live
<1>2. ASSUME NEW s \in Session, NEW m \in Msg, Join(s, m) PROVE LifeInv'
  BY <1>1, <1>2 DEF Join, histVars
<1>3. ASSUME NEW s \in Session, NEW m \in Msg, NEW c \in Card, Open(s, m, c)
      PROVE  LifeInv'
  BY <1>3 DEF Open, TypeInv, TypeOK, Opened, LifeInv, StatusInv, JournalOpen, NoLostTask,
     RowMatchesCard, ResumesCounted, ResumesBounded, Live, histVars
<1>4. ASSUME NEW c \in Card, TurnStep(c) PROVE LifeInv'
  BY <1>4, TurnStepLife
<1>5. ASSUME NEW c \in Card, Park(c) PROVE LifeInv'
  BY <1>5 DEF Park, Leave, TypeInv, TypeOK, LifeInv, StatusInv, JournalOpen, NoLostTask,
     RowMatchesCard, ResumesCounted, ResumesBounded, Live
<1>6. ASSUME NEW c \in Card, MissedBeat(c) PROVE LifeInv'
  BY <1>6 DEF MissedBeat, memVars, histVars, TypeInv, TypeOK, LifeInv, StatusInv,
     JournalOpen, NoLostTask, RowMatchesCard, ResumesCounted, ResumesBounded, Live
<1>7. ASSUME NEW loops \in SUBSET Card, Reset(loops) PROVE LifeInv'
  BY <1>7, ResetLife
<1>8. ASSUME NEW s \in Session, NEW D \in SUBSET Card, ResumeDue(s, D) PROVE LifeInv'
  BY <1>8, ResumeDueLife
<1>9. ASSUME NEW s \in Session, StopLive(s) PROVE LifeInv'
  BY <1>1, <1>9 DEF StopLive, sqlVars
<1>10. ASSUME NEW s \in Session, StopJournaled(s) PROVE LifeInv'
  <2>1. \A c \in Resumable(s) : c \in Card /\ ~Live(c) /\ status[c] \in OpenStatus
    BY DEF Resumable, CardsOf, LifeInv, JournalOpen
  <2> QED
    BY <1>10, <2>1, BoundsAssumption DEF StopJournaled, EndCards, DropJournal, histVars,
       TypeInv, TypeOK, LifeInv, StatusInv, JournalOpen, NoLostTask, RowMatchesCard,
       ResumesCounted, ResumesBounded, Live
<1>11. CASE UNCHANGED vars
  BY <1>1, <1>11 DEF vars, sqlVars, memVars, histVars
<1> QED
  BY <1>2, <1>3, <1>4, <1>5, <1>6, <1>7, <1>8, <1>9, <1>10, <1>11 DEF Next
----------------------------------------------------------------------------
\* The inductive invariant holds in every reachable state: what resident.js and
\* resume.js rely on when they queue, park, stop and resume turns.
THEOREM Invariant == Spec => []Inv
<1>1. Init => Inv
  <2>1. Init => QueueInv
    BY DEF Init, QueueInv, Live, Active, ActivePc, LoopPc, EndPc
  <2>2. Init => LifeInv
    BY BoundsAssumption DEF Init, LifeInv, StatusInv, JournalOpen, NoLostTask, RowMatchesCard,
       ResumesCounted, ResumesBounded, Live, LoopPc, OpenStatus
  <2> QED
    BY <2>1, <2>2, InitType DEF Inv
<1>2. Inv /\ [Next]_vars => Inv'
  BY NextType, NextQueue, NextLife DEF Inv
<1> QED
  BY <1>1, <1>2, PTL DEF Spec

\* Every variable of the Resident keeps its type through every message, step, end,
\* Stop, park, reset and resume (resident.js, resume.js, stop.js).
THEOREM TypeCorrect == Spec => []TypeOK
<1>1. Inv => TypeOK
  BY DEF Inv, TypeInv
<1> QED
  BY <1>1, Invariant, PTL

\* Two turns of one task never run at the same time: the sessQ chain of runTurn is
\* kept by every way a turn is opened, resumed, parked or ended.
THEOREM OneTurn == Spec => []OneTurnPerTask
<1>1. Inv => OneTurnPerTask
  BY DEF Inv, TypeInv, QueueInv, OneTurnPerTask, Active, Live, ActivePc, LoopPc, EndPc
<1> QED
  BY <1>1, Invariant, PTL

\* No task is lost: an open card has a live turn or a journal row from which one is
\* started (recoverTurns, recoverCards, parkForResume, stopJournaled, abandonTurn).
THEOREM NoTaskLost == Spec => []NoLostTask
<1>1. Inv => NoLostTask
  BY DEF Inv, LifeInv
<1> QED
  BY <1>1, Invariant, PTL

\* A turn that works shows as working: nothing closes its card under it (stop.js
\* stopJournaled, resume.js abandonTurn, resident.js commitCard).
THEOREM WorkingShown == Spec => []LiveIsWorking
<1>1. Inv => LiveIsWorking
  BY DEF Inv, LifeInv, StatusInv, LiveIsWorking
<1> QED
  BY <1>1, Invariant, PTL

\* The task's history and the card tell one ending (runTurnInner, recoverCards,
\* stopJournaled).
THEOREM OneEnding == Spec => []RowMatchesCard
<1>1. Inv => RowMatchesCard
  BY DEF Inv, LifeInv
<1> QED
  BY <1>1, Invariant, PTL

\* A turn is resumed at most RESUME_MAX times and keeps its step allowance, however
\* often the object is reset and parks its turns (recoverTurns, resumeDue).
THEOREM BoundedResumes == Spec => []ResumesBounded
<1>1. Inv => ResumesBounded
  BY DEF Inv, LifeInv
<1> QED
  BY <1>1, Invariant, PTL

\* Once a card is closed nothing opens it again or closes it otherwise, and no turn
\* starts to work for it (setStatus and commitCard in tracker.js, recoverTurns).
THEOREM ClosedStays == Spec => ClosedStaysClosed
<1>1. ASSUME Inv, [Next]_vars PROVE [KeepsClosed]_vars
  <2> USE DEF OpenStatus, EndStatus
  <2>1. TypeInv /\ LifeInv
    BY <1>1 DEF Inv
  <2>2. ASSUME UNCHANGED <<status, pc>> PROVE KeepsClosed
    BY <2>2 DEF KeepsClosed
  <2>3. ASSUME NEW s \in Session, NEW m \in Msg, Join(s, m) PROVE KeepsClosed
    BY <2>2, <2>3 DEF Join
  <2>4. ASSUME NEW s \in Session, NEW m \in Msg, NEW c \in Card, Open(s, m, c)
        PROVE  KeepsClosed
    BY <2>1, <2>4 DEF Open, KeepsClosed, TypeInv, TypeOK
  <2>5. ASSUME NEW c \in Card, TurnStep(c) PROVE KeepsClosed
    <3>1. \A d \in Card : d # c => status'[d] = status[d] /\ pc'[d] = pc[d]
      BY <2>1, <2>5 DEF TurnStep, Start, CloseOpenCall, NextModelStep, OutOfSteps,
         EndStopped, SaveSteers, AnswerWithCalls, AnswerFinal, CommitAnswer,
         AnswerUnfinished, SkipCalls, StartTool, ToolDone, ToolsDone, LoopError,
         SaveLateSteers, LateAnswer, LateError, Report, HandOn, CloseCard, WriteRow, Finish,
         FailTurn, CommitAs, AnswerLate, TakeSteers, EndCards, Leave, memVars, sqlVars,
         TypeInv, TypeOK
    <3>2. CASE status[c] \notin EndStatus
      BY <3>1, <3>2 DEF KeepsClosed
    <3>3. CASE status[c] \in EndStatus
      <4>1. pc[c] \notin LoopPc \cup {"waiting", "committed"}
        BY <2>1, <3>3 DEF LifeInv, StatusInv
      <4>2. WriteRow(c) \/ Finish(c)
        BY <2>5, <4>1 DEF TurnStep, Start, CloseOpenCall, NextModelStep, OutOfSteps,
           EndStopped, SaveSteers, AnswerWithCalls, AnswerFinal, CommitAnswer,
           AnswerUnfinished, SkipCalls, StartTool, ToolDone, ToolsDone, LoopError,
           SaveLateSteers, LateAnswer, LateError, Report, HandOn, CloseCard, FailTurn, LoopPc
      <4>3. status'[c] = status[c] /\ pc'[c] \notin LoopPc
        BY <2>1, <4>2 DEF WriteRow, Finish, Leave, LoopPc, TypeInv, TypeOK
      <4> QED
        BY <3>1, <4>3 DEF KeepsClosed
    <3> QED
      BY <3>2, <3>3
  <2>6. ASSUME NEW c \in Card, Park(c) PROVE KeepsClosed
    BY <2>1, <2>6 DEF Park, Leave, KeepsClosed, LoopPc, TypeInv, TypeOK
  <2>7. ASSUME NEW c \in Card, MissedBeat(c) PROVE KeepsClosed
    BY <2>2, <2>7 DEF MissedBeat, memVars
  <2>8. ASSUME NEW loops \in SUBSET Card, Reset(loops) PROVE KeepsClosed
    BY <2>8 DEF Reset, CarryOn, KeepsClosed, LoopPc
  <2>9. ASSUME NEW s \in Session, NEW D \in SUBSET Card, ResumeDue(s, D) PROVE KeepsClosed
    <3>1. \A c \in D : status[c] \in OpenStatus
      BY <2>1, <2>9 DEF ResumeDue, Due, Resumable, CardsOf, LifeInv, JournalOpen
    <3> QED
      BY <2>9, <3>1 DEF ResumeDue, KeepsClosed
  <2>10. ASSUME NEW s \in Session, StopLive(s) \/ StopJournaled(s) PROVE KeepsClosed
    BY <2>10 DEF StopLive, StopJournaled, EndCards, KeepsClosed, sqlVars
  <2>11. CASE UNCHANGED vars
    BY <2>11
  <2> QED
    BY <1>1, <2>3, <2>4, <2>5, <2>6, <2>7, <2>8, <2>9, <2>10, <2>11 DEF Next
<1> QED
  BY <1>1, Invariant, PTL DEF Spec, ClosedStaysClosed
----------------------------------------------------------------------------
(* Stop, as long as no reset comes in between *)

\* Every step keeps what a Stop relies on, when nothing is reset.
LEMMA NextStop ==
    ASSUME TypeInv, StopInv, MaxResets = 0, MaxParks = 0, [Next]_vars
    PROVE  StopInv'
<1>1. ASSUME UNCHANGED <<resets, parks, pc, journal, stopReq, status, abort>>
      PROVE  StopInv'
  BY <1>1 DEF StopInv, Live
<1>2. ASSUME NEW s \in Session, NEW m \in Msg, Join(s, m) PROVE StopInv'
  BY <1>1, <1>2 DEF Join, histVars
<1>3. ASSUME NEW s \in Session, NEW m \in Msg, NEW c \in Card, Open(s, m, c)
      PROVE  StopInv'
  <2>1. c \notin stopReq /\ \A d \in Card : d # c => /\ pc'[d] = pc[d]
                         /\ status'[d] = status[d] /\ journal'[d] = journal[d]
    BY <1>3 DEF Open, StopInv, TypeInv, TypeOK
  <2>2. UNCHANGED <<resets, parks, stopReq, abort>> /\ pc'[c] # "none"
    BY <1>3 DEF Open, histVars, TypeInv, TypeOK
  <2>3. stopReq \subseteq Card
    BY DEF TypeInv, TypeOK
  <2> QED
    BY <2>1, <2>2, <2>3 DEF StopInv, Live
<1>4. ASSUME NEW c \in Card, TurnStep(c) PROVE StopInv'
  <2>1. UNCHANGED <<resets, parks, stopReq>>
    BY <1>4 DEF TurnStep, Start, CloseOpenCall, NextModelStep, OutOfSteps,
       EndStopped, SaveSteers, AnswerWithCalls, AnswerFinal, CommitAnswer,
       AnswerUnfinished, SkipCalls, StartTool, ToolDone, ToolsDone, LoopError,
       SaveLateSteers, LateAnswer, LateError, Report, HandOn, CloseCard, WriteRow, Finish,
       FailTurn, CommitAs, histVars
  <2>2. \A d \in Card : d # c => /\ pc'[d] = pc[d] /\ journal'[d] = journal[d]
                                 /\ status'[d] = status[d]
    BY <1>4 DEF TurnStep, Start, CloseOpenCall, NextModelStep, OutOfSteps,
       EndStopped, SaveSteers, AnswerWithCalls, AnswerFinal, CommitAnswer,
       AnswerUnfinished, SkipCalls, StartTool, ToolDone, ToolsDone, LoopError,
       SaveLateSteers, LateAnswer, LateError, Report, HandOn, CloseCard, WriteRow, Finish,
       FailTurn, CommitAs, AnswerLate, TakeSteers, EndCards, Leave, DropJournal,
       memVars, sqlVars, TypeInv, TypeOK
  <2>3. status[c] # "none" => status'[c] # "none"
    BY <1>4 DEF TurnStep, Start, CloseOpenCall, NextModelStep, OutOfSteps,
       EndStopped, SaveSteers, AnswerWithCalls, AnswerFinal, CommitAnswer,
       AnswerUnfinished, SkipCalls, StartTool, ToolDone, ToolsDone, LoopError,
       SaveLateSteers, LateAnswer, LateError, Report, HandOn, CloseCard, WriteRow, Finish,
       FailTurn, CommitAs, AnswerLate, EndCards, memVars, sqlVars, TypeInv, TypeOK,
       EndKnown, Committed, EndPc
  <2>4. CASE Finish(c) \/ FailTurn(c)
    <3>1. pc'[c] = "none" /\ journal'[c] = "none" /\ abort' = abort \ {c}
      BY <2>4 DEF Finish, FailTurn, Leave, DropJournal
    <3>2. stopReq \subseteq Card
      BY DEF TypeInv, TypeOK
    <3> QED
      BY <2>1, <2>2, <2>3, <3>1, <3>2 DEF StopInv, Live
  <2>5. CASE ~Finish(c) /\ ~FailTurn(c)
    <3>1. abort' = abort /\ Live(c)
      BY <1>4, <2>5 DEF TurnStep, Start, CloseOpenCall, NextModelStep, OutOfSteps,
         EndStopped, SaveSteers, AnswerWithCalls, AnswerFinal, CommitAnswer,
         AnswerUnfinished, SkipCalls, StartTool, ToolDone, ToolsDone, LoopError,
         SaveLateSteers, LateAnswer, LateError, Report, HandOn, CloseCard, WriteRow, CommitAs,
         memVars, Live
    <3>2. Live(c)'
      BY <1>4, <2>5 DEF TurnStep, Start, CloseOpenCall, NextModelStep, OutOfSteps,
         EndStopped, SaveSteers, AnswerWithCalls, AnswerFinal, CommitAnswer,
         AnswerUnfinished, SkipCalls, StartTool, ToolDone, ToolsDone, LoopError,
         SaveLateSteers, LateAnswer, LateError, Report, HandOn, CloseCard, WriteRow, CommitAs,
         AnswerLate, TakeSteers, memVars, Live, TypeInv, TypeOK
    <3>3. stopReq \subseteq Card
      BY DEF TypeInv, TypeOK
    <3> QED
      BY <2>1, <2>2, <2>3, <3>1, <3>2, <3>3 DEF StopInv, Live
  <2> QED
    BY <2>4, <2>5
<1>5. ASSUME NEW c \in Card, Park(c) PROVE StopInv'
  BY <1>5 DEF Park, TypeInv, TypeOK
<1>6. ASSUME NEW c \in Card, MissedBeat(c) PROVE StopInv'
  BY <1>6 DEF MissedBeat, StopInv, Live, memVars, histVars, TypeInv, TypeOK
<1>7. ASSUME NEW loops \in SUBSET Card, Reset(loops) PROVE StopInv'
  BY <1>7 DEF Reset, TypeInv, TypeOK
<1>8. ASSUME NEW s \in Session, NEW D \in SUBSET Card, ResumeDue(s, D) PROVE StopInv'
  <2>1. \A c \in Resumable(s) : c \in Card /\ ~Live(c) /\ journal[c] # "none"
    BY DEF Resumable, CardsOf
  <2> QED
    BY <1>8, <2>1 DEF ResumeDue, Due, StopInv
<1>9. ASSUME NEW s \in Session, StopLive(s) PROVE StopInv'
  BY <1>9 DEF StopLive, StopInv, Live, Uncommitted, CardsOf, sqlVars, TypeInv, TypeOK
<1>10. ASSUME NEW s \in Session, StopJournaled(s) PROVE StopInv'
  BY <1>10 DEF StopJournaled, EndCards, DropJournal, StopInv, Live, histVars, OpenStatus,
     TypeInv, TypeOK
<1>11. CASE UNCHANGED vars
  BY <1>1, <1>11 DEF vars, sqlVars, memVars, histVars
<1> QED
  BY <1>2, <1>3, <1>4, <1>5, <1>6, <1>7, <1>8, <1>9, <1>10, <1>11 DEF Next

\* When nothing is reset, what a Stop relies on holds in every reachable state.
LEMMA StopInvariant ==
    ASSUME MaxResets = 0, MaxParks = 0
    PROVE  Spec => []StopInv
<1>1. Init => StopInv
  BY DEF Init, StopInv, Live
<1>2. Inv /\ StopInv /\ [Next]_vars => StopInv'
  BY NextStop DEF Inv
<1> QED
  BY <1>1, <1>2, Invariant, PTL DEF Spec

\* The one card whose place in the code a step changes by calling the model or by
\* starting a tool is not stopped.
LEMMA NoCallStep ==
    ASSUME TypeInv, StopInv, MaxResets = 0, MaxParks = 0, [Next]_vars, NEW c \in stopReq
    PROVE  /\ pc[c] # "model" => pc'[c] # "model"
           /\ Engine = "pi" /\ pc[c] # "inTool" => pc'[c] # "inTool"
<1>1. c \in Card /\ status[c] # "none" /\ (Live(c) => c \in abort)
  BY DEF StopInv, TypeInv, TypeOK
<1>2. CASE UNCHANGED pc
  BY <1>2
<1>3. ASSUME NEW s \in Session, NEW m \in Msg, NEW d \in Card, Open(s, m, d)
      PROVE  pc'[c] = pc[c]
  BY <1>1, <1>3 DEF Open, TypeInv, TypeOK
<1>4. ASSUME NEW d \in Card, d # c, TurnStep(d) PROVE pc'[c] = pc[c]
  BY <1>1, <1>4 DEF TurnStep, Start, CloseOpenCall, NextModelStep, OutOfSteps,
     EndStopped, SaveSteers, AnswerWithCalls, AnswerFinal, CommitAnswer,
     AnswerUnfinished, SkipCalls, StartTool, ToolDone, ToolsDone, LoopError,
     SaveLateSteers, LateAnswer, LateError, Report, HandOn, CloseCard, WriteRow, Finish,
     FailTurn, CommitAs, AnswerLate, TakeSteers, Leave, memVars, TypeInv, TypeOK
<1>5. ASSUME TurnStep(c) PROVE /\ pc[c] # "model" => pc'[c] # "model"
                               /\ Engine = "pi" /\ pc[c] # "inTool" => pc'[c] # "inTool"
  <2>1. c \in abort
    BY <1>1, <1>5 DEF TurnStep, Start, CloseOpenCall, NextModelStep, OutOfSteps,
       EndStopped, SaveSteers, AnswerWithCalls, AnswerFinal, CommitAnswer,
       AnswerUnfinished, SkipCalls, StartTool, ToolDone, ToolsDone, LoopError,
       SaveLateSteers, LateAnswer, LateError, Report, HandOn, CloseCard, WriteRow, Finish,
       FailTurn, Live
  <2>2. ~NextModelStep(c) /\ (Engine = "pi" => ~StartTool(c))
    BY <2>1 DEF NextModelStep, MayCallModel, StartTool, Blocked
  <2> QED
    BY <1>1, <1>5, <2>1, <2>2 DEF TurnStep, Start, CloseOpenCall, OutOfSteps,
       EndStopped, SaveSteers, AnswerWithCalls, AnswerFinal, CommitAnswer,
       AnswerUnfinished, SkipCalls, StartTool, ToolDone, ToolsDone, LoopError,
       SaveLateSteers, LateAnswer, LateError, Report, HandOn, CloseCard, WriteRow, Finish,
       FailTurn, CommitAs, AnswerLate, TakeSteers, Leave, memVars, TypeInv, TypeOK
<1>6. ASSUME NEW d \in Card, Park(d) PROVE FALSE
  BY <1>6 DEF Park, TypeInv, TypeOK
<1>7. ASSUME NEW loops \in SUBSET Card, Reset(loops) PROVE FALSE
  BY <1>7 DEF Reset, TypeInv, TypeOK
<1>8. ASSUME NEW s \in Session, NEW D \in SUBSET Card, ResumeDue(s, D) PROVE FALSE
  <2>1. \A d \in Resumable(s) : d \in Card /\ ~Live(d) /\ journal[d] # "none"
    BY DEF Resumable, CardsOf
  <2> QED
    BY <1>8, <2>1 DEF ResumeDue, Due, StopInv
<1>9. CASE \/ \E s \in Session, m \in Msg : Join(s, m)
           \/ \E d \in Card : MissedBeat(d)
           \/ \E s \in Session : StopLive(s) \/ StopJournaled(s)
           \/ UNCHANGED vars
  BY <1>2, <1>9 DEF Join, MissedBeat, StopLive, StopJournaled, vars, memVars
<1> QED
  BY <1>3, <1>4, <1>5, <1>6, <1>7, <1>8, <1>9 DEF Next

\* When nothing is reset, a stopped turn calls the model no more: the loop's head, the
\* save of late messages and callModel all look at the Stop (stop.js, resident.js).
THEOREM StopEndsModelCalls ==
    ASSUME MaxResets = 0, MaxParks = 0
    PROVE  Spec => StopIsFinal
<1>1. Inv /\ StopInv /\ [Next]_vars => [NoModelCallAfterStop]_vars
  BY NoCallStep DEF Inv, NoModelCallAfterStop
<1> QED
  BY <1>1, Invariant, StopInvariant, PTL DEF Spec, StopIsFinal

\* When nothing is reset, the pi engine starts no tool of a stopped turn any more
\* (pi-engine.js beforeToolCall).
THEOREM StopEndsTools ==
    ASSUME MaxResets = 0, MaxParks = 0, Engine = "pi"
    PROVE  Spec => NoToolAfterStop
<1>1. Inv /\ StopInv /\ [Next]_vars => [NoToolStartAfterStop]_vars
  BY NoCallStep DEF Inv, NoToolStartAfterStop
<1> QED
  BY <1>1, Invariant, StopInvariant, PTL DEF Spec, NoToolAfterStop
=============================================================================
