------------------------- MODULE ToolEffectsProofs -------------------------
(***************************************************************************)
(* Proofs about ToolEffects, for any answer, either engine and any number  *)
(* of resets: the inductive invariant EffectInv, what follows from it, and *)
(* that the journal implements what ToolPromise promises.                  *)
(***************************************************************************)
EXTENDS ToolEffects, TLAPS

USE DEF Call

\* The invariant holds at first: no call has a row, nor did anything.
LEMMA InitEffect == Init => EffectInv
<1>1. SUFFICES ASSUME Init PROVE EffectInv
  OBVIOUS
<1>2. TypeOK
  BY <1>1 DEF Init, TypeOK, Tool
<1>3. ActsOnce /\ ConfirmedFirst
  BY <1>1 DEF Init, ActsOnce, ConfirmedFirst
<1>4. \A c \in Call : CallInv(c)
  BY <1>1 DEF Init, CallInv, WriteAhead, NotYet, Traces, Says, Text
<1>. QED
  BY <1>2, <1>3, <1>4 DEF EffectInv

\* An action of one call touches the state of that call only, so the invariant
\* of the others is as it was.
Touches(c) ==
    /\ \A d \in Call \ {c} : effect'[d] = effect[d] /\ result'[d] = result[d]
                              /\ card'[d] = card[d] /\ acts'[d] = acts[d]
                              /\ tool'[d] = tool[d]
                              /\ (d \in made' <=> d \in made)
                              /\ (d \in used' <=> d \in used)

\* What an action has to keep for the call it is about.
Kept(c) ==
    /\ CallInv(c)'
    /\ (Kind[c] # "read" => acts[c] <= 1)'
    /\ (Kind[c] = "send" /\ acts[c] > 0 => card[c] = "approved" /\ c \in used)'

\* The step of one call keeps the invariant of all when it keeps that call's.
LEMMA OneCall ==
    ASSUME NEW c \in Call, EffectInv, TypeOK', Touches(c), Kept(c),
           mode' = "calls" => mode = "calls"
    PROVE  EffectInv'
<1>1. \A d \in Call \ {c} : CallInv(d)'
  BY DEF EffectInv, Touches, CallInv, WriteAhead, NotYet, Traces, Says
<1>2. \A d \in Call : CallInv(d)'
  BY <1>1 DEF Kept
<1>3. ActsOnce'
  BY DEF EffectInv, ActsOnce, Touches, Kept
<1>4. ConfirmedFirst'
  BY DEF EffectInv, ConfirmedFirst, Touches, Kept
<1>. QED
  BY <1>2, <1>3, <1>4 DEF EffectInv

\* The steps of the turn about one call keep the invariant.
LEMMA CallKeeps ==
    ASSUME NEW c \in Call, EffectInv, CallStep(c)
    PROVE  EffectInv'
<1>1. CASE Begin(c)
  <2>1. TypeOK' /\ (mode' = "calls" => mode = "calls")
    BY <1>1, KindAssumption DEF EffectInv, TypeOK, Begin, Journal, Text, Tool, Running
  <2>2. Touches(c)
    BY <1>1 DEF EffectInv, TypeOK, Touches, Begin, Journal
  <2>3. Kept(c)
    BY <1>1, <2>1, KindAssumption DEF Kept, EffectInv, TypeOK, CallInv, WriteAhead, NotYet, Traces, Says, ActsOnce, ConfirmedFirst, Begin, Journal, Current, Answered, Text, Tool, Running
  <2>. QED
    BY <2>1, <2>2, <2>3, OneCall
<1>2. CASE Skip(c)
  <2>1. TypeOK' /\ (mode' = "calls" => mode = "calls")
    BY <1>2, KindAssumption DEF EffectInv, TypeOK, Skip, Text, Tool, Running
  <2>2. Touches(c)
    BY <1>2 DEF EffectInv, TypeOK, Touches, Skip
  <2>3. Kept(c)
    BY <1>2, <2>1, KindAssumption DEF Kept, EffectInv, TypeOK, CallInv, WriteAhead, NotYet, Traces, Says, ActsOnce, ConfirmedFirst, Skip, Current, Answered, Text, Tool, Running
  <2>. QED
    BY <2>1, <2>2, <2>3, OneCall
<1>3. CASE Record(c)
  <2>1. TypeOK' /\ (mode' = "calls" => mode = "calls")
    BY <1>3, KindAssumption DEF EffectInv, TypeOK, Record, RecordAs, Text, Tool, Running
  <2>2. Touches(c)
    BY <1>3 DEF EffectInv, TypeOK, Touches, Record, RecordAs
  <2>3. Kept(c)
    BY <1>3, <2>1, KindAssumption DEF Kept, EffectInv, TypeOK, CallInv, WriteAhead, NotYet, Traces, Says, ActsOnce, ConfirmedFirst, Record, RecordAs, Current, Answered, Text, Tool, Running
  <2>. QED
    BY <2>1, <2>2, <2>3, OneCall
<1>4. CASE SaveMessage(c)
  <2>1. TypeOK' /\ (mode' = "calls" => mode = "calls")
    BY <1>4, KindAssumption DEF EffectInv, TypeOK, SaveMessage, Text, Tool, Running
  <2>2. Touches(c)
    BY <1>4 DEF EffectInv, TypeOK, Touches, SaveMessage
  <2>3. Kept(c)
    BY <1>4, <2>1, KindAssumption DEF Kept, EffectInv, TypeOK, CallInv, WriteAhead, NotYet, Traces, Says, ActsOnce, ConfirmedFirst, SaveMessage, Current, Answered, Text, Tool, Running
  <2>. QED
    BY <2>1, <2>2, <2>3, OneCall
<1>5. CASE LetGo(c)
  <2>1. TypeOK' /\ (mode' = "calls" => mode = "calls")
    BY <1>5, KindAssumption DEF EffectInv, TypeOK, LetGo, RecordAs, Text, Tool, Running
  <2>2. Touches(c)
    BY <1>5 DEF EffectInv, TypeOK, Touches, LetGo, RecordAs
  <2>3. Kept(c)
    BY <1>5, <2>1, KindAssumption DEF Kept, EffectInv, TypeOK, CallInv, WriteAhead, NotYet, Traces, Says, ActsOnce, ConfirmedFirst, LetGo, LeavesTool, RecordAs, Current, Answered, Text, Tool, Running
  <2>. QED
    BY <2>1, <2>2, <2>3, OneCall
<1>6. CASE CloseDone(c)
  <2>1. TypeOK' /\ (mode' = "calls" => mode = "calls")
    BY <1>6, KindAssumption DEF EffectInv, TypeOK, CloseDone, Open, Text, Tool, Running
  <2>2. Touches(c)
    BY <1>6 DEF EffectInv, TypeOK, Touches, CloseDone, Open
  <2>3. Kept(c)
    BY <1>6, <2>1, KindAssumption DEF Kept, EffectInv, TypeOK, CallInv, WriteAhead, NotYet, Traces, Says, ActsOnce, ConfirmedFirst, CloseDone, Open, Current, Answered, Text, Tool, Running
  <2>. QED
    BY <2>1, <2>2, <2>3, OneCall
<1>7. CASE Rerun(c)
  <2>1. TypeOK' /\ (mode' = "calls" => mode = "calls")
    BY <1>7, KindAssumption DEF EffectInv, TypeOK, Rerun, Open, Journal, RunsAgain, Text, Tool, Running
  <2>2. Touches(c)
    BY <1>7 DEF EffectInv, TypeOK, Touches, Rerun, Open, Journal, RunsAgain
  <2>3. Kept(c)
    BY <1>7, <2>1, KindAssumption DEF Kept, EffectInv, TypeOK, CallInv, WriteAhead, NotYet, Traces, Says, ActsOnce, ConfirmedFirst, Rerun, Open, Journal, RunsAgain, Current, Answered, Text, Tool, Running
  <2>. QED
    BY <2>1, <2>2, <2>3, OneCall
<1>8. CASE CloseStarted(c)
  <2>1. TypeOK' /\ (mode' = "calls" => mode = "calls")
    BY <1>8, KindAssumption DEF EffectInv, TypeOK, CloseStarted, Open, RunsAgain, CloseText, RecordAs, Text, Tool, Running
  <2>2. Touches(c)
    BY <1>8 DEF EffectInv, TypeOK, Touches, CloseStarted, Open, RunsAgain, CloseText, RecordAs
  <2>3. PICK t \in CloseText(c) : effect'[c] = t /\ result'[c] = t
    BY <1>8 DEF EffectInv, TypeOK, CloseStarted, Open, RecordAs
  <2>4. /\ t \in {"result", "already"} => acts[c] > 0
        /\ t = "nothing" => acts[c] = 0
        /\ t \in Text \ {"skipped"}
    <3>1. CASE Kind[c] = "exec"
      BY <3>1, <2>3 DEF CloseText, Text
    <3>2. CASE Kind[c] = "once"
      <4>1. c \in made /\ t = "already"
        BY <1>8, <2>3, <3>2 DEF CloseText, CloseStarted, RunsAgain
      <4>. QED
        BY <4>1 DEF EffectInv, CallInv, Traces, Text
    <3>3. CASE Kind[c] \notin {"exec", "once"} /\ card[c] = "pending"
      <4>1. t = "nothing" /\ Kind[c] = "send"
        BY <2>3, <3>3 DEF CloseText, EffectInv, CallInv, Traces
      <4>2. ~(acts[c] > 0)
        BY <3>3, <4>1 DEF EffectInv, ConfirmedFirst
      <4>3. acts[c] \in Nat
        BY DEF EffectInv, TypeOK
      <4>. QED
        BY <4>1, <4>2, <4>3 DEF Text
    <3>4. CASE Kind[c] \notin {"exec", "once"} /\ card[c] # "pending"
      BY <2>3, <3>4 DEF CloseText, Text
    <3>. QED
      BY <3>1, <3>2, <3>3, <3>4
  <2>5. acts'[c] = acts[c] /\ card'[c] = card[c] /\ tool'[c] = "idle"
          /\ made' = made /\ used' = used
    BY <1>8 DEF CloseStarted, Open
  <2>6. Kept(c)
    BY <2>3, <2>4, <2>5 DEF Kept, EffectInv, ActsOnce, ConfirmedFirst, CallInv,
       WriteAhead, NotYet, Traces, Says, Text
  <2>. QED
    BY <2>1, <2>2, <2>6, OneCall
<1>. QED
  BY <1>1, <1>2, <1>3, <1>4, <1>5, <1>6, <1>7, <1>8 DEF CallStep

\* The steps of the tool of one call keep the invariant.
LEMMA ToolKeeps ==
    ASSUME NEW c \in Call, EffectInv, ToolStep(c)
    PROVE  EffectInv'
<1>1. CASE Refuse(c)
  <2>1. TypeOK' /\ (mode' = "calls" => mode = "calls")
    BY <1>1, KindAssumption DEF EffectInv, TypeOK, Refuse, Text, Tool, Running
  <2>2. Touches(c)
    BY <1>1 DEF EffectInv, TypeOK, Touches, Refuse
  <2>3. Kept(c)
    BY <1>1, <2>1, KindAssumption DEF Kept, EffectInv, TypeOK, CallInv, WriteAhead, NotYet, Traces, Says, ActsOnce, ConfirmedFirst, Refuse, Current, Answered, Text, Tool, Running
  <2>. QED
    BY <2>1, <2>2, <2>3, OneCall
<1>2. CASE AskConfirm(c)
  <2>1. TypeOK' /\ (mode' = "calls" => mode = "calls")
    BY <1>2, KindAssumption DEF EffectInv, TypeOK, AskConfirm, Text, Tool, Running
  <2>2. Touches(c)
    BY <1>2 DEF EffectInv, TypeOK, Touches, AskConfirm
  <2>3. Kept(c)
    BY <1>2, <2>1, KindAssumption DEF Kept, EffectInv, TypeOK, CallInv, WriteAhead, NotYet, Traces, Says, ActsOnce, ConfirmedFirst, AskConfirm, Current, Answered, Text, Tool, Running
  <2>. QED
    BY <2>1, <2>2, <2>3, OneCall
<1>3. CASE SeeTap(c)
  <2>1. TypeOK' /\ (mode' = "calls" => mode = "calls")
    BY <1>3, KindAssumption DEF EffectInv, TypeOK, SeeTap, ConfirmedHere, Text, Tool, Running
  <2>2. Touches(c)
    BY <1>3 DEF EffectInv, TypeOK, Touches, SeeTap, ConfirmedHere
  <2>3. Kept(c)
    BY <1>3, <2>1, KindAssumption DEF Kept, EffectInv, TypeOK, CallInv, WriteAhead, NotYet, Traces, Says, ActsOnce, ConfirmedFirst, SeeTap, ConfirmedHere, Current, Answered, Text, Tool, Running
  <2>. QED
    BY <2>1, <2>2, <2>3, OneCall
<1>4. CASE EndHold(c)
  <2>1. TypeOK' /\ (mode' = "calls" => mode = "calls")
    BY <1>4, KindAssumption DEF EffectInv, TypeOK, EndHold, Text, Tool, Running
  <2>2. Touches(c)
    BY <1>4 DEF EffectInv, TypeOK, Touches, EndHold
  <2>3. Kept(c)
    BY <1>4, <2>1, KindAssumption DEF Kept, EffectInv, TypeOK, CallInv, WriteAhead, NotYet, Traces, Says, ActsOnce, ConfirmedFirst, EndHold, Current, Answered, Text, Tool, Running
  <2>. QED
    BY <2>1, <2>2, <2>3, OneCall
<1>5. CASE ActNow(c)
  <2>1. TypeOK' /\ (mode' = "calls" => mode = "calls")
    <3>1. CASE c \in made
      BY <1>5, <3>1 DEF EffectInv, TypeOK, ActNow, Tool
    <3>2. CASE c \notin made
      <4>1. acts' \in [Call -> Nat]
        <5>1. acts \in [Call -> Nat] /\ acts' = [acts EXCEPT ![c] = acts[c] + 1]
          BY <1>5, <3>2 DEF EffectInv, TypeOK, ActNow
        <5>2. acts[c] + 1 \in Nat
          BY <5>1
        <5>. QED
          BY <5>1, <5>2
      <4>3. made' \subseteq Call
        BY <1>5, <3>2 DEF EffectInv, TypeOK, ActNow
      <4>2. tool' \in [Call -> Tool]
        BY <1>5, <3>2 DEF EffectInv, TypeOK, ActNow, Tool, Running
      <4>. QED
        BY <1>5, <4>1, <4>2, <4>3 DEF EffectInv, TypeOK, ActNow
    <3>. QED
      BY <3>1, <3>2
  <2>2. Touches(c)
    BY <1>5 DEF EffectInv, TypeOK, Touches, ActNow
  <2>3. Kept(c)
    BY <1>5, <2>1, KindAssumption DEF Kept, EffectInv, TypeOK, CallInv, WriteAhead, NotYet, Traces, Says, ActsOnce, ConfirmedFirst, ActNow, Current, Answered, Text, Tool, Running
  <2>. QED
    BY <2>1, <2>2, <2>3, OneCall
<1>6. CASE Return(c)
  <2>1. TypeOK' /\ (mode' = "calls" => mode = "calls")
    BY <1>6, KindAssumption DEF EffectInv, TypeOK, Return, Text, Tool, Running
  <2>2. Touches(c)
    BY <1>6 DEF EffectInv, TypeOK, Touches, Return
  <2>3. Kept(c)
    BY <1>6, <2>1, KindAssumption DEF Kept, EffectInv, TypeOK, CallInv, WriteAhead, NotYet, Traces, Says, ActsOnce, ConfirmedFirst, Return, Current, Answered, Text, Tool, Running
  <2>. QED
    BY <2>1, <2>2, <2>3, OneCall
<1>. QED
  BY <1>1, <1>2, <1>3, <1>4, <1>5, <1>6 DEF ToolStep

\* A tap, and a reset under a call, keep the invariant.
LEMMA OtherKeeps ==
    ASSUME NEW c \in Call, EffectInv, Decide(c) \/ CalleeReset(c)
    PROVE  EffectInv'
<1>1. CASE Decide(c)
  <2>1. TypeOK' /\ (mode' = "calls" => mode = "calls")
    BY <1>1, KindAssumption DEF EffectInv, TypeOK, Decide, Text, Tool, Running
  <2>2. Touches(c)
    BY <1>1 DEF EffectInv, TypeOK, Touches, Decide
  <2>3. Kept(c)
    BY <1>1, <2>1, KindAssumption DEF Kept, EffectInv, TypeOK, CallInv, WriteAhead, NotYet, Traces, Says, ActsOnce, ConfirmedFirst, Decide, Current, Answered, Text, Tool, Running
  <2>. QED
    BY <2>1, <2>2, <2>3, OneCall
<1>2. CASE CalleeReset(c)
  <2>1. TypeOK' /\ (mode' = "calls" => mode = "calls")
    <3>1. tool' \in [Call -> Tool]
      BY <1>2 DEF EffectInv, TypeOK, CalleeReset, Tool
    <3>2. mode' \in {mode, "gone"}
      BY <1>2 DEF CalleeReset
    <3>3. stop' \in BOOLEAN
      BY <1>2, Zenon DEF EffectInv, TypeOK, CalleeReset
    <3>4. resets' \in Nat
      BY <1>2 DEF EffectInv, TypeOK, CalleeReset
    <3>5. UNCHANGED <<effect, result, made, card, used, acts>>
      BY <1>2 DEF CalleeReset
    <3>. QED
      BY <3>1, <3>2, <3>3, <3>4, <3>5 DEF EffectInv, TypeOK
  <2>2. Touches(c)
    BY <1>2 DEF EffectInv, TypeOK, Touches, CalleeReset
  <2>3. Kept(c)
    BY <1>2, <2>1, KindAssumption DEF Kept, EffectInv, TypeOK, CallInv, WriteAhead, NotYet, Traces, Says, ActsOnce, ConfirmedFirst, CalleeReset, Current, Answered, Text, Tool, Running
  <2>. QED
    BY <2>1, <2>2, <2>3, OneCall
<1>. QED
  BY <1>1, <1>2

\* Ends, resets, resumes and Stops keep the invariant.
LEMMA TurnKeeps ==
    ASSUME EffectInv, Done \/ Reset \/ Resume \/ Stop \/ StopGone
    PROVE  EffectInv'
<1>1. CASE Done \/ Resume \/ Stop \/ StopGone
  <2>1. UNCHANGED <<effect, result, made, card, used, acts, tool>>
    BY <1>1 DEF Done, Resume, Stop, StopGone
  <2>2. TypeOK'
    BY <1>1 DEF EffectInv, TypeOK, Done, Resume, Stop, StopGone
  <2>3. mode' = "calls" => mode = "calls"
    BY <1>1 DEF Done, Resume, Stop, StopGone
  <2>. QED
    BY <2>1, <2>2, <2>3 DEF EffectInv, ActsOnce, ConfirmedFirst, CallInv, WriteAhead,
                            NotYet, Traces, Says
<1>2. CASE Reset
  <2>1. TypeOK'
    <3>1. tool' \in [Call -> Tool]
      BY <1>2 DEF Reset, Tool
    <3>2. stop' \in BOOLEAN
      BY <1>2, Zenon DEF Reset
    <3>3. mode' = "gone" /\ UNCHANGED <<effect, result, made, card, used, acts>>
      BY <1>2 DEF Reset
    <3>4. resets' \in Nat
      BY <1>2 DEF EffectInv, TypeOK, Reset
    <3>. QED
      BY <3>1, <3>2, <3>3, <3>4 DEF EffectInv, TypeOK
  <2>2. ActsOnce' /\ ConfirmedFirst'
    BY <1>2 DEF EffectInv, ActsOnce, ConfirmedFirst, Reset
  <2>3. \A c \in Call : CallInv(c)'
    BY <1>2 DEF EffectInv, CallInv, WriteAhead, NotYet, Traces, Says, Reset
  <2>. QED
    BY <2>1, <2>2, <2>3 DEF EffectInv
<1>. QED
  BY <1>1, <1>2

\* Every step keeps the invariant.
LEMMA NextEffect == EffectInv /\ [Next]_vars => EffectInv'
<1>1. SUFFICES ASSUME EffectInv, [Next]_vars PROVE EffectInv'
  OBVIOUS
<1>2. CASE UNCHANGED vars
  <2>1. TypeOK'
    BY <1>1, <1>2 DEF vars, EffectInv, TypeOK
  <2>. QED
    BY <1>1, <1>2, <2>1 DEF vars, EffectInv, ActsOnce, ConfirmedFirst, CallInv,
                            WriteAhead, NotYet, Traces, Says
<1>3. CASE Next
  BY <1>1, <1>3, CallKeeps, ToolKeeps, OtherKeeps, TurnKeeps DEF Next
<1>. QED
  BY <1>1, <1>2, <1>3

\* The inductive invariant holds in every behaviour: the journal is ahead of each
\* tool, and what it says of the tool is true.
THEOREM Journaled == Spec => []EffectInv
BY InitEffect, NextEffect, PTL DEF Spec

\* Every variable keeps its type.
THEOREM EffectsTyped == Spec => []TypeOK
<1>1. EffectInv => TypeOK
  BY DEF EffectInv
<1>. QED
  BY <1>1, Journaled, PTL

\* A call that is not a read acts at most once, whatever cuts the turn off.
THEOREM NothingTwice == Spec => []ActsOnce
<1>1. EffectInv => ActsOnce
  BY DEF EffectInv
<1>. QED
  BY <1>1, Journaled, PTL

\* A send acts only after its own card was confirmed.
THEOREM NoSendUnconfirmed == Spec => []ConfirmedFirst
<1>1. EffectInv => ConfirmedFirst
  BY DEF EffectInv
<1>. QED
  BY <1>1, Journaled, PTL

\* The saved results tell the truth about the calls.
THEOREM TruthTold == Spec => []ResultsTrue
<1>1. EffectInv => ResultsTrue
  BY DEF EffectInv, ResultsTrue, CallInv, WriteAhead, Says, TypeOK
<1>. QED
  BY <1>1, Journaled, PTL
----------------------------------------------------------------------------
(* ToolEffects implements ToolPromise *)

told == [c \in Call |-> Told(c)]

\* Nothing was done and nothing was told at first.
LEMMA InitImplements == Init => P!Init
BY DEF Init, P!Init, Told

\* A step that gives one call its result, or none, tells the truth about it.
LEMMA TellsTrue ==
    ASSUME NEW c \in Call, EffectInv, EffectInv', acts' = acts,
           result[c] = "none" \/ result'[c] = result[c],
           \A d \in Call \ {c} : result'[d] = result[d]
    PROVE  P!Tell(c) \/ UNCHANGED <<acts, told>>
<1>1. CASE result'[c] = result[c]
  BY <1>1 DEF told, Told
<1>2. CASE result[c] = "none" /\ result'[c] # "none"
  <2>1. /\ result'[c] \in {"result", "already"} => acts[c] > 0
        /\ result'[c] \in {"nothing", "skipped"} => acts[c] = 0
    BY <1>2 DEF EffectInv, CallInv, WriteAhead, Says
  <2>2. told[c] = "open" /\ told' = [told EXCEPT ![c] = Told(c)']
    BY <1>2 DEF told, Told
  <2>3. /\ Told(c)' \in P!Told \ {"open"}
        /\ Told(c)' = "done" => acts[c] > 0
        /\ Told(c)' = "nothing" => acts[c] = 0
    BY <1>2, <2>1 DEF Told, P!Told
  <2>. QED
    BY <2>2, <2>3 DEF P!Tell, told
<1>. QED
  BY <1>1, <1>2

\* A call acts while nothing final was told of it, and once unless it is a read.
LEMMA ActsInTime ==
    ASSUME NEW c \in Call, EffectInv, ActNow(c)
    PROVE  P!Act(c) \/ UNCHANGED <<acts, told>>
<1>1. CASE c \in made
  BY <1>1 DEF ActNow, told, Told
<1>2. CASE c \notin made
  <2>1. tool[c] \in {"run", "cleared"}
    BY DEF ActNow
  <2>2. result[c] \in {"none", "stopped"}
    BY <2>1 DEF EffectInv, CallInv, WriteAhead, Says, TypeOK
  <2>3. told[c] \in {"open", "unknown"}
    BY <2>2 DEF told, Told
  <2>4. acts[c] = 0 \/ Kind[c] = "read"
    BY <2>1 DEF EffectInv, CallInv, NotYet
  <2>5. acts' = [acts EXCEPT ![c] = @ + 1] /\ told' = told
    BY <1>2 DEF ActNow, told, Told
  <2>. QED
    BY <2>3, <2>4, <2>5 DEF P!Act, told
<1>. QED
  BY <1>1, <1>2

\* Every step is one of ToolPromise, or is not seen by it.
LEMMA StepImplements ==
    EffectInv /\ EffectInv' /\ [Next]_vars => [P!Next]_<<acts, told>>
<1>1. SUFFICES ASSUME EffectInv, EffectInv', [Next]_vars
               PROVE  P!Next \/ UNCHANGED <<acts, told>>
  OBVIOUS
<1>2. CASE UNCHANGED <<acts, result>>
  BY <1>2 DEF told, Told
<1>3. ASSUME NEW c \in Call, CallStep(c) PROVE P!Tell(c) \/ UNCHANGED <<acts, told>>
  <2>1. acts' = acts
    BY <1>3 DEF CallStep, Begin, Skip, Record, SaveMessage, LetGo, CloseDone, Rerun,
                CloseStarted
  <2>2. /\ result[c] = "none" \/ result'[c] = result[c]
        /\ \A d \in Call \ {c} : result'[d] = result[d]
    <3>0. result \in [Call -> {"none"} \cup Text]
      BY <1>1 DEF EffectInv, TypeOK
    <3>1. CASE Begin(c) \/ Rerun(c)
      BY <3>1 DEF Begin, Rerun
    <3>2. CASE Skip(c) \/ SaveMessage(c) \/ CloseDone(c)
      BY <3>0, <3>2 DEF Skip, Current, Answered, SaveMessage, CloseDone, Open
    <3>3. CASE Record(c) \/ LetGo(c)
      BY <3>0, <3>3 DEF Record, LetGo, RecordAs, Current, Answered
    <3>4. CASE CloseStarted(c)
      BY <3>0, <3>4 DEF CloseStarted, RecordAs, Open
    <3>. QED
      BY <1>3, <3>1, <3>2, <3>3, <3>4 DEF CallStep
  <2>. QED
    BY <1>1, <2>1, <2>2, TellsTrue
<1>4. ASSUME NEW c \in Call, ToolStep(c) PROVE P!Act(c) \/ UNCHANGED <<acts, told>>
  <2>1. CASE ActNow(c)
    BY <1>1, <2>1, ActsInTime
  <2>2. CASE ~ActNow(c)
    BY <1>4, <2>2 DEF ToolStep, Refuse, AskConfirm, SeeTap, EndHold, Return, told, Told
  <2>. QED
    BY <2>1, <2>2
<1>5. ASSUME NEW c \in Call, CalleeReset(c) \/ Decide(c) PROVE UNCHANGED <<acts, told>>
  BY <1>5 DEF CalleeReset, Decide, told, Told
<1>6. CASE Done \/ Reset \/ Resume \/ Stop \/ StopGone
  BY <1>6 DEF Done, Reset, Resume, Stop, StopGone, told, Told
<1>. QED
  BY <1>1, <1>2, <1>3, <1>4, <1>5, <1>6 DEF Next, vars, P!Next

\* What the model is told of its calls keeps ToolPromise, through resets and Stops.
THEOREM Implements == Spec => KeepsPromise
<1>1. Init /\ [][Next]_vars /\ []EffectInv => P!Init /\ [][P!Next]_<<acts, told>>
  BY InitImplements, StepImplements, PTL
<1>. QED
  BY <1>1, Journaled, PTL DEF Spec, KeepsPromise, P!Spec, told
=============================================================================
