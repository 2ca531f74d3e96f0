------------------------- MODULE ApprovalsProofs -------------------------
(***************************************************************************)
(* Proofs about Approvals, for any calls, payloads, cards, answers and     *)
(* resets: the inductive invariant ApprovalInv, what follows from it, and  *)
(* that the first answer of a card stands.                                 *)
(***************************************************************************)
EXTENDS Approvals, TLAPS

USE DEF Card, Tap, NoCard

\* No card, no call, no answer: the invariant holds at first.
LEMMA InitApproval == Init => ApprovalInv
<1>1. SUFFICES ASSUME Init PROVE ApprovalInv
  OBVIOUS
<1>2. TypeOK
  BY <1>1, BoundsAssumption DEF Init, TypeOK, Rows, Calls, Taps, Idle
<1>3. HeldHasHolder /\ CardsInv /\ TapsInv /\ WaitingInv /\ RanInv
  BY <1>1 DEF Init, HeldHasHolder, CardsInv, TapsInv, WaitingInv, RanInv, Idle
<1>4. OneYesOneRun /\ AnswerReaches /\ OnceIsSpent
  BY <1>1 DEF Init, OneYesOneRun, AnswerReaches, OnceIsSpent, Ran, Answered, Idle
<1>. QED
  BY <1>2, <1>3, <1>4 DEF ApprovalInv

---------------------------------------------------------------------------
(* What most steps leave alone                                             *)

\* No call gets through: who has run had run, on the same card and in the same way.
NobodyRuns == \A c \in Call : call'[c].pc = "ran" => call'[c] = call[c]

\* What a card that is answered keeps.
AnswersStay ==
    \A k \in Card :
        /\ row'[k].st = "none" => row[k].st = "none"
        /\ row[k].st # "none" => row'[k].pay = row[k].pay
        /\ row[k].st \notin {"none", "pending"} =>
              /\ row'[k].st = row[k].st /\ row'[k].dec = row[k].dec
              /\ row[k].used => row'[k].used

\* With both, and a grant given only to a card that was pending, one yes still lets one
\* call through.
LEMMA NobodyMore ==
    ASSUME ApprovalInv, NobodyRuns, AnswersStay, kind' = kind,
           \A k \in Card : k \in grants' => k \in grants \/ Pending(k)
    PROVE  RanInv' /\ OneYesOneRun' /\ OnceIsSpent'
<1>1. RanInv'
  <2>1. SUFFICES ASSUME NEW c \in Call, call'[c].pc = "ran", call'[c].card # NoCard
                 PROVE  LET k == call'[c].card IN
                        /\ call'[c].how \in {"token", "grant", "hold"}
                        /\ row'[k].st \notin {"none", "pending"}
                        /\ row'[k].pay = call'[c].pay
                        /\ kind' # "channels" => row'[k].st = "approved"
                        /\ kind' = "confirm" => row'[k].used
                        /\ call'[c].how = "grant" => k \notin grants' /\ kind' # "confirm"
                        /\ call'[c].how = "token" => kind' = "confirm"
    BY DEF RanInv
  <2>2. call[c] = call'[c] /\ call[c].card \in Card
    BY <2>1 DEF NobodyRuns, ApprovalInv, TypeOK, Calls
  <2>. QED
    BY <2>1, <2>2 DEF ApprovalInv, RanInv, AnswersStay, Pending
<1>2. OneYesOneRun'
  <2>1. ASSUME NEW c \in Call, NEW d \in Call, NEW k \in Card, Ran(c, k)', Ran(d, k)',
               kind' = "confirm" \/ (call'[c].how # "hold" /\ call'[d].how # "hold")
        PROVE  c = d
    <3>1. call[c] = call'[c] /\ call[d] = call'[d]
      BY <2>1 DEF NobodyRuns, Ran
    <3>. QED
      BY <2>1, <3>1 DEF ApprovalInv, OneYesOneRun, Ran
  <2>2. ASSUME NEW c \in Call, NEW k \in Card, Ran(c, k)', kind' # "channels"
        PROVE  row'[k].st = "approved" /\ row'[k].pay = call'[c].pay
    BY <1>1, <2>2 DEF Ran, RanInv
  <2>. QED
    BY <2>1, <2>2 DEF OneYesOneRun
<1>3. OnceIsSpent'
  <2>1. SUFFICES ASSUME kind' = "site", NEW c \in Call, NEW k \in Card, Ran(c, k)',
                        call'[c].how = "hold", row'[k].dec = "once"
                 PROVE  k \notin grants'
    BY DEF OnceIsSpent
  <2>2. call[c] = call'[c] /\ Ran(c, k)
    BY <2>1 DEF NobodyRuns, Ran
  <2>3. row[k].st \notin {"none", "pending"}
    BY <2>2 DEF Ran, ApprovalInv, RanInv
  <2>. QED
    BY <2>1, <2>2, <2>3 DEF ApprovalInv, OnceIsSpent, AnswersStay, Pending
<1>. QED
  BY <1>1, <1>2, <1>3

\* What an answer, a use or a clock makes of a row is a row.
LEMMA RowTyped ==
    ASSUME NEW r \in Rows
    PROVE  /\ [r EXCEPT !.used = TRUE] \in Rows
           /\ [r EXCEPT !.old = TRUE] \in Rows
           /\ [r EXCEPT !.st = "expired"] \in Rows
           /\ [r EXCEPT !.st = "denied", !.dec = "no"] \in Rows
           /\ [r EXCEPT !.st = "approved", !.dec = "once", !.old = FALSE] \in Rows
           /\ [r EXCEPT !.st = "approved", !.dec = "always", !.old = FALSE] \in Rows
BY DEF Rows

---------------------------------------------------------------------------
(* Each action keeps the invariant                                         *)

\* A token uses its card up, and a used card lets nobody else through.
LEMMA TokenKeeps ==
    ASSUME ApprovalInv, NEW c \in Call, NEW p \in Payload, NEW x \in Tap, GateToken(c, p, x)
    PROVE  ApprovalInv'
<1>. USE DEF GateToken, Makes, Runs
<1>1. TypeOK'
  <2>1. row' \in [Card -> Rows]
    <3>. DEFINE k0 == tap[x].card
                r0 == [row[k0] EXCEPT !.used = TRUE]
    <3>1. k0 \in Card
      BY DEF ApprovalInv, TapsInv
    <3>2. r0 \in Rows
      BY <3>1, RowTyped DEF ApprovalInv, TypeOK
    <3>3. row' = [row EXCEPT ![k0] = r0]
      BY Zenon
    <3>. QED
      BY <3>1, <3>2, <3>3 DEF ApprovalInv, TypeOK
  <2>2. call' \in [Call -> Calls]
    BY DEF ApprovalInv, TypeOK, TapsInv, Calls, Taps, Idle
  <2>3. tap' \in [Tap -> Taps]
    BY DEF ApprovalInv, TypeOK, TapsInv, Taps
  <2>4. /\ kind' \in Kinds /\ held' \in SUBSET Card /\ grants' \in SUBSET Card
        /\ reached' \in SUBSET Card /\ missed' \in SUBSET Card
    BY DEF ApprovalInv, TypeOK, TapsInv, WaitingInv, Calls, Taps, Rows
  <2>5. allowed' \in SUBSET Payload /\ resets' \in 0 .. MaxResets
    BY BoundsAssumption DEF ApprovalInv, TypeOK, TapsInv, CardsInv, WaitingInv, Pending, Calls, Taps, Rows
  <2>. QED
    BY <2>1, <2>2, <2>3, <2>4, <2>5 DEF TypeOK
<1>2. HeldHasHolder'
  <2>1. SUFFICES ASSUME NEW h \in held' PROVE \E d \in Call : HoldsOn(d, h)'
    BY DEF HeldHasHolder
  <2>2. h \in held => \E d \in Call : HoldsOn(d, h)
    BY DEF ApprovalInv, HeldHasHolder
  <2>. QED
    BY <2>1, <2>2 DEF ApprovalInv, TypeOK, HoldsOn, Calls
<1>3. CardsInv'
  BY DEF ApprovalInv, TypeOK, CardsInv, TapsInv, RanInv, WaitingInv, Pending, Rows, Taps, Calls
<1>7. TapsInv'
  BY DEF ApprovalInv, TypeOK, TapsInv, WaitingInv, Pending, Rows, Taps, Calls
<1>4. WaitingInv'
  BY DEF ApprovalInv, TypeOK, WaitingInv, Pending, Rows, Calls, Idle, TapsInv
<1>5. RanInv' /\ OneYesOneRun' /\ OnceIsSpent'
  <2>1. RanInv'
    BY DEF ApprovalInv, TypeOK, RanInv, CardsInv, WaitingInv, Pending, TapsInv, Rows, Calls, Taps, Idle
  <2>2. OneYesOneRun'
    <3>1. \A d \in Call \ {c} : call'[d] = call[d]
      BY DEF ApprovalInv, TypeOK
    <3>2. ASSUME NEW d \in Call \ {c}, NEW j \in Card, Ran(c, j)', Ran(d, j)',
                 kind' = "confirm" \/ (call'[c].how # "hold" /\ call'[d].how # "hold")
          PROVE  FALSE
      <4>1. Ran(d, j) /\ (kind = "confirm" => row[j].used)
        BY <3>1, <3>2 DEF Ran, ApprovalInv, RanInv
      <4>2. kind = "confirm" => ~row[j].used
        BY <3>2 DEF Ran, ApprovalInv, TypeOK, Calls
      <4>. QED
        BY <3>1, <3>2, <4>1, <4>2 DEF ApprovalInv, TypeOK, RanInv, Ran, Calls
    <3>3. ASSUME NEW d \in Call, NEW e \in Call, NEW j \in Card, Ran(d, j)', Ran(e, j)',
                 kind' = "confirm" \/ (call'[d].how # "hold" /\ call'[e].how # "hold")
          PROVE  d = e
      <4>1. kind' = kind
        OBVIOUS
      <4>. QED
        BY <3>1, <3>2, <3>3, <4>1 DEF ApprovalInv, OneYesOneRun, Ran
    <3>4. ASSUME NEW d \in Call, NEW j \in Card, Ran(d, j)', kind' # "channels"
          PROVE  row'[j].st = "approved" /\ row'[j].pay = call'[d].pay
      BY <2>1, <3>4 DEF RanInv, Ran
    <3>. QED
      BY <3>3, <3>4 DEF OneYesOneRun
  <2>3. OnceIsSpent'
    BY DEF ApprovalInv, TypeOK, RanInv, OnceIsSpent, Ran, Pending, Rows, Calls, Idle
  <2>. QED
    BY <2>1, <2>2, <2>3
<1>6. AnswerReaches'
  BY DEF ApprovalInv, TypeOK, HeldHasHolder, AnswerReaches, Answered, HoldsOn, Pending, Rows, Calls, Idle, TapsInv, Taps
<1>. QED
  BY <1>1, <1>2, <1>3, <1>4, <1>5, <1>6, <1>7 DEF ApprovalInv

\* A grant is gone when it is used, and its card gets no other.
LEMMA GrantKeeps ==
    ASSUME ApprovalInv, NEW c \in Call, NEW p \in Payload, GateGrant(c, p)
    PROVE  ApprovalInv'
<1>. USE DEF GateGrant, Makes, Runs, Usable
<1>1. TypeOK'
  <2>1. row' \in [Card -> Rows]
    BY DEF ApprovalInv, TypeOK, TapsInv, WaitingInv, Rows, Taps
  <2>2. call' \in [Call -> Calls]
    BY DEF ApprovalInv, TypeOK, TapsInv, Calls, Taps, Idle
  <2>3. tap' \in [Tap -> Taps]
    BY DEF ApprovalInv, TypeOK, TapsInv, Taps
  <2>4. /\ kind' \in Kinds /\ held' \in SUBSET Card /\ grants' \in SUBSET Card
        /\ reached' \in SUBSET Card /\ missed' \in SUBSET Card
    BY DEF ApprovalInv, TypeOK, TapsInv, WaitingInv, Calls, Taps, Rows
  <2>5. allowed' \in SUBSET Payload /\ resets' \in 0 .. MaxResets
    BY BoundsAssumption DEF ApprovalInv, TypeOK, TapsInv, CardsInv, WaitingInv, Pending, Calls, Taps, Rows
  <2>. QED
    BY <2>1, <2>2, <2>3, <2>4, <2>5 DEF TypeOK
<1>2. HeldHasHolder'
  <2>1. SUFFICES ASSUME NEW h \in held' PROVE \E d \in Call : HoldsOn(d, h)'
    BY DEF HeldHasHolder
  <2>2. h \in held => \E d \in Call : HoldsOn(d, h)
    BY DEF ApprovalInv, HeldHasHolder
  <2>. QED
    BY <2>1, <2>2 DEF ApprovalInv, TypeOK, HoldsOn, Calls
<1>3. CardsInv'
  BY DEF ApprovalInv, TypeOK, CardsInv, TapsInv, RanInv, WaitingInv, Pending, Rows, Taps, Calls
<1>7. TapsInv'
  BY DEF ApprovalInv, TypeOK, TapsInv, WaitingInv, Pending, Rows, Taps, Calls
<1>4. WaitingInv'
  BY DEF ApprovalInv, TypeOK, WaitingInv, Pending, Rows, Calls, Idle, TapsInv
<1>5. RanInv' /\ OneYesOneRun' /\ OnceIsSpent'
  <2>1. RanInv'
    BY DEF ApprovalInv, TypeOK, RanInv, CardsInv, WaitingInv, Pending, TapsInv, Rows, Calls, Taps, Idle
  <2>2. OneYesOneRun'
    <3>1. \A d \in Call \ {c} : call'[d] = call[d]
      BY DEF ApprovalInv, TypeOK
    <3>2. ASSUME NEW d \in Call \ {c}, NEW j \in Card, Ran(c, j)', Ran(d, j)',
                 kind' = "confirm" \/ (call'[c].how # "hold" /\ call'[d].how # "hold")
          PROVE  FALSE
      <4>1. Ran(d, j) /\ (kind = "confirm" => row[j].used)
        BY <3>1, <3>2 DEF Ran, ApprovalInv, RanInv
      <4>2. kind = "confirm" => ~row[j].used
        BY <3>2 DEF Ran, ApprovalInv, TypeOK, Calls
      <4>. QED
        BY <3>1, <3>2, <4>1, <4>2 DEF ApprovalInv, TypeOK, RanInv, Ran, Calls
    <3>3. ASSUME NEW d \in Call, NEW e \in Call, NEW j \in Card, Ran(d, j)', Ran(e, j)',
                 kind' = "confirm" \/ (call'[d].how # "hold" /\ call'[e].how # "hold")
          PROVE  d = e
      <4>1. kind' = kind
        OBVIOUS
      <4>. QED
        BY <3>1, <3>2, <3>3, <4>1 DEF ApprovalInv, OneYesOneRun, Ran
    <3>4. ASSUME NEW d \in Call, NEW j \in Card, Ran(d, j)', kind' # "channels"
          PROVE  row'[j].st = "approved" /\ row'[j].pay = call'[d].pay
      BY <2>1, <3>4 DEF RanInv, Ran
    <3>. QED
      BY <3>3, <3>4 DEF OneYesOneRun
  <2>3. OnceIsSpent'
    BY DEF ApprovalInv, TypeOK, RanInv, OnceIsSpent, Ran, Pending, Rows, Calls, Idle
  <2>. QED
    BY <2>1, <2>2, <2>3
<1>6. AnswerReaches'
  BY DEF ApprovalInv, TypeOK, HeldHasHolder, AnswerReaches, Answered, HoldsOn, Pending, Rows, Calls, Idle, TapsInv, Taps
<1>. QED
  BY <1>1, <1>2, <1>3, <1>4, <1>5, <1>6, <1>7 DEF ApprovalInv

\* What is always allowed runs on no card.
LEMMA AllowedKeeps ==
    ASSUME ApprovalInv, NEW c \in Call, NEW p \in Payload, GateAllowed(c, p)
    PROVE  ApprovalInv'
<1>. USE DEF GateAllowed, Makes, Runs
<1>1. TypeOK'
  <2>1. row' \in [Card -> Rows]
    BY DEF ApprovalInv, TypeOK, TapsInv, WaitingInv, Rows, Taps
  <2>2. call' \in [Call -> Calls]
    BY DEF ApprovalInv, TypeOK, TapsInv, Calls, Taps, Idle
  <2>3. tap' \in [Tap -> Taps]
    BY DEF ApprovalInv, TypeOK, TapsInv, Taps
  <2>4. /\ kind' \in Kinds /\ held' \in SUBSET Card /\ grants' \in SUBSET Card
        /\ reached' \in SUBSET Card /\ missed' \in SUBSET Card
    BY DEF ApprovalInv, TypeOK, TapsInv, WaitingInv, Calls, Taps, Rows
  <2>5. allowed' \in SUBSET Payload /\ resets' \in 0 .. MaxResets
    BY BoundsAssumption DEF ApprovalInv, TypeOK, TapsInv, CardsInv, WaitingInv, Pending, Calls, Taps, Rows
  <2>. QED
    BY <2>1, <2>2, <2>3, <2>4, <2>5 DEF TypeOK
<1>2. HeldHasHolder'
  <2>1. SUFFICES ASSUME NEW h \in held' PROVE \E d \in Call : HoldsOn(d, h)'
    BY DEF HeldHasHolder
  <2>2. h \in held => \E d \in Call : HoldsOn(d, h)
    BY DEF ApprovalInv, HeldHasHolder
  <2>. QED
    BY <2>1, <2>2 DEF ApprovalInv, TypeOK, HoldsOn, Calls
<1>3. CardsInv'
  BY DEF ApprovalInv, TypeOK, CardsInv, TapsInv, RanInv, WaitingInv, Pending, Rows, Taps, Calls
<1>7. TapsInv'
  BY DEF ApprovalInv, TypeOK, TapsInv, WaitingInv, Pending, Rows, Taps, Calls
<1>4. WaitingInv'
  BY DEF ApprovalInv, TypeOK, WaitingInv, Pending, Rows, Calls, Idle, TapsInv
<1>5. RanInv' /\ OneYesOneRun' /\ OnceIsSpent'
  <2>1. RanInv'
    BY DEF ApprovalInv, TypeOK, RanInv, CardsInv, WaitingInv, Pending, TapsInv, Rows, Calls, Taps, Idle
  <2>2. OneYesOneRun'
    <3>1. \A d \in Call \ {c} : call'[d] = call[d]
      BY DEF ApprovalInv, TypeOK
    <3>2. ASSUME NEW d \in Call \ {c}, NEW j \in Card, Ran(c, j)', Ran(d, j)',
                 kind' = "confirm" \/ (call'[c].how # "hold" /\ call'[d].how # "hold")
          PROVE  FALSE
      <4>1. Ran(d, j) /\ (kind = "confirm" => row[j].used)
        BY <3>1, <3>2 DEF Ran, ApprovalInv, RanInv
      <4>2. kind = "confirm" => ~row[j].used
        BY <3>2 DEF Ran, ApprovalInv, TypeOK, Calls
      <4>. QED
        BY <3>1, <3>2, <4>1, <4>2 DEF ApprovalInv, TypeOK, RanInv, Ran, Calls
    <3>3. ASSUME NEW d \in Call, NEW e \in Call, NEW j \in Card, Ran(d, j)', Ran(e, j)',
                 kind' = "confirm" \/ (call'[d].how # "hold" /\ call'[e].how # "hold")
          PROVE  d = e
      <4>1. kind' = kind
        OBVIOUS
      <4>. QED
        BY <3>1, <3>2, <3>3, <4>1 DEF ApprovalInv, OneYesOneRun, Ran
    <3>4. ASSUME NEW d \in Call, NEW j \in Card, Ran(d, j)', kind' # "channels"
          PROVE  row'[j].st = "approved" /\ row'[j].pay = call'[d].pay
      BY <2>1, <3>4 DEF RanInv, Ran
    <3>. QED
      BY <3>3, <3>4 DEF OneYesOneRun
  <2>3. OnceIsSpent'
    BY DEF ApprovalInv, TypeOK, RanInv, OnceIsSpent, Ran, Pending, Rows, Calls, Idle
  <2>. QED
    BY <2>1, <2>2, <2>3
<1>6. AnswerReaches'
  BY DEF ApprovalInv, TypeOK, HeldHasHolder, AnswerReaches, Answered, HoldsOn, Pending, Rows, Calls, Idle, TapsInv, Taps
<1>. QED
  BY <1>1, <1>2, <1>3, <1>4, <1>5, <1>6, <1>7 DEF ApprovalInv

\* A call that asks holds on a pending card.
LEMMA AskKeeps ==
    ASSUME ApprovalInv, NEW c \in Call, NEW p \in Payload, Ask(c, p)
    PROVE  ApprovalInv'
<1>. USE DEF Ask, Makes, CardFor, Shared, Unused
<1>1. TypeOK'
  <2>1. row' \in [Card -> Rows]
    BY DEF ApprovalInv, TypeOK, TapsInv, WaitingInv, Rows, Taps
  <2>2. call' \in [Call -> Calls]
    BY DEF ApprovalInv, TypeOK, TapsInv, Calls, Taps, Idle
  <2>3. tap' \in [Tap -> Taps]
    BY DEF ApprovalInv, TypeOK, TapsInv, Taps
  <2>4. /\ kind' \in Kinds /\ held' \in SUBSET Card /\ grants' \in SUBSET Card
        /\ reached' \in SUBSET Card /\ missed' \in SUBSET Card
    BY DEF ApprovalInv, TypeOK, TapsInv, WaitingInv, Calls, Taps, Rows
  <2>5. allowed' \in SUBSET Payload /\ resets' \in 0 .. MaxResets
    BY BoundsAssumption DEF ApprovalInv, TypeOK, TapsInv, CardsInv, WaitingInv, Pending, Calls, Taps, Rows
  <2>. QED
    BY <2>1, <2>2, <2>3, <2>4, <2>5 DEF TypeOK
<1>2. HeldHasHolder'
  <2>1. SUFFICES ASSUME NEW h \in held' PROVE \E d \in Call : HoldsOn(d, h)'
    BY DEF HeldHasHolder
  <2>2. h \in held => \E d \in Call : HoldsOn(d, h)
    BY DEF ApprovalInv, HeldHasHolder
  <2>. QED
    BY <2>1, <2>2 DEF ApprovalInv, TypeOK, HoldsOn, Calls
<1>3. CardsInv'
  BY DEF ApprovalInv, TypeOK, CardsInv, TapsInv, RanInv, WaitingInv, Pending, Rows, Taps, Calls
<1>7. TapsInv'
  BY DEF ApprovalInv, TypeOK, TapsInv, WaitingInv, Pending, Rows, Taps, Calls
<1>4. WaitingInv'
  BY DEF ApprovalInv, TypeOK, WaitingInv, Pending, Rows, Calls, Idle, TapsInv
<1>5. RanInv' /\ OneYesOneRun' /\ OnceIsSpent'
  <2>1. NobodyRuns /\ AnswersStay
    <3>1. PICK k \in Card, live \in BOOLEAN : CardFor(k, p) /\ Ask(c, p)!3!(k, live)
      OBVIOUS
    <3>2. Pending(k) \/ row[k].st = "none"
      BY <3>1 DEF Pending
    <3>3. NobodyRuns
      BY <3>1 DEF ApprovalInv, TypeOK, NobodyRuns, Calls
    <3>4. AnswersStay
      BY <3>1, <3>2 DEF ApprovalInv, TypeOK, AnswersStay, Pending, Rows
    <3>. QED
      BY <3>3, <3>4
  <2>2. kind' = kind /\ \A j \in Card : j \in grants' => j \in grants \/ Pending(j)
    BY DEF ApprovalInv, TypeOK, Pending
  <2>. QED
    BY <2>1, <2>2, NobodyMore
<1>6. AnswerReaches'
  BY DEF ApprovalInv, TypeOK, HeldHasHolder, AnswerReaches, Answered, HoldsOn, Pending, Rows, Calls, Idle, TapsInv, Taps
<1>. QED
  BY <1>1, <1>2, <1>3, <1>4, <1>5, <1>6, <1>7 DEF ApprovalInv

\* A hold that reads the answer of its card, or lets go of it.
LEMMA ReadKeeps ==
    ASSUME ApprovalInv, NEW c \in Call, call[c].pc \in {"texting", "holding"}, ReadAnswer(c)
    PROVE  ApprovalInv'
<1>. USE DEF ReadAnswer, LetsRun, Runs, NotNow
<1>1. TypeOK'
  <2>1. row' \in [Card -> Rows]
    <3>. DEFINE k0 == call[c].card
                r0 == [row[k0] EXCEPT !.used = TRUE]
    <3>1. k0 \in Card
      BY DEF ApprovalInv, WaitingInv
    <3>2. r0 \in Rows
      BY <3>1, RowTyped DEF ApprovalInv, TypeOK
    <3>3. row' = [row EXCEPT ![k0] = r0] \/ row' = row
      BY Zenon
    <3>. QED
      BY <3>1, <3>2, <3>3 DEF ApprovalInv, TypeOK
  <2>2. call' \in [Call -> Calls]
    BY DEF ApprovalInv, TypeOK, TapsInv, Calls, Taps, Idle
  <2>3. tap' \in [Tap -> Taps]
    BY DEF ApprovalInv, TypeOK, TapsInv, Taps
  <2>4. /\ kind' \in Kinds /\ held' \in SUBSET Card /\ grants' \in SUBSET Card
        /\ reached' \in SUBSET Card /\ missed' \in SUBSET Card
    BY DEF ApprovalInv, TypeOK, TapsInv, WaitingInv, Calls, Taps, Rows
  <2>5. allowed' \in SUBSET Payload /\ resets' \in 0 .. MaxResets
    BY BoundsAssumption DEF ApprovalInv, TypeOK, TapsInv, CardsInv, WaitingInv, Pending, Calls, Taps, Rows
  <2>. QED
    BY <2>1, <2>2, <2>3, <2>4, <2>5 DEF TypeOK
<1>2. HeldHasHolder'
  <2>1. SUFFICES ASSUME NEW h \in held' PROVE \E d \in Call : HoldsOn(d, h)'
    BY DEF HeldHasHolder
  <2>2. h \in held => \E d \in Call : HoldsOn(d, h)
    BY DEF ApprovalInv, HeldHasHolder
  <2>. QED
    BY <2>1, <2>2 DEF ApprovalInv, TypeOK, HoldsOn, Calls
<1>3. CardsInv'
  BY DEF ApprovalInv, TypeOK, CardsInv, TapsInv, RanInv, WaitingInv, Pending, Rows, Taps, Calls
<1>7. TapsInv'
  BY DEF ApprovalInv, TypeOK, TapsInv, WaitingInv, Pending, Rows, Taps, Calls
<1>4. WaitingInv'
  BY DEF ApprovalInv, TypeOK, WaitingInv, Pending, Rows, Calls, Idle, TapsInv
<1>5. RanInv' /\ OneYesOneRun' /\ OnceIsSpent'
  <2>1. RanInv'
    BY DEF ApprovalInv, TypeOK, RanInv, CardsInv, WaitingInv, Pending, TapsInv, Rows, Calls, Taps, Idle
  <2>2. OneYesOneRun'
    <3>1. \A d \in Call \ {c} : call'[d] = call[d]
      BY DEF ApprovalInv, TypeOK
    <3>2. ASSUME NEW d \in Call \ {c}, NEW j \in Card, Ran(c, j)', Ran(d, j)',
                 kind' = "confirm" \/ (call'[c].how # "hold" /\ call'[d].how # "hold")
          PROVE  FALSE
      <4>1. Ran(d, j) /\ (kind = "confirm" => row[j].used)
        BY <3>1, <3>2 DEF Ran, ApprovalInv, RanInv
      <4>2. kind = "confirm" => ~row[j].used
        <5>1. LetsRun(call[c].card) /\ j = call[c].card
          <6>1. CASE LetsRun(call[c].card)
            BY <3>2, <6>1 DEF Ran, ApprovalInv, TypeOK
          <6>2. CASE ~LetsRun(call[c].card)
            BY <3>2, <6>2 DEF Ran, ApprovalInv, TypeOK, Idle
          <6>. QED
            BY <6>1, <6>2
        <5>. QED
          BY <5>1
      <4>3. kind # "confirm" => call'[c].how = "hold"
        BY <3>2 DEF Ran, ApprovalInv, TypeOK, Idle
      <4>. QED
        BY <3>1, <3>2, <4>1, <4>2, <4>3 DEF ApprovalInv, TypeOK, RanInv, Ran, Calls
    <3>3. ASSUME NEW d \in Call, NEW e \in Call, NEW j \in Card, Ran(d, j)', Ran(e, j)',
                 kind' = "confirm" \/ (call'[d].how # "hold" /\ call'[e].how # "hold")
          PROVE  d = e
      <4>1. kind' = kind
        OBVIOUS
      <4>. QED
        BY <3>1, <3>2, <3>3, <4>1 DEF ApprovalInv, OneYesOneRun, Ran
    <3>4. ASSUME NEW d \in Call, NEW j \in Card, Ran(d, j)', kind' # "channels"
          PROVE  row'[j].st = "approved" /\ row'[j].pay = call'[d].pay
      BY <2>1, <3>4 DEF RanInv, Ran
    <3>. QED
      BY <3>3, <3>4 DEF OneYesOneRun
  <2>3. OnceIsSpent'
    BY DEF ApprovalInv, TypeOK, RanInv, OnceIsSpent, Ran, Pending, Rows, Calls, Idle
  <2>. QED
    BY <2>1, <2>2, <2>3
<1>6. AnswerReaches'
  BY DEF ApprovalInv, TypeOK, HeldHasHolder, AnswerReaches, Answered, HoldsOn, Pending, Rows, Calls, Idle, TapsInv, Taps
<1>. QED
  BY <1>1, <1>2, <1>3, <1>4, <1>5, <1>6, <1>7 DEF ApprovalInv

\* The text went out and nobody answered yet: the call holds.
LEMMA SentKeeps ==
    ASSUME ApprovalInv, NEW c \in Call, call[c].pc = "texting", Hold(c)
    PROVE  ApprovalInv'
<1>. USE DEF Hold
<1>1. TypeOK'
  <2>1. row' \in [Card -> Rows]
    BY DEF ApprovalInv, TypeOK, TapsInv, WaitingInv, Rows, Taps
  <2>2. call' \in [Call -> Calls]
    BY DEF ApprovalInv, TypeOK, TapsInv, Calls, Taps, Idle
  <2>3. tap' \in [Tap -> Taps]
    BY DEF ApprovalInv, TypeOK, TapsInv, Taps
  <2>4. /\ kind' \in Kinds /\ held' \in SUBSET Card /\ grants' \in SUBSET Card
        /\ reached' \in SUBSET Card /\ missed' \in SUBSET Card
    BY DEF ApprovalInv, TypeOK, TapsInv, WaitingInv, Calls, Taps, Rows
  <2>5. allowed' \in SUBSET Payload /\ resets' \in 0 .. MaxResets
    BY BoundsAssumption DEF ApprovalInv, TypeOK, TapsInv, CardsInv, WaitingInv, Pending, Calls, Taps, Rows
  <2>. QED
    BY <2>1, <2>2, <2>3, <2>4, <2>5 DEF TypeOK
<1>2. HeldHasHolder'
  <2>1. SUFFICES ASSUME NEW h \in held' PROVE \E d \in Call : HoldsOn(d, h)'
    BY DEF HeldHasHolder
  <2>2. h \in held => \E d \in Call : HoldsOn(d, h)
    BY DEF ApprovalInv, HeldHasHolder
  <2>. QED
    BY <2>1, <2>2 DEF ApprovalInv, TypeOK, HoldsOn, Calls
<1>3. CardsInv'
  BY DEF ApprovalInv, TypeOK, CardsInv, TapsInv, RanInv, WaitingInv, Pending, Rows, Taps, Calls
<1>7. TapsInv'
  BY DEF ApprovalInv, TypeOK, TapsInv, WaitingInv, Pending, Rows, Taps, Calls
<1>4. WaitingInv'
  BY DEF ApprovalInv, TypeOK, WaitingInv, Pending, Rows, Calls, Idle, TapsInv
<1>5. RanInv' /\ OneYesOneRun' /\ OnceIsSpent'
  <2>1. NobodyRuns /\ AnswersStay
    BY DEF ApprovalInv, TypeOK, NobodyRuns, AnswersStay, TapsInv, Pending, Rows, Calls, Taps, Idle
  <2>2. kind' = kind /\ \A j \in Card : j \in grants' => j \in grants \/ Pending(j)
    BY DEF ApprovalInv, TypeOK, Pending
  <2>. QED
    BY <2>1, <2>2, NobodyMore
<1>6. AnswerReaches'
  BY DEF ApprovalInv, TypeOK, HeldHasHolder, AnswerReaches, Answered, HoldsOn, Pending, Rows, Calls, Idle, TapsInv, Taps
<1>. QED
  BY <1>1, <1>2, <1>3, <1>4, <1>5, <1>6, <1>7 DEF ApprovalInv

\* A text that did not go out leaves the card to a later answer.
LEMMA FailedKeeps ==
    ASSUME ApprovalInv, NEW c \in Call, TextFailed(c)
    PROVE  ApprovalInv'
<1>. USE DEF TextFailed, NotNow
<1>1. TypeOK'
  <2>1. row' \in [Card -> Rows]
    BY DEF ApprovalInv, TypeOK, TapsInv, WaitingInv, Rows, Taps
  <2>2. call' \in [Call -> Calls]
    BY DEF ApprovalInv, TypeOK, TapsInv, Calls, Taps, Idle
  <2>3. tap' \in [Tap -> Taps]
    BY DEF ApprovalInv, TypeOK, TapsInv, Taps
  <2>4. /\ kind' \in Kinds /\ held' \in SUBSET Card /\ grants' \in SUBSET Card
        /\ reached' \in SUBSET Card /\ missed' \in SUBSET Card
    BY DEF ApprovalInv, TypeOK, TapsInv, WaitingInv, Calls, Taps, Rows
  <2>5. allowed' \in SUBSET Payload /\ resets' \in 0 .. MaxResets
    BY BoundsAssumption DEF ApprovalInv, TypeOK, TapsInv, CardsInv, WaitingInv, Pending, Calls, Taps, Rows
  <2>. QED
    BY <2>1, <2>2, <2>3, <2>4, <2>5 DEF TypeOK
<1>2. HeldHasHolder'
  <2>1. SUFFICES ASSUME NEW h \in held' PROVE \E d \in Call : HoldsOn(d, h)'
    BY DEF HeldHasHolder
  <2>2. h \in held => \E d \in Call : HoldsOn(d, h)
    BY DEF ApprovalInv, HeldHasHolder
  <2>. QED
    BY <2>1, <2>2 DEF ApprovalInv, TypeOK, HoldsOn, Calls
<1>3. CardsInv'
  BY DEF ApprovalInv, TypeOK, CardsInv, TapsInv, RanInv, WaitingInv, Pending, Rows, Taps, Calls
<1>7. TapsInv'
  BY DEF ApprovalInv, TypeOK, TapsInv, WaitingInv, Pending, Rows, Taps, Calls
<1>4. WaitingInv'
  BY DEF ApprovalInv, TypeOK, WaitingInv, Pending, Rows, Calls, Idle, TapsInv
<1>5. RanInv' /\ OneYesOneRun' /\ OnceIsSpent'
  <2>1. NobodyRuns /\ AnswersStay
    BY DEF ApprovalInv, TypeOK, NobodyRuns, AnswersStay, TapsInv, Pending, Rows, Calls, Taps, Idle
  <2>2. kind' = kind /\ \A j \in Card : j \in grants' => j \in grants \/ Pending(j)
    BY DEF ApprovalInv, TypeOK, Pending
  <2>. QED
    BY <2>1, <2>2, NobodyMore
<1>6. AnswerReaches'
  BY DEF ApprovalInv, TypeOK, HeldHasHolder, AnswerReaches, Answered, HoldsOn, Pending, Rows, Calls, Idle, TapsInv, Taps
<1>. QED
  BY <1>1, <1>2, <1>3, <1>4, <1>5, <1>6, <1>7 DEF ApprovalInv

\* The end of a hold: the answer it may miss is noted.
LEMMA EndsKeeps ==
    ASSUME ApprovalInv, NEW c \in Call, HoldEnds(c)
    PROVE  ApprovalInv'
<1>. USE DEF HoldEnds, NotNow, Answered
<1>1. TypeOK'
  <2>1. row' \in [Card -> Rows]
    BY DEF ApprovalInv, TypeOK, TapsInv, WaitingInv, Rows, Taps
  <2>2. call' \in [Call -> Calls]
    BY DEF ApprovalInv, TypeOK, TapsInv, Calls, Taps, Idle
  <2>3. tap' \in [Tap -> Taps]
    BY DEF ApprovalInv, TypeOK, TapsInv, Taps
  <2>4. /\ kind' \in Kinds /\ held' \in SUBSET Card /\ grants' \in SUBSET Card
        /\ reached' \in SUBSET Card /\ missed' \in SUBSET Card
    BY DEF ApprovalInv, TypeOK, TapsInv, WaitingInv, Calls, Taps, Rows
  <2>5. allowed' \in SUBSET Payload /\ resets' \in 0 .. MaxResets
    BY BoundsAssumption DEF ApprovalInv, TypeOK, TapsInv, CardsInv, WaitingInv, Pending, Calls, Taps, Rows
  <2>. QED
    BY <2>1, <2>2, <2>3, <2>4, <2>5 DEF TypeOK
<1>2. HeldHasHolder'
  <2>1. SUFFICES ASSUME NEW h \in held' PROVE \E d \in Call : HoldsOn(d, h)'
    BY DEF HeldHasHolder
  <2>2. h \in held => \E d \in Call : HoldsOn(d, h)
    BY DEF ApprovalInv, HeldHasHolder
  <2>. QED
    BY <2>1, <2>2 DEF ApprovalInv, TypeOK, HoldsOn, Calls
<1>3. CardsInv'
  BY DEF ApprovalInv, TypeOK, CardsInv, TapsInv, RanInv, WaitingInv, Pending, Rows, Taps, Calls
<1>7. TapsInv'
  BY DEF ApprovalInv, TypeOK, TapsInv, WaitingInv, Pending, Rows, Taps, Calls
<1>4. WaitingInv'
  BY DEF ApprovalInv, TypeOK, WaitingInv, Pending, Rows, Calls, Idle, TapsInv
<1>5. RanInv' /\ OneYesOneRun' /\ OnceIsSpent'
  <2>1. NobodyRuns /\ AnswersStay
    BY DEF ApprovalInv, TypeOK, NobodyRuns, AnswersStay, TapsInv, Pending, Rows, Calls, Taps, Idle
  <2>2. kind' = kind /\ \A j \in Card : j \in grants' => j \in grants \/ Pending(j)
    BY DEF ApprovalInv, TypeOK, Pending
  <2>. QED
    BY <2>1, <2>2, NobodyMore
<1>6. AnswerReaches'
  BY DEF ApprovalInv, TypeOK, HeldHasHolder, AnswerReaches, Answered, HoldsOn, Pending, Rows, Calls, Idle, TapsInv, Taps
<1>. QED
  BY <1>1, <1>2, <1>3, <1>4, <1>5, <1>6, <1>7 DEF ApprovalInv

\* A tap on a confirm card past its time.
LEMMA TooLateKeeps ==
    ASSUME ApprovalInv, NEW x \in Tap, NEW k \in Card, TapTooLate(x, k)
    PROVE  ApprovalInv'
<1>. USE DEF TapTooLate, CanAnswer, Spend, Tell
<1>1. TypeOK'
  <2>1. row' \in [Card -> Rows]
    BY DEF ApprovalInv, TypeOK, TapsInv, WaitingInv, Rows, Taps
  <2>2. call' \in [Call -> Calls]
    BY DEF ApprovalInv, TypeOK, TapsInv, Calls, Taps, Idle
  <2>3. tap' \in [Tap -> Taps]
    BY DEF ApprovalInv, TypeOK, TapsInv, Taps
  <2>4. /\ kind' \in Kinds /\ held' \in SUBSET Card /\ grants' \in SUBSET Card
        /\ reached' \in SUBSET Card /\ missed' \in SUBSET Card
    BY DEF ApprovalInv, TypeOK, TapsInv, WaitingInv, Calls, Taps, Rows
  <2>5. allowed' \in SUBSET Payload /\ resets' \in 0 .. MaxResets
    BY BoundsAssumption DEF ApprovalInv, TypeOK, TapsInv, CardsInv, WaitingInv, Pending, Calls, Taps, Rows
  <2>. QED
    BY <2>1, <2>2, <2>3, <2>4, <2>5 DEF TypeOK
<1>2. HeldHasHolder'
  <2>1. SUFFICES ASSUME NEW h \in held' PROVE \E d \in Call : HoldsOn(d, h)'
    BY DEF HeldHasHolder
  <2>2. h \in held => \E d \in Call : HoldsOn(d, h)
    BY DEF ApprovalInv, HeldHasHolder
  <2>. QED
    BY <2>1, <2>2 DEF ApprovalInv, TypeOK, HoldsOn, Calls
<1>3. CardsInv'
  BY DEF ApprovalInv, TypeOK, CardsInv, TapsInv, RanInv, WaitingInv, Pending, Rows, Taps, Calls
<1>7. TapsInv'
  BY DEF ApprovalInv, TypeOK, TapsInv, WaitingInv, Pending, Rows, Taps, Calls
<1>4. WaitingInv'
  BY DEF ApprovalInv, TypeOK, WaitingInv, Pending, Rows, Calls, Idle, TapsInv
<1>5. RanInv' /\ OneYesOneRun' /\ OnceIsSpent'
  <2>1. NobodyRuns /\ AnswersStay
    BY DEF ApprovalInv, TypeOK, NobodyRuns, AnswersStay, TapsInv, Pending, Rows, Calls, Taps, Idle
  <2>2. kind' = kind /\ \A j \in Card : j \in grants' => j \in grants \/ Pending(j)
    BY DEF ApprovalInv, TypeOK, Pending
  <2>. QED
    BY <2>1, <2>2, NobodyMore
<1>6. AnswerReaches'
  BY DEF ApprovalInv, TypeOK, HeldHasHolder, AnswerReaches, Answered, HoldsOn, Pending, Rows, Calls, Idle, TapsInv, Taps
<1>. QED
  BY <1>1, <1>2, <1>3, <1>4, <1>5, <1>6, <1>7 DEF ApprovalInv

\* A no is carried to the task unless a call holds on the card.
LEMMA NoKeeps ==
    ASSUME ApprovalInv, NEW x \in Tap, NEW k \in Card, TapNo(x, k)
    PROVE  ApprovalInv'
<1>. USE DEF TapNo, CanAnswer, Spend, Tell
<1>1. TypeOK'
  <2>1. row' \in [Card -> Rows]
    <3>. DEFINE k0 == k
                r0 == [row[k0] EXCEPT !.st = "denied", !.dec = "no"]
    <3>1. k0 \in Card
      BY DEF ApprovalInv, TapsInv
    <3>2. r0 \in Rows
      BY <3>1, RowTyped DEF ApprovalInv, TypeOK
    <3>3. row' = [row EXCEPT ![k0] = r0]
      BY Zenon
    <3>. QED
      BY <3>1, <3>2, <3>3 DEF ApprovalInv, TypeOK
  <2>2. call' \in [Call -> Calls]
    BY DEF ApprovalInv, TypeOK, TapsInv, Calls, Taps, Idle
  <2>3. tap' \in [Tap -> Taps]
    BY DEF ApprovalInv, TypeOK, TapsInv, Taps
  <2>4. /\ kind' \in Kinds /\ held' \in SUBSET Card /\ grants' \in SUBSET Card
        /\ reached' \in SUBSET Card /\ missed' \in SUBSET Card
    BY DEF ApprovalInv, TypeOK, TapsInv, WaitingInv, Calls, Taps, Rows
  <2>5. allowed' \in SUBSET Payload /\ resets' \in 0 .. MaxResets
    BY BoundsAssumption DEF ApprovalInv, TypeOK, TapsInv, CardsInv, WaitingInv, Pending, Calls, Taps, Rows
  <2>. QED
    BY <2>1, <2>2, <2>3, <2>4, <2>5 DEF TypeOK
<1>2. HeldHasHolder'
  <2>1. SUFFICES ASSUME NEW h \in held' PROVE \E d \in Call : HoldsOn(d, h)'
    BY DEF HeldHasHolder
  <2>2. h \in held => \E d \in Call : HoldsOn(d, h)
    BY DEF ApprovalInv, HeldHasHolder
  <2>. QED
    BY <2>1, <2>2 DEF ApprovalInv, TypeOK, HoldsOn, Calls
<1>3. CardsInv'
  BY DEF ApprovalInv, TypeOK, CardsInv, TapsInv, RanInv, WaitingInv, Pending, Rows, Taps, Calls
<1>7. TapsInv'
  BY DEF ApprovalInv, TypeOK, TapsInv, WaitingInv, Pending, Rows, Taps, Calls
<1>4. WaitingInv'
  BY DEF ApprovalInv, TypeOK, WaitingInv, Pending, Rows, Calls, Idle, TapsInv
<1>5. RanInv' /\ OneYesOneRun' /\ OnceIsSpent'
  <2>1. NobodyRuns /\ AnswersStay
    BY DEF ApprovalInv, TypeOK, NobodyRuns, AnswersStay, TapsInv, Pending, Rows, Calls, Taps, Idle
  <2>2. kind' = kind /\ \A j \in Card : j \in grants' => j \in grants \/ Pending(j)
    BY DEF ApprovalInv, TypeOK, Pending
  <2>. QED
    BY <2>1, <2>2, NobodyMore
<1>6. AnswerReaches'
  BY DEF ApprovalInv, TypeOK, HeldHasHolder, AnswerReaches, Answered, HoldsOn, Pending, Rows, Calls, Idle, TapsInv, Taps
<1>. QED
  BY <1>1, <1>2, <1>3, <1>4, <1>5, <1>6, <1>7 DEF ApprovalInv

\* So is a yes; a grant goes to a card that was pending.
LEMMA OnceKeeps ==
    ASSUME ApprovalInv, NEW x \in Tap, NEW k \in Card, TapOnce(x, k)
    PROVE  ApprovalInv'
<1>. USE DEF TapOnce, CanAnswer, Spend, Tell
<1>1. TypeOK'
  <2>1. row' \in [Card -> Rows]
    <3>. DEFINE k0 == k
                r0 == [row[k0] EXCEPT !.st = "approved", !.dec = "once", !.old = FALSE]
    <3>1. k0 \in Card
      BY DEF ApprovalInv, TapsInv
    <3>2. r0 \in Rows
      BY <3>1, RowTyped DEF ApprovalInv, TypeOK
    <3>3. row' = [row EXCEPT ![k0] = r0]
      BY Zenon
    <3>. QED
      BY <3>1, <3>2, <3>3 DEF ApprovalInv, TypeOK
  <2>2. call' \in [Call -> Calls]
    BY DEF ApprovalInv, TypeOK, TapsInv, Calls, Taps, Idle
  <2>3. tap' \in [Tap -> Taps]
    BY DEF ApprovalInv, TypeOK, TapsInv, Taps
  <2>4. /\ kind' \in Kinds /\ held' \in SUBSET Card /\ grants' \in SUBSET Card
        /\ reached' \in SUBSET Card /\ missed' \in SUBSET Card
    BY DEF ApprovalInv, TypeOK, TapsInv, WaitingInv, Calls, Taps, Rows
  <2>5. allowed' \in SUBSET Payload /\ resets' \in 0 .. MaxResets
    BY BoundsAssumption DEF ApprovalInv, TypeOK, TapsInv, CardsInv, WaitingInv, Pending, Calls, Taps, Rows
  <2>. QED
    BY <2>1, <2>2, <2>3, <2>4, <2>5 DEF TypeOK
<1>2. HeldHasHolder'
  <2>1. SUFFICES ASSUME NEW h \in held' PROVE \E d \in Call : HoldsOn(d, h)'
    BY DEF HeldHasHolder
  <2>2. h \in held => \E d \in Call : HoldsOn(d, h)
    BY DEF ApprovalInv, HeldHasHolder
  <2>. QED
    BY <2>1, <2>2 DEF ApprovalInv, TypeOK, HoldsOn, Calls
<1>3. CardsInv'
  BY DEF ApprovalInv, TypeOK, CardsInv, TapsInv, RanInv, WaitingInv, Pending, Rows, Taps, Calls
<1>7. TapsInv'
  BY DEF ApprovalInv, TypeOK, TapsInv, WaitingInv, Pending, Rows, Taps, Calls
<1>4. WaitingInv'
  BY DEF ApprovalInv, TypeOK, WaitingInv, Pending, Rows, Calls, Idle, TapsInv
<1>5. RanInv' /\ OneYesOneRun' /\ OnceIsSpent'
  <2>1. NobodyRuns /\ AnswersStay
    BY DEF ApprovalInv, TypeOK, NobodyRuns, AnswersStay, TapsInv, Pending, Rows, Calls, Taps, Idle
  <2>2. kind' = kind /\ \A j \in Card : j \in grants' => j \in grants \/ Pending(j)
    BY DEF ApprovalInv, TypeOK, Pending
  <2>. QED
    BY <2>1, <2>2, NobodyMore
<1>6. AnswerReaches'
  BY DEF ApprovalInv, TypeOK, HeldHasHolder, AnswerReaches, Answered, HoldsOn, Pending, Rows, Calls, Idle, TapsInv, Taps
<1>. QED
  BY <1>1, <1>2, <1>3, <1>4, <1>5, <1>6, <1>7 DEF ApprovalInv

\* A site that is allowed from now on.
LEMMA SiteKeeps ==
    ASSUME ApprovalInv, NEW x \in Tap, NEW k \in Card, TapSite(x, k)
    PROVE  ApprovalInv'
<1>. USE DEF TapSite, CanAnswer, Spend, Tell
<1>1. TypeOK'
  <2>1. row' \in [Card -> Rows]
    <3>. DEFINE k0 == k
                r0 == [row[k0] EXCEPT !.st = "approved", !.dec = "always", !.old = FALSE]
    <3>1. k0 \in Card
      BY DEF ApprovalInv, TapsInv
    <3>2. r0 \in Rows
      BY <3>1, RowTyped DEF ApprovalInv, TypeOK
    <3>3. row' = [row EXCEPT ![k0] = r0]
      BY Zenon
    <3>. QED
      BY <3>1, <3>2, <3>3 DEF ApprovalInv, TypeOK
  <2>2. call' \in [Call -> Calls]
    BY DEF ApprovalInv, TypeOK, TapsInv, Calls, Taps, Idle
  <2>3. tap' \in [Tap -> Taps]
    BY DEF ApprovalInv, TypeOK, TapsInv, Taps
  <2>4. /\ kind' \in Kinds /\ held' \in SUBSET Card /\ grants' \in SUBSET Card
        /\ reached' \in SUBSET Card /\ missed' \in SUBSET Card
    BY DEF ApprovalInv, TypeOK, TapsInv, WaitingInv, Calls, Taps, Rows
  <2>5. allowed' \in SUBSET Payload /\ resets' \in 0 .. MaxResets
    BY BoundsAssumption DEF ApprovalInv, TypeOK, TapsInv, CardsInv, WaitingInv, Pending, Calls, Taps, Rows
  <2>. QED
    BY <2>1, <2>2, <2>3, <2>4, <2>5 DEF TypeOK
<1>2. HeldHasHolder'
  <2>1. SUFFICES ASSUME NEW h \in held' PROVE \E d \in Call : HoldsOn(d, h)'
    BY DEF HeldHasHolder
  <2>2. h \in held => \E d \in Call : HoldsOn(d, h)
    BY DEF ApprovalInv, HeldHasHolder
  <2>. QED
    BY <2>1, <2>2 DEF ApprovalInv, TypeOK, HoldsOn, Calls
<1>3. CardsInv'
  BY DEF ApprovalInv, TypeOK, CardsInv, TapsInv, RanInv, WaitingInv, Pending, Rows, Taps, Calls
<1>7. TapsInv'
  BY DEF ApprovalInv, TypeOK, TapsInv, WaitingInv, Pending, Rows, Taps, Calls
<1>4. WaitingInv'
  BY DEF ApprovalInv, TypeOK, WaitingInv, Pending, Rows, Calls, Idle, TapsInv
<1>5. RanInv' /\ OneYesOneRun' /\ OnceIsSpent'
  <2>1. NobodyRuns /\ AnswersStay
    BY DEF ApprovalInv, TypeOK, NobodyRuns, AnswersStay, TapsInv, Pending, Rows, Calls, Taps, Idle
  <2>2. kind' = kind /\ \A j \in Card : j \in grants' => j \in grants \/ Pending(j)
    BY DEF ApprovalInv, TypeOK, Pending
  <2>. QED
    BY <2>1, <2>2, NobodyMore
<1>6. AnswerReaches'
  BY DEF ApprovalInv, TypeOK, HeldHasHolder, AnswerReaches, Answered, HoldsOn, Pending, Rows, Calls, Idle, TapsInv, Taps
<1>. QED
  BY <1>1, <1>2, <1>3, <1>4, <1>5, <1>6, <1>7 DEF ApprovalInv

\* A tap that waits changes no card.
LEMMA WaitsKeeps ==
    ASSUME ApprovalInv, NEW x \in Tap, NEW k \in Card, TapWaits(x, k)
    PROVE  ApprovalInv'
<1>. USE DEF TapWaits, CanAnswer, Spend, Tell
<1>1. TypeOK'
  <2>1. row' \in [Card -> Rows]
    BY DEF ApprovalInv, TypeOK, TapsInv, WaitingInv, Rows, Taps
  <2>2. call' \in [Call -> Calls]
    BY DEF ApprovalInv, TypeOK, TapsInv, Calls, Taps, Idle
  <2>3. tap' \in [Tap -> Taps]
    BY DEF ApprovalInv, TypeOK, TapsInv, Taps
  <2>4. /\ kind' \in Kinds /\ held' \in SUBSET Card /\ grants' \in SUBSET Card
        /\ reached' \in SUBSET Card /\ missed' \in SUBSET Card
    BY DEF ApprovalInv, TypeOK, TapsInv, WaitingInv, Calls, Taps, Rows
  <2>5. allowed' \in SUBSET Payload /\ resets' \in 0 .. MaxResets
    BY BoundsAssumption DEF ApprovalInv, TypeOK, TapsInv, CardsInv, WaitingInv, Pending, Calls, Taps, Rows
  <2>. QED
    BY <2>1, <2>2, <2>3, <2>4, <2>5 DEF TypeOK
<1>2. HeldHasHolder'
  <2>1. SUFFICES ASSUME NEW h \in held' PROVE \E d \in Call : HoldsOn(d, h)'
    BY DEF HeldHasHolder
  <2>2. h \in held => \E d \in Call : HoldsOn(d, h)
    BY DEF ApprovalInv, HeldHasHolder
  <2>. QED
    BY <2>1, <2>2 DEF ApprovalInv, TypeOK, HoldsOn, Calls
<1>3. CardsInv'
  BY DEF ApprovalInv, TypeOK, CardsInv, TapsInv, RanInv, WaitingInv, Pending, Rows, Taps, Calls
<1>7. TapsInv'
  BY DEF ApprovalInv, TypeOK, TapsInv, WaitingInv, Pending, Rows, Taps, Calls
<1>4. WaitingInv'
  BY DEF ApprovalInv, TypeOK, WaitingInv, Pending, Rows, Calls, Idle, TapsInv
<1>5. RanInv' /\ OneYesOneRun' /\ OnceIsSpent'
  <2>1. NobodyRuns /\ AnswersStay
    BY DEF ApprovalInv, TypeOK, NobodyRuns, AnswersStay, TapsInv, Pending, Rows, Calls, Taps, Idle
  <2>2. kind' = kind /\ \A j \in Card : j \in grants' => j \in grants \/ Pending(j)
    BY DEF ApprovalInv, TypeOK, Pending
  <2>. QED
    BY <2>1, <2>2, NobodyMore
<1>6. AnswerReaches'
  BY DEF ApprovalInv, TypeOK, HeldHasHolder, AnswerReaches, Answered, HoldsOn, Pending, Rows, Calls, Idle, TapsInv, Taps
<1>. QED
  BY <1>1, <1>2, <1>3, <1>4, <1>5, <1>6, <1>7 DEF ApprovalInv

\* A Confirm that waited counts only when the card is still pending.
LEMMA ConfirmKeeps ==
    ASSUME ApprovalInv, NEW x \in Tap, ConfirmWritten(x)
    PROVE  ApprovalInv'
<1>. USE DEF ConfirmWritten, Spend, Tell
<1>1. TypeOK'
  <2>1. row' \in [Card -> Rows]
    BY DEF ApprovalInv, TypeOK, TapsInv, WaitingInv, Rows, Taps
  <2>2. call' \in [Call -> Calls]
    BY DEF ApprovalInv, TypeOK, TapsInv, Calls, Taps, Idle
  <2>3. tap' \in [Tap -> Taps]
    BY DEF ApprovalInv, TypeOK, TapsInv, Taps
  <2>4. /\ kind' \in Kinds /\ held' \in SUBSET Card /\ grants' \in SUBSET Card
        /\ reached' \in SUBSET Card /\ missed' \in SUBSET Card
    BY DEF ApprovalInv, TypeOK, TapsInv, WaitingInv, Calls, Taps, Rows
  <2>5. allowed' \in SUBSET Payload /\ resets' \in 0 .. MaxResets
    BY BoundsAssumption DEF ApprovalInv, TypeOK, TapsInv, CardsInv, WaitingInv, Pending, Calls, Taps, Rows
  <2>. QED
    BY <2>1, <2>2, <2>3, <2>4, <2>5 DEF TypeOK
<1>2. HeldHasHolder'
  <2>1. SUFFICES ASSUME NEW h \in held' PROVE \E d \in Call : HoldsOn(d, h)'
    BY DEF HeldHasHolder
  <2>2. h \in held => \E d \in Call : HoldsOn(d, h)
    BY DEF ApprovalInv, HeldHasHolder
  <2>. QED
    BY <2>1, <2>2 DEF ApprovalInv, TypeOK, HoldsOn, Calls
<1>3. CardsInv'
  BY DEF ApprovalInv, TypeOK, CardsInv, TapsInv, RanInv, WaitingInv, Pending, Rows, Taps, Calls
<1>7. TapsInv'
  BY DEF ApprovalInv, TypeOK, TapsInv, WaitingInv, Pending, Rows, Taps, Calls
<1>4. WaitingInv'
  BY DEF ApprovalInv, TypeOK, WaitingInv, Pending, Rows, Calls, Idle, TapsInv
<1>5. RanInv' /\ OneYesOneRun' /\ OnceIsSpent'
  <2>1. NobodyRuns /\ AnswersStay
    BY DEF ApprovalInv, TypeOK, NobodyRuns, AnswersStay, TapsInv, Pending, Rows, Calls, Taps, Idle
  <2>2. kind' = kind /\ \A j \in Card : j \in grants' => j \in grants \/ Pending(j)
    BY DEF ApprovalInv, TypeOK, Pending
  <2>. QED
    BY <2>1, <2>2, NobodyMore
<1>6. AnswerReaches'
  BY DEF ApprovalInv, TypeOK, HeldHasHolder, AnswerReaches, Answered, HoldsOn, Pending, Rows, Calls, Idle, TapsInv, Taps
<1>. QED
  BY <1>1, <1>2, <1>3, <1>4, <1>5, <1>6, <1>7 DEF ApprovalInv

\* So does an Always allow.
LEMMA AlwaysKeeps ==
    ASSUME ApprovalInv, NEW x \in Tap, AlwaysWritten(x)
    PROVE  ApprovalInv'
<1>. USE DEF AlwaysWritten, Spend, Tell
<1>1. TypeOK'
  <2>1. row' \in [Card -> Rows]
    BY DEF ApprovalInv, TypeOK, TapsInv, WaitingInv, Rows, Taps
  <2>2. call' \in [Call -> Calls]
    BY DEF ApprovalInv, TypeOK, TapsInv, Calls, Taps, Idle
  <2>3. tap' \in [Tap -> Taps]
    BY DEF ApprovalInv, TypeOK, TapsInv, Taps
  <2>4. /\ kind' \in Kinds /\ held' \in SUBSET Card /\ grants' \in SUBSET Card
        /\ reached' \in SUBSET Card /\ missed' \in SUBSET Card
    BY DEF ApprovalInv, TypeOK, TapsInv, WaitingInv, Calls, Taps, Rows
  <2>5. allowed' \in SUBSET Payload /\ resets' \in 0 .. MaxResets
    BY BoundsAssumption DEF ApprovalInv, TypeOK, TapsInv, CardsInv, WaitingInv, Pending, Calls, Taps, Rows
  <2>. QED
    BY <2>1, <2>2, <2>3, <2>4, <2>5 DEF TypeOK
<1>2. HeldHasHolder'
  <2>1. SUFFICES ASSUME NEW h \in held' PROVE \E d \in Call : HoldsOn(d, h)'
    BY DEF HeldHasHolder
  <2>2. h \in held => \E d \in Call : HoldsOn(d, h)
    BY DEF ApprovalInv, HeldHasHolder
  <2>. QED
    BY <2>1, <2>2 DEF ApprovalInv, TypeOK, HoldsOn, Calls
<1>3. CardsInv'
  BY DEF ApprovalInv, TypeOK, CardsInv, TapsInv, RanInv, WaitingInv, Pending, Rows, Taps, Calls
<1>7. TapsInv'
  BY DEF ApprovalInv, TypeOK, TapsInv, WaitingInv, Pending, Rows, Taps, Calls
<1>4. WaitingInv'
  BY DEF ApprovalInv, TypeOK, WaitingInv, Pending, Rows, Calls, Idle, TapsInv
<1>5. RanInv' /\ OneYesOneRun' /\ OnceIsSpent'
  <2>1. NobodyRuns /\ AnswersStay
    BY DEF ApprovalInv, TypeOK, NobodyRuns, AnswersStay, TapsInv, Pending, Rows, Calls, Taps, Idle
  <2>2. kind' = kind /\ \A j \in Card : j \in grants' => j \in grants \/ Pending(j)
    BY DEF ApprovalInv, TypeOK, Pending
  <2>. QED
    BY <2>1, <2>2, NobodyMore
<1>6. AnswerReaches'
  BY DEF ApprovalInv, TypeOK, HeldHasHolder, AnswerReaches, Answered, HoldsOn, Pending, Rows, Calls, Idle, TapsInv, Taps
<1>. QED
  BY <1>1, <1>2, <1>3, <1>4, <1>5, <1>6, <1>7 DEF ApprovalInv

\* An Always allow that could not be saved changes no card.
LEMMA AlwaysFailsKeeps ==
    ASSUME ApprovalInv, NEW x \in Tap, AlwaysFails(x)
    PROVE  ApprovalInv'
<1>. USE DEF AlwaysFails, Spend, Tell
<1>1. TypeOK'
  <2>1. row' \in [Card -> Rows]
    BY DEF ApprovalInv, TypeOK, TapsInv, WaitingInv, Rows, Taps
  <2>2. call' \in [Call -> Calls]
    BY DEF ApprovalInv, TypeOK, TapsInv, Calls, Taps, Idle
  <2>3. tap' \in [Tap -> Taps]
    BY DEF ApprovalInv, TypeOK, TapsInv, Taps
  <2>4. /\ kind' \in Kinds /\ held' \in SUBSET Card /\ grants' \in SUBSET Card
        /\ reached' \in SUBSET Card /\ missed' \in SUBSET Card
    BY DEF ApprovalInv, TypeOK, TapsInv, WaitingInv, Calls, Taps, Rows
  <2>5. allowed' \in SUBSET Payload /\ resets' \in 0 .. MaxResets
    BY BoundsAssumption DEF ApprovalInv, TypeOK, TapsInv, CardsInv, WaitingInv, Pending, Calls, Taps, Rows
  <2>. QED
    BY <2>1, <2>2, <2>3, <2>4, <2>5 DEF TypeOK
<1>2. HeldHasHolder'
  <2>1. SUFFICES ASSUME NEW h \in held' PROVE \E d \in Call : HoldsOn(d, h)'
    BY DEF HeldHasHolder
  <2>2. h \in held => \E d \in Call : HoldsOn(d, h)
    BY DEF ApprovalInv, HeldHasHolder
  <2>. QED
    BY <2>1, <2>2 DEF ApprovalInv, TypeOK, HoldsOn, Calls
<1>3. CardsInv'
  BY DEF ApprovalInv, TypeOK, CardsInv, TapsInv, RanInv, WaitingInv, Pending, Rows, Taps, Calls
<1>7. TapsInv'
  BY DEF ApprovalInv, TypeOK, TapsInv, WaitingInv, Pending, Rows, Taps, Calls
<1>4. WaitingInv'
  BY DEF ApprovalInv, TypeOK, WaitingInv, Pending, Rows, Calls, Idle, TapsInv
<1>5. RanInv' /\ OneYesOneRun' /\ OnceIsSpent'
  <2>1. NobodyRuns /\ AnswersStay
    BY DEF ApprovalInv, TypeOK, NobodyRuns, AnswersStay, TapsInv, Pending, Rows, Calls, Taps, Idle
  <2>2. kind' = kind /\ \A j \in Card : j \in grants' => j \in grants \/ Pending(j)
    BY DEF ApprovalInv, TypeOK, Pending
  <2>. QED
    BY <2>1, <2>2, NobodyMore
<1>6. AnswerReaches'
  BY DEF ApprovalInv, TypeOK, HeldHasHolder, AnswerReaches, Answered, HoldsOn, Pending, Rows, Calls, Idle, TapsInv, Taps
<1>. QED
  BY <1>1, <1>2, <1>3, <1>4, <1>5, <1>6, <1>7 DEF ApprovalInv

\* Marking the task done answers every pending card.
LEMMA DoneKeeps ==
    ASSUME ApprovalInv, TaskDone
    PROVE  ApprovalInv'
<1>8. /\ kind' = kind /\ call' = call /\ held' = held /\ tap' = tap /\ grants' = grants
      /\ allowed' = allowed /\ reached' = reached /\ resets' = resets
      /\ missed' = missed \cup {k \in Card : Pending(k)}
  BY DEF TaskDone
<1>0. \A k \in Card :
            /\ ~Pending(k) => row'[k] = row[k]
            /\ Pending(k) => /\ row'[k].st \in {"expired", "denied"}
                             /\ row'[k].st = "expired" => kind = "confirm"
                             /\ row'[k].pay = row[k].pay
  BY DEF TaskDone, ApprovalInv, TypeOK, Rows
<1>1. TypeOK'
  <2>1. row' \in [Card -> Rows]
    <3>1. \A k \in Card : row'[k] \in Rows
      BY RowTyped DEF TaskDone, ApprovalInv, TypeOK
    <3>. QED
      BY <3>1 DEF TaskDone
  <2>2. call' \in [Call -> Calls]
    BY <1>0, <1>8 DEF ApprovalInv, TypeOK, TapsInv, Calls, Taps, Idle
  <2>3. tap' \in [Tap -> Taps]
    BY <1>0, <1>8 DEF ApprovalInv, TypeOK, TapsInv, Taps
  <2>4. /\ kind' \in Kinds /\ held' \in SUBSET Card /\ grants' \in SUBSET Card
        /\ reached' \in SUBSET Card /\ missed' \in SUBSET Card
    BY <1>0, <1>8 DEF ApprovalInv, TypeOK, TapsInv, WaitingInv, Calls, Taps, Rows
  <2>5. allowed' \in SUBSET Payload /\ resets' \in 0 .. MaxResets
    BY <1>0, <1>8, BoundsAssumption DEF ApprovalInv, TypeOK, TapsInv, CardsInv, WaitingInv, Pending, Calls, Taps, Rows
  <2>. QED
    BY <2>1, <2>2, <2>3, <2>4, <2>5 DEF TypeOK
<1>2. HeldHasHolder'
  <2>1. SUFFICES ASSUME NEW h \in held' PROVE \E d \in Call : HoldsOn(d, h)'
    BY DEF HeldHasHolder
  <2>2. h \in held => \E d \in Call : HoldsOn(d, h)
    BY <1>0, <1>8 DEF ApprovalInv, HeldHasHolder
  <2>. QED
    BY <1>0, <1>8, <2>1, <2>2 DEF ApprovalInv, TypeOK, HoldsOn, Calls
<1>3. CardsInv'
  BY <1>0, <1>8 DEF ApprovalInv, CardsInv, Pending
<1>7. TapsInv'
  BY <1>0, <1>8 DEF ApprovalInv, TapsInv, Pending
<1>4. WaitingInv'
  BY <1>0, <1>8 DEF ApprovalInv, WaitingInv, Pending
<1>5. RanInv' /\ OneYesOneRun' /\ OnceIsSpent'
  <2>1. NobodyRuns /\ AnswersStay
    BY <1>0, <1>8 DEF NobodyRuns, AnswersStay, Pending
  <2>2. kind' = kind /\ \A j \in Card : j \in grants' => j \in grants \/ Pending(j)
    BY <1>0, <1>8 DEF ApprovalInv, TypeOK, Pending
  <2>. QED
    BY <2>1, <2>2, NobodyMore
<1>6. AnswerReaches'
  BY <1>0, <1>8 DEF ApprovalInv, AnswerReaches, Answered, HoldsOn, Pending
<1>. QED
  BY <1>1, <1>2, <1>3, <1>4, <1>5, <1>6, <1>7 DEF ApprovalInv

\* A card's time runs out.
LEMMA AgeKeeps ==
    ASSUME ApprovalInv, NEW k \in Card, Age(k)
    PROVE  ApprovalInv'
<1>. USE DEF Age
<1>1. TypeOK'
  <2>1. row' \in [Card -> Rows]
    <3>. DEFINE k0 == k
                r0 == [row[k0] EXCEPT !.old = TRUE]
    <3>1. k0 \in Card
      BY DEF ApprovalInv, TapsInv
    <3>2. r0 \in Rows
      BY <3>1, RowTyped DEF ApprovalInv, TypeOK
    <3>3. row' = [row EXCEPT ![k0] = r0]
      BY Zenon
    <3>. QED
      BY <3>1, <3>2, <3>3 DEF ApprovalInv, TypeOK
  <2>2. call' \in [Call -> Calls]
    BY DEF ApprovalInv, TypeOK, TapsInv, Calls, Taps, Idle
  <2>3. tap' \in [Tap -> Taps]
    BY DEF ApprovalInv, TypeOK, TapsInv, Taps
  <2>4. /\ kind' \in Kinds /\ held' \in SUBSET Card /\ grants' \in SUBSET Card
        /\ reached' \in SUBSET Card /\ missed' \in SUBSET Card
    BY DEF ApprovalInv, TypeOK, TapsInv, WaitingInv, Calls, Taps, Rows
  <2>5. allowed' \in SUBSET Payload /\ resets' \in 0 .. MaxResets
    BY BoundsAssumption DEF ApprovalInv, TypeOK, TapsInv, CardsInv, WaitingInv, Pending, Calls, Taps, Rows
  <2>. QED
    BY <2>1, <2>2, <2>3, <2>4, <2>5 DEF TypeOK
<1>2. HeldHasHolder'
  <2>1. SUFFICES ASSUME NEW h \in held' PROVE \E d \in Call : HoldsOn(d, h)'
    BY DEF HeldHasHolder
  <2>2. h \in held => \E d \in Call : HoldsOn(d, h)
    BY DEF ApprovalInv, HeldHasHolder
  <2>. QED
    BY <2>1, <2>2 DEF ApprovalInv, TypeOK, HoldsOn, Calls
<1>3. CardsInv'
  BY DEF ApprovalInv, TypeOK, CardsInv, TapsInv, RanInv, WaitingInv, Pending, Rows, Taps, Calls
<1>7. TapsInv'
  BY DEF ApprovalInv, TypeOK, TapsInv, WaitingInv, Pending, Rows, Taps, Calls
<1>4. WaitingInv'
  BY DEF ApprovalInv, TypeOK, WaitingInv, Pending, Rows, Calls, Idle, TapsInv
<1>5. RanInv' /\ OneYesOneRun' /\ OnceIsSpent'
  <2>1. NobodyRuns /\ AnswersStay
    BY DEF ApprovalInv, TypeOK, NobodyRuns, AnswersStay, TapsInv, Pending, Rows, Calls, Taps, Idle
  <2>2. kind' = kind /\ \A j \in Card : j \in grants' => j \in grants \/ Pending(j)
    BY DEF ApprovalInv, TypeOK, Pending
  <2>. QED
    BY <2>1, <2>2, NobodyMore
<1>6. AnswerReaches'
  BY DEF ApprovalInv, TypeOK, HeldHasHolder, AnswerReaches, Answered, HoldsOn, Pending, Rows, Calls, Idle, TapsInv, Taps
<1>. QED
  BY <1>1, <1>2, <1>3, <1>4, <1>5, <1>6, <1>7 DEF ApprovalInv

\* A reset lets go of every card.
LEMMA ResetKeeps ==
    ASSUME ApprovalInv, Reset
    PROVE  ApprovalInv'
<1>. USE DEF Reset, Answered
<1>1. TypeOK'
  <2>1. row' \in [Card -> Rows]
    BY DEF ApprovalInv, TypeOK, TapsInv, WaitingInv, Rows, Taps
  <2>2. call' \in [Call -> Calls]
    BY DEF ApprovalInv, TypeOK, TapsInv, Calls, Taps, Idle
  <2>3. tap' \in [Tap -> Taps]
    BY DEF ApprovalInv, TypeOK, TapsInv, Taps
  <2>4. /\ kind' \in Kinds /\ held' \in SUBSET Card /\ grants' \in SUBSET Card
        /\ reached' \in SUBSET Card /\ missed' \in SUBSET Card
    BY DEF ApprovalInv, TypeOK, TapsInv, WaitingInv, Calls, Taps, Rows
  <2>5. allowed' \in SUBSET Payload /\ resets' \in 0 .. MaxResets
    BY BoundsAssumption DEF ApprovalInv, TypeOK, TapsInv, CardsInv, WaitingInv, Pending, Calls, Taps, Rows
  <2>. QED
    BY <2>1, <2>2, <2>3, <2>4, <2>5 DEF TypeOK
<1>2. HeldHasHolder'
  <2>1. SUFFICES ASSUME NEW h \in held' PROVE \E d \in Call : HoldsOn(d, h)'
    BY DEF HeldHasHolder
  <2>2. h \in held => \E d \in Call : HoldsOn(d, h)
    BY DEF ApprovalInv, HeldHasHolder
  <2>. QED
    BY <2>1, <2>2 DEF ApprovalInv, TypeOK, HoldsOn, Calls
<1>3. CardsInv'
  BY DEF ApprovalInv, TypeOK, CardsInv, TapsInv, RanInv, WaitingInv, Pending, Rows, Taps, Calls
<1>7. TapsInv'
  BY DEF ApprovalInv, TypeOK, TapsInv, WaitingInv, Pending, Rows, Taps, Calls
<1>4. WaitingInv'
  BY DEF ApprovalInv, TypeOK, WaitingInv, Pending, Rows, Calls, Idle, TapsInv
<1>5. RanInv' /\ OneYesOneRun' /\ OnceIsSpent'
  <2>1. NobodyRuns /\ AnswersStay
    BY DEF ApprovalInv, TypeOK, NobodyRuns, AnswersStay, TapsInv, Pending, Rows, Calls, Taps, Idle
  <2>2. kind' = kind /\ \A j \in Card : j \in grants' => j \in grants \/ Pending(j)
    BY DEF ApprovalInv, TypeOK, Pending
  <2>. QED
    BY <2>1, <2>2, NobodyMore
<1>6. AnswerReaches'
  BY DEF ApprovalInv, TypeOK, HeldHasHolder, AnswerReaches, Answered, HoldsOn, Pending, Rows, Calls, Idle, TapsInv, Taps
<1>. QED
  BY <1>1, <1>2, <1>3, <1>4, <1>5, <1>6, <1>7 DEF ApprovalInv
---------------------------------------------------------------------------
(* The theorems                                                            *)

\* Every step keeps the invariant.
LEMMA StepApproval == ApprovalInv /\ [Next]_vars => ApprovalInv'
<1>1. SUFFICES ASSUME ApprovalInv, [Next]_vars PROVE ApprovalInv'
  OBVIOUS
<1>2. CASE UNCHANGED vars
  <2>. USE <1>1, <1>2 DEF vars
  <2>1. TypeOK' /\ HeldHasHolder' /\ CardsInv' /\ TapsInv' /\ WaitingInv' /\ RanInv'
    BY DEF ApprovalInv, TypeOK, HeldHasHolder, HoldsOn, CardsInv, TapsInv, WaitingInv, RanInv
  <2>2. OneYesOneRun' /\ AnswerReaches' /\ OnceIsSpent'
    BY DEF ApprovalInv, OneYesOneRun, AnswerReaches, OnceIsSpent, Ran, Answered, HoldsOn
  <2>. QED
    BY <2>1, <2>2 DEF ApprovalInv
<1>3. ASSUME NEW c \in Call, NEW p \in Payload, Gate(c, p) PROVE ApprovalInv'
  BY <1>1, <1>3, TokenKeeps, GrantKeeps, AllowedKeeps, AskKeeps DEF Gate
<1>4. ASSUME NEW c \in Call, Wait(c) PROVE ApprovalInv'
  BY <1>1, <1>4, ReadKeeps, SentKeeps, FailedKeeps, EndsKeeps DEF Wait, TextSent, Tick
<1>5. ASSUME NEW x \in Tap, Answer(x) PROVE ApprovalInv'
  BY <1>1, <1>5, TooLateKeeps, NoKeeps, OnceKeeps, SiteKeeps, WaitsKeeps,
     ConfirmKeeps, AlwaysKeeps, AlwaysFailsKeeps DEF Answer
<1>6. CASE Next
  BY <1>1, <1>3, <1>4, <1>5, <1>6, DoneKeeps, AgeKeeps, ResetKeeps DEF Next
<1>. QED
  BY <1>1, <1>2, <1>6

\* The approvals table, the holds and the history of answers keep their invariant.
THEOREM Approved == Spec => []ApprovalInv
BY InitApproval, StepApproval, PTL DEF Spec

\* Every variable keeps its type.
THEOREM ApprovalsTyped == Spec => []TypeOK
<1>1. ApprovalInv => TypeOK
  BY DEF ApprovalInv
<1>. QED
  BY <1>1, Approved, PTL

\* One yes lets one call through, whichever of hold, token and grant it takes, and
\* only for what the card said (confirmGate, takeGrant).
THEOREM OneYes == Spec => []OneYesOneRun
<1>1. ApprovalInv => OneYesOneRun
  BY DEF ApprovalInv
<1>. QED
  BY <1>1, Approved, PTL

\* Every answer reaches the call that holds or the task, apart from the three cases
\* that `missed` names (decideConfirm, decidePerm, decideApproval).
THEOREM NoAnswerLost == Spec => []AnswerReaches
<1>1. ApprovalInv => AnswerReaches
  BY DEF ApprovalInv
<1>. QED
  BY <1>1, Approved, PTL

\* The grant of an Allow once that a hold has read is gone (egressDecision).
THEOREM OnceSpent == Spec => []OnceIsSpent
<1>1. ApprovalInv => OnceIsSpent
  BY DEF ApprovalInv
<1>. QED
  BY <1>1, Approved, PTL

\* A decided row is what no step changes: what it answered, whose token it keeps, that
\* it was used.
Settled(k) ==
    row[k].st \in {"approved", "denied", "expired"} =>
        /\ row'[k].st = row[k].st /\ row'[k].dec = row[k].dec /\ row'[k].tok = row[k].tok
        /\ row[k].used => row'[k].used

\* The first answer of a card stands (decideApproval: "already approved").
THEOREM FirstStands == Spec => FirstAnswerStands
<1>1. ApprovalInv /\ [Next]_vars => [\A k \in Card : Settled(k)]_vars
  <2>1. SUFFICES ASSUME ApprovalInv, Next, NEW k \in Card PROVE Settled(k)
    BY DEF Settled, vars
  <2>. USE <2>1 DEF ApprovalInv, TypeOK, Settled, Pending
  <2>2. ASSUME NEW c \in Call, NEW p \in Payload, Gate(c, p) PROVE Settled(k)
    <3>1. ASSUME NEW x \in Tap, GateToken(c, p, x) PROVE Settled(k)
      BY <3>1 DEF GateToken, Rows
    <3>2. CASE Ask(c, p)
      BY <3>2 DEF Ask, CardFor, Shared, Unused
    <3>3. CASE GateGrant(c, p) \/ GateAllowed(c, p)
      BY <3>3 DEF GateGrant, GateAllowed
    <3>. QED
      BY <2>2, <3>1, <3>2, <3>3 DEF Gate
  <2>3. ASSUME NEW c \in Call, Wait(c) PROVE Settled(k)
    <3>1. CASE ReadAnswer(c)
      BY <3>1 DEF ReadAnswer, Rows
    <3>2. CASE HoldEnds(c)
      BY <3>2 DEF HoldEnds
    <3>3. CASE Hold(c) \/ TextFailed(c)
      BY <3>3 DEF Hold, TextFailed
    <3>. QED
      BY <2>3, <3>1, <3>2, <3>3 DEF Wait, TextSent, Tick
  <2>4. ASSUME NEW x \in Tap, Answer(x) PROVE Settled(k)
    <3>1. ASSUME NEW j \in Card, TapTooLate(x, j) \/ TapNo(x, j) \/ TapOnce(x, j) \/ TapSite(x, j)
          PROVE  Settled(k)
      BY <3>1 DEF TapTooLate, TapNo, TapOnce, TapSite, CanAnswer
    <3>2. ASSUME NEW j \in Card, TapWaits(x, j) PROVE Settled(k)
      BY <3>2 DEF TapWaits
    <3>3. CASE ConfirmWritten(x)
      BY <3>3 DEF ConfirmWritten
    <3>4. CASE AlwaysWritten(x)
      BY <3>4 DEF AlwaysWritten
    <3>5. CASE AlwaysFails(x)
      BY <3>5 DEF AlwaysFails
    <3>. QED
      BY <2>4, <3>1, <3>2, <3>3, <3>4, <3>5 DEF Answer
  <2>5. CASE TaskDone
    BY <2>5 DEF TaskDone
  <2>6. ASSUME NEW j \in Card, Age(j) PROVE Settled(k)
    BY <2>6 DEF Age
  <2>7. CASE Reset
    BY <2>7 DEF Reset
  <2>. QED
    BY <2>1, <2>2, <2>3, <2>4, <2>5, <2>6, <2>7 DEF Next
<1>. QED
  BY <1>1, Approved, PTL DEF Spec, FirstAnswerStands, Settled

==========================================================================
