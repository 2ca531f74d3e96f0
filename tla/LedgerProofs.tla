--------------------------- MODULE LedgerProofs ---------------------------
(***************************************************************************)
(* Proofs about Ledger, for any calls, Residents, prices and payments.     *)
(*                                                                         *)
(* The inductive invariant Ind says, for each call, where it stands next   *)
(* to its rows: held or charged, never both; listed while it is held; and  *)
(* a request on its way belongs to a call that waits for it.  Two lemmas   *)
(* carry the calls a step does not act on: Untouched, when the Ledger only *)
(* wrote other rows, and Outlived, when it let stale holds expire.  Only   *)
(* finitely many rows are ever written (RowsFinite), so the lemmas of      *)
(* SumsProofs say what a step does to a sum of them: that gives NoOverspend*)
(* and DayLimit, that the running sums are those of the rows (TotalsTrue), *)
(* and, with it, that the Ledger implements Purse (KeepsPurse).            *)
(***************************************************************************)
EXTENDS Ledger, SumsProofs, FiniteSetTheorems, TLAPS

Good(c) == CallInv(c) /\ RequestInv(c) /\ ChargeTrue(c) /\ HoldKnown(c)
Ind == TypeOK /\ GrantInv /\ \A c \in Calls : Good(c)

\* What a call and its Resident's rows about it look like stays as it is, and
\* no request of it is new.
SameCall(c) ==
    /\ call'[c] = call[c] /\ release'[c] = release[c]
    /\ c \in open' <=> c \in open
    /\ \A q \in net' : q.of = c => q \in net

\* None is no amount.
LEMMA NoneApart == None \notin Nat /\ None < 0 /\ None \in Int
BY DEF None

\* The sum of a finite set of holds is a number.
LEMMA HeldNat == ASSUME NEW S \in SUBSET Calls, IsFiniteSet(S) PROVE HeldBy(S) \in Nat
BY SumTyped, LedgerAssumption DEF HeldBy

\* The pieces of a call's state have their types.
LEMMA CallTyped ==
    ASSUME TypeOK, NEW c \in Calls
    PROVE  /\ call[c] \in [pc : Phases, gone : BOOLEAN, charge : Nat \cup {None}]
           /\ spend[c] \in Nat \cup {None}
           /\ Worst[c] \in Nat
           /\ Due(c) \in Nat /\ Due(c) <= Worst[c]
<1>1. call[c] \in [pc : Phases, gone : BOOLEAN, charge : Nat \cup {None}]
  BY DEF TypeOK
<1>2. spend[c] \in Nat \cup {None} /\ Worst[c] \in Nat
  BY LedgerAssumption DEF TypeOK
<1>3. Due(c) \in Nat /\ Due(c) <= Worst[c]
  BY <1>1, <1>2 DEF Due, Lesser
<1> QED BY <1>1, <1>2, <1>3

\* A call stays good when none of its rows changed.
LEMMA Untouched ==
    ASSUME TypeOK, NEW c \in Calls, Good(c), SameCall(c),
           c \in held' <=> c \in held, spend'[c] = spend[c], events \subseteq events'
    PROVE  Good(c)'
<1> USE DEF SameCall
<1>1. CallInv(c)'
  BY DEF Good, CallInv, At, InFlight
<1>2. RequestInv(c)'
  BY DEF Good, RequestInv, At, Reserve
<1>3. ChargeTrue(c)' /\ HoldKnown(c)'
  BY DEF Good, ChargeTrue, HoldKnown, Due, At
<1> QED BY <1>1, <1>2, <1>3 DEF Good

\* A call stays good when stale holds expired, its own perhaps among them.
LEMMA Outlived ==
    ASSUME TypeOK, NEW c \in Calls, Good(c), SameCall(c),
           c \in held' <=> c \in HeldThen, spend'[c] = SpendThen[c], events' = EventsThen
    PROVE  Good(c)'
<1>1. CASE c \notin old
  <2>1. SpendThen[c] = spend[c] /\ (c \in HeldThen <=> c \in held) /\ events \subseteq events'
    BY <1>1 DEF SpendThen, Expiring, HeldThen, EventsThen
  <2> QED BY <2>1, Untouched
<1>2. CASE c \in old
  <2>1. c \in held /\ spend[c] = None
    BY <1>2 DEF TypeOK, Good, CallInv
  <2>2. SpendThen[c] = Worst[c] /\ c \notin HeldThen /\ <<c, "expired">> \in events'
    BY <1>2, <2>1 DEF SpendThen, Expiring, HeldThen, EventsThen
  <2>3. Worst[c] # None
    BY CallTyped, NoneApart
  <2> USE DEF SameCall
  <2>4. CallInv(c)'
    BY <2>1, <2>2, <2>3 DEF Good, CallInv, At, InFlight
  <2>5. RequestInv(c)'
    BY DEF Good, RequestInv, At, Reserve
  <2>6. ~At(c, "done")
    BY <2>1 DEF Good, CallInv
  <2>7. ChargeTrue(c)' /\ HoldKnown(c)'
    BY <2>2, <2>6 DEF ChargeTrue, HoldKnown, At
  <2> QED BY <2>4, <2>5, <2>7 DEF Good
<1> QED BY <1>1, <1>2

\* Expiring takes as much from the holds as it charges: the balance stays.
LEMMA ExpiryIsEven ==
    ASSUME Ind, RowsFinite
    PROVE  /\ Expiring = old
           /\ HeldBy(old) \in Nat
           /\ TotThen \in [granted : Int, included : Int, spent : Int, reserved : Int]
           /\ TotThen.granted = tot.granted /\ TotThen.included = tot.included
           /\ TotThen.spent = tot.spent + HeldBy(old)
           /\ TotThen.reserved = tot.reserved - HeldBy(old)
           /\ Left(TotThen) = Balance /\ Balance \in Int
<1>1. old \subseteq held /\ old \subseteq Calls
  BY DEF Ind, TypeOK
<1>2. Expiring = old
  BY <1>1 DEF Expiring, Ind, Good, CallInv
<1>3. HeldBy(old) \in Nat
  BY <1>1, HeldNat, FS_Subset DEF RowsFinite
<1>4. tot \in [granted : Int, included : Int, spent : Int, reserved : Int]
  BY DEF Ind, TypeOK
<1>5. TotThen = [granted |-> tot.granted, included |-> tot.included,
                 spent |-> tot.spent + HeldBy(old), reserved |-> tot.reserved - HeldBy(old)]
  <2>1. PICK h : h = HeldBy(old)
    OBVIOUS
  <2>2. TotThen = [tot EXCEPT !.spent = @ + h, !.reserved = @ - h]
    BY <1>2, <2>1 DEF TotThen
  <2>3. TotThen = [granted |-> tot.granted, included |-> tot.included,
                   spent |-> tot.spent + h, reserved |-> tot.reserved - h]
    BY <1>3, <1>4, <2>1, <2>2
  <2> QED BY <2>1, <2>3
<1>6. /\ TotThen \in [granted : Int, included : Int, spent : Int, reserved : Int]
      /\ TotThen.granted = tot.granted /\ TotThen.included = tot.included
      /\ TotThen.spent = tot.spent + HeldBy(old) /\ TotThen.reserved = tot.reserved - HeldBy(old)
  BY <1>3, <1>4, <1>5
<1>7. Left(TotThen) = Balance /\ Balance \in Int
  BY <1>3, <1>4, <1>6 DEF Left, Balance
<1> QED BY <1>2, <1>3, <1>6, <1>7

-----------------------------------------------------------------------------
(* What the Ledger's part of a request does to the types and the balance.  *)

LedgerTyped ==
    /\ held \subseteq Calls /\ old \subseteq held /\ today \subseteq Calls
    /\ spend \in [Calls -> Nat \cup {None}]
    /\ tot \in [granted : Int, included : Int, spent : Int, reserved : Int]
    /\ events \subseteq Calls \X {"expired", "late_settle"}

\* expire keeps the Ledger's tables typed.
LEMMA ExpireTyped ==
    ASSUME Ind
    PROVE  /\ HeldThen \subseteq Calls
           /\ SpendThen \in [Calls -> Nat \cup {None}]
           /\ EventsThen \subseteq Calls \X {"expired", "late_settle"}
<1>1. TypeOK
  BY DEF Ind
<1>2. HeldThen \subseteq Calls /\ EventsThen \subseteq Calls \X {"expired", "late_settle"}
  BY <1>1 DEF TypeOK, HeldThen, EventsThen
<1>3. SpendThen \in [Calls -> Nat \cup {None}]
  BY <1>1, LedgerAssumption DEF TypeOK, SpendThen
<1> QED BY <1>2, <1>3

\* A reserve keeps the tables typed; refused or not, it never takes the balance below zero.
LEMMA ReservedLedger ==
    ASSUME Ind, RowsFinite, NEW c \in Calls, Reserved(c)
    PROVE  LedgerTyped' /\ (Balance' >= 0 \/ Balance' >= Balance)
<1>1. today \subseteq Calls
  BY DEF Ind, TypeOK
<1>2. CASE Refused(c)
  <2>1. Expire
    BY <1>2 DEF Reserved
  <2>2. tot' = TotThen
    BY <2>1 DEF Expire
  <2>3. Balance' = Balance
    BY <2>2, ExpiryIsEven DEF Balance, Left
  <2>4. LedgerTyped'
    BY <1>1, <2>1, ExpireTyped, ExpiryIsEven DEF Expire, LedgerTyped
  <2> QED BY <2>3, <2>4, ExpiryIsEven
<1>3. CASE ~Refused(c)
  <2>1. /\ held' = HeldThen \cup {c} /\ old' = {} /\ today' = today \cup {c}
        /\ spend' = SpendThen /\ events' = EventsThen
        /\ tot' = [TotThen EXCEPT !.reserved = @ + Worst[c]]
    BY <1>3 DEF Reserved
  <2>2. Worst[c] \in Nat /\ Left(TotThen) >= Worst[c]
    BY <1>3, LedgerAssumption, ExpiryIsEven DEF Refused
  <2>3. /\ tot' \in [granted : Int, included : Int, spent : Int, reserved : Int]
        /\ Left(tot') = Left(TotThen) - Worst[c]
    BY <2>1, <2>2, ExpiryIsEven DEF Left
  <2>4. Balance' >= 0
    BY <2>2, <2>3, ExpiryIsEven DEF Balance, Left
  <2>5. LedgerTyped'
    BY <1>1, <2>1, <2>3, ExpireTyped DEF LedgerTyped
  <2> QED BY <2>4, <2>5
<1> QED BY <1>2, <1>3

\* A settle of a call that is held or charged already, or at nothing, keeps the
\* tables typed and never takes more than the hold gives back.
LEMMA SettledLedger ==
    ASSUME Ind, NEW c \in Calls, NEW n \in Nat, Settled(c, n),
           c \in held \/ spend[c] # None \/ n = 0
    PROVE  LedgerTyped' /\ Balance' >= Balance
<1>1. /\ held \subseteq Calls /\ old \subseteq held /\ today \subseteq Calls
      /\ spend \in [Calls -> Nat \cup {None}]
      /\ tot \in [granted : Int, included : Int, spent : Int, reserved : Int]
      /\ events \subseteq Calls \X {"expired", "late_settle"}
      /\ Worst[c] \in Nat
  BY LedgerAssumption DEF Ind, TypeOK
<1>2. Writes(c, n) => c \in held
  BY DEF Writes
<1>3. c \in held => Writes(c, n)
  BY DEF Ind, Good, CallInv, Writes
<1>4. c \in held => Charge(c, n) \in Nat /\ Charge(c, n) <= Worst[c]
  BY <1>1 DEF Charge, Lesser
<1>5. held' \subseteq Calls /\ old' \subseteq held'
  BY <1>1 DEF Settled
<1>6. CASE c \in held
  <2>1. /\ spend' = [spend EXCEPT ![c] = Charge(c, n)] /\ today' = today \cup {c}
        /\ tot' = [tot EXCEPT !.spent = @ + Charge(c, n), !.reserved = @ - Worst[c]]
        /\ events' \subseteq events \cup {<<c, "late_settle">>}
    BY <1>3, <1>6 DEF Settled
  <2>2. /\ tot' = [granted |-> tot.granted, included |-> tot.included,
                   spent |-> tot.spent + Charge(c, n), reserved |-> tot.reserved - Worst[c]]
        /\ tot' \in [granted : Int, included : Int, spent : Int, reserved : Int]
    <3>1. tot' = [granted |-> tot.granted, included |-> tot.included,
                  spent |-> tot.spent + Charge(c, n), reserved |-> tot.reserved - Worst[c]]
      BY <1>1, <2>1
    <3> QED BY <1>1, <1>4, <1>6, <3>1
  <2>3. Balance' = Balance + Worst[c] - Charge(c, n) /\ Balance \in Int
    BY <1>1, <1>4, <1>6, <2>1 DEF Balance
  <2>4. Balance' >= Balance
    BY <1>1, <1>4, <1>6, <2>3
  <2>5. spend' \in [Calls -> Nat \cup {None}] /\ today' \subseteq Calls
    BY <1>1, <1>4, <1>6, <2>1
  <2>6. events' \subseteq Calls \X {"expired", "late_settle"}
    BY <1>1, <2>1
  <2> QED BY <1>5, <2>2, <2>4, <2>5, <2>6 DEF LedgerTyped
<1>7. CASE c \notin held
  <2>1. /\ UNCHANGED <<spend, today>>
        /\ tot' = [tot EXCEPT !.spent = @, !.reserved = @]
        /\ events' \subseteq events \cup {<<c, "late_settle">>}
    BY <1>2, <1>7 DEF Settled
  <2>2. tot' = tot
    BY <1>1, <2>1
  <2>3. Balance' = Balance /\ Balance \in Int
    BY <1>1, <2>2 DEF Balance
  <2>4. LedgerTyped'
    BY <1>1, <1>5, <2>1, <2>2 DEF LedgerTyped
  <2> QED BY <2>3, <2>4
<1> QED BY <1>6, <1>7

-----------------------------------------------------------------------------
(* One lemma for each action: it keeps Ind.                                 *)

ResidentTyped ==
    /\ call \in [Calls -> [pc : Phases, gone : BOOLEAN, charge : Nat \cup {None}]]
    /\ open \subseteq Listed /\ release \in [Calls -> Passes]
    /\ net \subseteq Requests /\ resets \in 0 .. MaxResets

GrantsTyped ==
    /\ grants \subseteq Grants /\ pauses \in BOOLEAN
    /\ \A g \in grants : g.kind = "included_expire" => g.nano <= 0

\* The type invariant is that of the Ledger's rows, of the grants and of the Residents.
LEMMA TypeParts == TypeOK <=> LedgerTyped /\ GrantsTyped /\ ResidentTyped
BY DEF TypeOK, LedgerTyped, GrantsTyped, ResidentTyped

\* The three kinds of request are told apart, and name their call.
LEMMA RequestKinds ==
    ASSUME NEW c \in Calls, NEW n \in Nat
    PROVE  /\ Reserve(c) \in Requests /\ Settle(c, n) \in Requests /\ Release(c) \in Requests
           /\ Reserve(c).of = c /\ Reserve(c).op = "reserve"
           /\ Settle(c, n).of = c /\ Settle(c, n).op = "settle" /\ Settle(c, n).nano = n
           /\ Release(c).of = c /\ Release(c).op = "release"
BY DEF Requests, Reserve, Settle, Release

\* A call that moves to another phase keeps its type, and so do the others.
LEMMA MoveTyped ==
    ASSUME TypeOK, NEW c \in Calls, NEW pc \in Phases, NEW gone \in BOOLEAN,
           NEW charge \in Nat \cup {None}, Becomes(c, pc, gone, charge)
    PROVE  /\ call' \in [Calls -> [pc : Phases, gone : BOOLEAN, charge : Nat \cup {None}]]
           /\ call'[c].pc = pc /\ call'[c].gone = gone /\ call'[c].charge = charge
           /\ \A d \in Calls : d # c => call'[d] = call[d]
BY DEF TypeOK, Becomes

\* The fields of a call have their types.
LEMMA FieldsTyped ==
    ASSUME TypeOK, NEW c \in Calls
    PROVE  call[c].gone \in BOOLEAN /\ call[c].charge \in Nat \cup {None}
BY CallTyped

\* So for the two ways a call moves on.
LEMMA GoesOn ==
    ASSUME TypeOK, NEW c \in Calls, NEW pc \in Phases, GoTo(c, pc) \/ Ends(c, pc)
    PROVE  /\ call' \in [Calls -> [pc : Phases, gone : BOOLEAN, charge : Nat \cup {None}]]
           /\ call'[c].pc = pc /\ call'[c].charge = call[c].charge
           /\ GoTo(c, pc) => call'[c].gone = call[c].gone
           /\ \A d \in Calls : d # c => call'[d] = call[d]
<1>1. call[c].gone \in BOOLEAN /\ call[c].charge \in Nat \cup {None}
  BY FieldsTyped
<1>2. CASE GoTo(c, pc)
  <2>1. Becomes(c, pc, call[c].gone, call[c].charge)
    BY <1>2 DEF GoTo
  <2> QED BY <1>1, <2>1, MoveTyped
<1>3. CASE Ends(c, pc)
  <2>1. Becomes(c, pc, FALSE, call[c].charge)
    BY <1>3 DEF Ends
  <2>2. /\ call' \in [Calls -> [pc : Phases, gone : BOOLEAN, charge : Nat \cup {None}]]
        /\ call'[c].pc = pc /\ call'[c].gone = FALSE /\ call'[c].charge = call[c].charge
        /\ \A d \in Calls : d # c => call'[d] = call[d]
    BY <1>1, <2>1, MoveTyped
  <2>3. GoTo(c, pc) => call'[c].gone = call[c].gone
    <3>1. ASSUME GoTo(c, pc) PROVE call'[c].gone = call[c].gone
      <4>1. Becomes(c, pc, call[c].gone, call[c].charge)
        BY <3>1 DEF GoTo
      <4> QED BY <4>1 DEF Becomes, TypeOK
    <3> QED BY <3>1
  <2> QED BY <2>2, <2>3
<1> QED BY <1>2, <1>3

\* A call that asks is written in res_open before its request leaves.
LEMMA AskKeeps ==
    ASSUME Ind, NEW c \in Calls, Ask(c), UNCHANGED resets
    PROVE  Ind'
<1>0. TypeOK
  BY DEF Ind
<1>1. /\ GoTo(c, "asked") /\ open' = open \cup ({c} \cap Listed)
      /\ net' = net \cup {Reserve(c)} /\ UNCHANGED <<ledger, release, resets>>
      /\ call[c].pc = "new" /\ ~call[c].gone
  BY DEF Ask, At
<1>m. /\ call' \in [Calls -> [pc : Phases, gone : BOOLEAN, charge : Nat \cup {None}]]
      /\ call'[c].pc = "asked" /\ call'[c].charge = call[c].charge
      /\ call'[c].gone = call[c].gone
      /\ \A d \in Calls : d # c => call'[d] = call[d]
  <2>1. "asked" \in Phases
    BY DEF Phases
  <2> QED BY <1>0, <1>1, <2>1, GoesOn
<1>2. TypeOK'
  <2>1. LedgerTyped' /\ GrantsTyped'
    BY <1>1, TypeParts DEF Ind, ledger, rows, LedgerTyped, GrantsTyped
  <2>2. open' \subseteq Listed /\ net' \subseteq Requests
    BY <1>0, <1>1, RequestKinds DEF TypeOK
  <2>3. UNCHANGED <<release, resets>>
    BY <1>1
  <2>4. ResidentTyped'
    BY <1>0, <1>m, <2>2, <2>3 DEF TypeOK, ResidentTyped
  <2> QED BY <2>1, <2>4 DEF TypeOK, LedgerTyped, GrantsTyped, ResidentTyped
<1>3. GrantInv'
  BY <1>1 DEF Ind, GrantInv, Granted, ledger
<1>4. ASSUME NEW d \in Calls, d # c PROVE Good(d)'
  <2>1. SameCall(d)
    BY <1>1, <1>m, <1>4, RequestKinds DEF SameCall, Ind, TypeOK
  <2> QED BY <1>1, <2>1, Untouched DEF Ind, ledger, rows
<1>5. Good(c)'
  <2>2. CallInv(c)'
    BY <1>1, <1>m DEF Ind, Good, CallInv, At, InFlight, ledger, rows
  <2>3. RequestInv(c)'
    BY <1>1, <1>m, RequestKinds DEF Ind, Good, RequestInv, At, Reserve
  <2>4. ChargeTrue(c)' /\ HoldKnown(c)'
    BY <1>1, <1>m DEF Ind, Good, ChargeTrue, HoldKnown, CallInv, Due, At, ledger, rows
  <2> QED BY <2>2, <2>3, <2>4 DEF Good
<1> QED BY <1>2, <1>3, <1>4, <1>5 DEF Ind

\* A reserve the Ledger handled, for whatever its call makes of the answer: the
\* other calls stay good.
LEMMA ReservedOthers ==
    ASSUME Ind, NEW c \in Calls, Reserved(c), NEW d \in Calls, d # c, SameCall(d)
    PROVE  Good(d)'
<1>1. /\ d \in held' <=> d \in HeldThen
      /\ spend'[d] = SpendThen[d] /\ events' = EventsThen
  BY DEF Reserved, Expire
<1> QED BY <1>1, Outlived DEF Ind

\* The rows of the call itself after its reserve.
LEMMA ReservedSelf ==
    ASSUME Ind, NEW c \in Calls, Reserved(c), Reserve(c) \in net
    PROVE  /\ call[c].pc = "asked" /\ c \notin held /\ spend[c] = None
           /\ c \in held' <=> ~Refused(c)
           /\ spend'[c] = None
           /\ \A q \in net : ~(q.of = c /\ q.op = "settle")
<1>1. call[c].pc = "asked"
  BY DEF Ind, Good, RequestInv, At
<1>2. c \notin held /\ spend[c] = None
  BY <1>1 DEF Ind, Good, CallInv
<1>3. c \notin old
  BY <1>2 DEF Ind, TypeOK
<1>4. SpendThen[c] = None /\ c \notin HeldThen
  BY <1>2, <1>3 DEF SpendThen, Expiring, HeldThen
<1>5. (c \in held' <=> ~Refused(c)) /\ spend'[c] = None
  BY <1>4 DEF Reserved, Expire
<1> QED BY <1>1, <1>2, <1>5 DEF Ind, Good, RequestInv, At

\* A reserve, heard or not: the call runs with a hold, or has none.
LEMMA ReserveKeeps ==
    ASSUME Ind, RowsFinite, NEW c \in Calls, ReserveAnswered(c) \/ ReserveUnheard(c), UNCHANGED resets
    PROVE  Ind'
<1>1. /\ Reserve(c) \in net /\ Reserved(c) /\ net' = net \ {Reserve(c)} /\ UNCHANGED release
      /\ open' \subseteq open /\ open \ {c} \subseteq open'
      /\ UNCHANGED <<grants, pauses>>
  BY DEF ReserveAnswered, ReserveUnheard, Reserved
<1>0. TypeOK
  BY DEF Ind
<1>2. \E pc \in {"refused", "unheard", "running"} :
        /\ GoTo(c, pc) \/ Ends(c, pc)
        /\ pc = "refused" <=> Refused(c)
        /\ pc = "running" => /\ GoTo(c, pc) /\ open' = open
                             /\ ~(call[c].gone /\ c \in Listed \ open)
  BY DEF ReserveAnswered, ReserveUnheard
<1>3. /\ \E pc \in {"refused", "unheard", "running"} :
            /\ call'[c].pc = pc
            /\ (pc = "refused" <=> Refused(c))
            /\ pc = "running" => /\ call'[c].gone = call[c].gone /\ open' = open
                                 /\ ~(call[c].gone /\ c \in Listed \ open)
      /\ call'[c].charge = call[c].charge
      /\ \A d \in Calls : d # c => call'[d] = call[d]
      /\ call' \in [Calls -> [pc : Phases, gone : BOOLEAN, charge : Nat \cup {None}]]
  <2>1. PICK pc \in {"refused", "unheard", "running"} :
          /\ GoTo(c, pc) \/ Ends(c, pc)
          /\ pc = "refused" <=> Refused(c)
          /\ pc = "running" => /\ GoTo(c, pc) /\ open' = open
                               /\ ~(call[c].gone /\ c \in Listed \ open)
    BY <1>2
  <2>2. pc \in Phases
    BY DEF Phases
  <2>3. /\ call' \in [Calls -> [pc : Phases, gone : BOOLEAN, charge : Nat \cup {None}]]
        /\ call'[c].pc = pc /\ call'[c].charge = call[c].charge
        /\ GoTo(c, pc) => call'[c].gone = call[c].gone
        /\ \A d \in Calls : d # c => call'[d] = call[d]
    BY <1>0, <2>1, <2>2, GoesOn
  <2> QED BY <2>1, <2>3
<1>4. TypeOK'
  <2>1. open' \subseteq open /\ net' \subseteq net /\ UNCHANGED <<release, resets>>
    BY <1>1
  <2>2. ResidentTyped'
    BY <1>0, <1>3, <2>1 DEF TypeOK, ResidentTyped
  <2>3. UNCHANGED <<grants, pauses>>
    BY <1>1
  <2>4. GrantsTyped'
    BY <1>0, <2>3 DEF TypeOK, GrantsTyped
  <2>5. LedgerTyped'
    BY <1>1, ReservedLedger
  <2> QED BY <2>2, <2>4, <2>5 DEF TypeOK, LedgerTyped, GrantsTyped, ResidentTyped
<1>5. GrantInv'
  BY <1>1 DEF Ind, GrantInv, Granted
<1>6. ASSUME NEW d \in Calls, d # c PROVE Good(d)'
  <2>1. SameCall(d)
    BY <1>1, <1>3, <1>6 DEF SameCall
  <2> QED BY <1>1, <1>6, <2>1, ReservedOthers
<1>7. Good(c)'
  <2>1. /\ call[c].pc = "asked" /\ spend'[c] = None /\ (c \in held' <=> ~Refused(c))
        /\ \A q \in net : ~(q.of = c /\ q.op = "settle")
    BY <1>1, ReservedSelf
  <2>2. /\ ~call[c].gone => release[c] = "none" /\ (c \in Listed => c \in open)
    BY <2>1 DEF Ind, Good, CallInv, InFlight
  <2>3. call[c].charge = None
    BY <2>1 DEF Ind, Good, CallInv
  <2>4. CallInv(c)'
    BY <1>1, <1>3, <2>1, <2>2, <2>3 DEF CallInv, At, InFlight
  <2>5. RequestInv(c)'
    BY <1>1, <2>1 DEF RequestInv
  <2>6. Due(c)' \in Nat
    BY <1>4, CallTyped, LedgerAssumption DEF Due, Lesser, TypeOK
  <2>7. ChargeTrue(c)'
    BY <1>3, <2>1, <2>6, NoneApart DEF ChargeTrue, At
  <2>8. HoldKnown(c)'
    BY <1>3, <2>1, <2>2 DEF HoldKnown, At
  <2> QED BY <2>4, <2>5, <2>7, <2>8 DEF Good
<1> QED BY <1>4, <1>5, <1>6, <1>7 DEF Ind

\* A reserve that got lost gives its call up.
LEMMA LostKeeps ==
    ASSUME Ind, NEW c \in Calls, ReserveLost(c), UNCHANGED resets
    PROVE  Ind'
<1>0. TypeOK
  BY DEF Ind
<1>1. /\ Reserve(c) \in net /\ net' = net \ {Reserve(c)} /\ UNCHANGED <<ledger, release, resets>>
      /\ open' \subseteq open /\ open \ {c} \subseteq open'
  BY DEF ReserveLost
<1>2. \/ call' = call /\ open' = open /\ call[c].gone
      \/ Ends(c, "refused")
  BY DEF ReserveLost
<1>3. /\ call' \in [Calls -> [pc : Phases, gone : BOOLEAN, charge : Nat \cup {None}]]
      /\ (call'[c] = call[c] /\ open' = open) \/ call'[c].pc = "refused"
      /\ call'[c].charge = call[c].charge
      /\ \A d \in Calls : d # c => call'[d] = call[d]
  <2>1. CASE call' = call /\ open' = open
    BY <1>0, <2>1 DEF TypeOK
  <2>2. CASE Ends(c, "refused")
    <3>1. "refused" \in Phases
      BY DEF Phases
    <3> QED BY <1>0, <2>2, <3>1, GoesOn
  <2> QED BY <1>2, <2>1, <2>2
<1>4. TypeOK'
  <2>1. open' \subseteq open /\ net' \subseteq net /\ UNCHANGED <<release, resets>>
    BY <1>1
  <2>2. ResidentTyped'
    BY <1>0, <1>3, <2>1 DEF TypeOK, ResidentTyped
  <2>3. LedgerTyped' /\ GrantsTyped'
    BY <1>1, TypeParts DEF Ind, ledger, rows, LedgerTyped, GrantsTyped
  <2> QED BY <2>2, <2>3 DEF TypeOK, LedgerTyped, GrantsTyped, ResidentTyped
<1>5. GrantInv'
  BY <1>1 DEF Ind, GrantInv, Granted, ledger
<1>6. ASSUME NEW d \in Calls, d # c PROVE Good(d)'
  <2>1. SameCall(d)
    BY <1>1, <1>3, <1>6 DEF SameCall
  <2> QED BY <1>1, <2>1, Untouched DEF Ind, ledger, rows
<1>7. Good(c)'
  <2>1. call[c].pc = "asked" /\ \A q \in net : ~(q.of = c /\ q.op = "settle")
    BY <1>1 DEF Ind, Good, RequestInv, At
  <2>2. CallInv(c)'
    BY <1>1, <1>3, <2>1 DEF Ind, Good, CallInv, At, InFlight, ledger, rows
  <2>3. RequestInv(c)'
    BY <1>1, <2>1 DEF RequestInv
  <2>4. ChargeTrue(c)' /\ HoldKnown(c)'
    BY <1>1, <1>3, <2>1 DEF Ind, Good, ChargeTrue, HoldKnown, CallInv, Due, At, ledger, rows
  <2> QED BY <2>2, <2>3, <2>4 DEF Good
<1> QED BY <1>4, <1>5, <1>6, <1>7 DEF Ind

\* A call that ends asks for its settle.
LEMMA FinishKeeps ==
    ASSUME Ind, NEW c \in Calls, Finish(c), UNCHANGED resets
    PROVE  Ind'
<1>0. TypeOK
  BY DEF Ind
<1>1. PICK n \in Nat : Becomes(c, "closing", call[c].gone, n) /\ net' = net \cup {Settle(c, n)}
  BY LedgerAssumption DEF Finish
<1>2. call[c].pc = "running" /\ UNCHANGED <<ledger, open, release, resets>>
  BY DEF Finish, At
<1>3. /\ call' \in [Calls -> [pc : Phases, gone : BOOLEAN, charge : Nat \cup {None}]]
      /\ call'[c].pc = "closing" /\ call'[c].gone = call[c].gone /\ call'[c].charge = n
      /\ \A d \in Calls : d # c => call'[d] = call[d]
  <2>1. "closing" \in Phases /\ call[c].gone \in BOOLEAN
    BY <1>0, FieldsTyped DEF Phases
  <2> QED BY <1>0, <1>1, <2>1, MoveTyped
<1>4. TypeOK'
  <2>1. net' \subseteq Requests /\ UNCHANGED <<open, release, resets>>
    BY <1>0, <1>1, <1>2, RequestKinds DEF TypeOK
  <2>2. ResidentTyped'
    BY <1>0, <1>3, <2>1 DEF TypeOK, ResidentTyped
  <2>3. LedgerTyped' /\ GrantsTyped'
    BY <1>2, TypeParts DEF Ind, ledger, rows, LedgerTyped, GrantsTyped
  <2> QED BY <2>2, <2>3 DEF TypeOK, LedgerTyped, GrantsTyped, ResidentTyped
<1>5. GrantInv'
  BY <1>2 DEF Ind, GrantInv, Granted, ledger
<1>6. ASSUME NEW d \in Calls, d # c PROVE Good(d)'
  <2>1. SameCall(d)
    BY <1>1, <1>2, <1>3, <1>6, RequestKinds DEF SameCall
  <2> QED BY <1>2, <2>1, Untouched DEF Ind, ledger, rows
<1>7. Good(c)'
  <2>1. /\ spend[c] \in {None, 0, Worst[c]} /\ call[c].charge = None
        /\ Reserve(c) \notin net /\ \A q \in net : ~(q.of = c /\ q.op = "settle")
    BY <1>2 DEF Ind, Good, CallInv, RequestInv, At
  <2>2. CallInv(c)'
    BY <1>2, <1>3 DEF Ind, Good, CallInv, At, InFlight, ledger, rows
  <2>3. RequestInv(c)'
    BY <1>1, <1>3, <2>1, RequestKinds DEF RequestInv, At, Reserve
  <2>4. Due(c)' \in Nat /\ Due(c) = 0
    BY <1>4, <2>1, CallTyped, LedgerAssumption DEF Due, Lesser, TypeOK
  <2>5. ChargeTrue(c)'
    <3>1. spend[c] > 0 => <<c, "expired">> \in events
      BY <2>4 DEF Ind, Good, ChargeTrue
    <3>2. spend' = spend /\ events' = events
      BY <1>2 DEF ledger, rows
    <3>3. spend[c] \in Nat \cup {None}
      BY <1>0 DEF TypeOK
    <3> QED BY <1>3, <2>4, <3>1, <3>2, <3>3, NoneApart DEF ChargeTrue, At
  <2>6. HoldKnown(c)'
    BY <1>2, <1>3 DEF Ind, Good, HoldKnown, At, ledger, rows
  <2> QED BY <2>2, <2>3, <2>5, <2>6 DEF Good
<1> QED BY <1>4, <1>5, <1>6, <1>7 DEF Ind

\* A settle the Ledger handled leaves the other calls good.
LEMMA SettledOthers ==
    ASSUME Ind, NEW c \in Calls, NEW n \in Nat, Settled(c, n),
           NEW d \in Calls, d # c, SameCall(d)
    PROVE  Good(d)'
<1>1. (d \in held' <=> d \in held) /\ events \subseteq events'
  BY DEF Settled
<1>2. spend'[d] = spend[d]
  BY DEF Settled, Ind, TypeOK
<1> QED BY <1>1, <1>2, Untouched DEF Ind

\* The rows of the call itself after a settle.
LEMMA SettledSelf ==
    ASSUME Ind, NEW c \in Calls, NEW n \in Nat, Settled(c, n),
           c \in held \/ spend[c] # None \/ n = 0
    PROVE  /\ c \notin held' /\ events \subseteq events'
           /\ c \in held => spend'[c] = Lesser(n, Worst[c])
           /\ c \notin held => spend'[c] = spend[c]
           /\ c \notin held /\ n > 0 /\ spend[c] = 0 => <<c, "late_settle">> \in events'
<1>1. c \notin held' /\ events \subseteq events'
  BY DEF Settled
<1>2. ASSUME c \in held PROVE spend'[c] = Lesser(n, Worst[c])
  <2>1. Writes(c, n)
    BY <1>2 DEF Writes, Ind, Good, CallInv
  <2> QED BY <1>2, <2>1 DEF Settled, Charge, Ind, TypeOK
<1>3. ASSUME c \notin held PROVE spend'[c] = spend[c]
  <2>1. ~Writes(c, n)
    BY <1>3 DEF Writes
  <2> QED BY <2>1 DEF Settled
<1>4. c \notin held /\ n > 0 /\ spend[c] = 0 => <<c, "late_settle">> \in events'
  BY DEF Settled, Late
<1> QED BY <1>1, <1>2, <1>3, <1>4

\* What a settle on its way says of its call.
LEMMA SettleWaits ==
    ASSUME Ind, NEW c \in Calls, NEW n \in Nat, Settle(c, n) \in net
    PROVE  /\ call[c].pc = "closing" /\ call[c].charge = n
           /\ Due(c) = Lesser(n, Worst[c])
           /\ c \in held \/ spend[c] # None
           /\ spend[c] \in {None, 0, Worst[c]}
           /\ Reserve(c) \notin net
           /\ \A q \in net \ {Settle(c, n)} : ~(q.of = c /\ q.op = "settle")
<1>1. call[c].pc = "closing" /\ call[c].charge = n
  BY RequestKinds DEF Ind, Good, RequestInv, At
<1>2. c \in held \/ spend[c] # None
  BY <1>1 DEF Ind, Good, CallInv
<1>3. spend[c] \in {None, 0, Worst[c]}
  BY <1>1 DEF Ind, Good, CallInv
<1>4. Reserve(c) \notin net
  BY <1>1 DEF Ind, Good, RequestInv, At
<1>5. Due(c) = Lesser(n, Worst[c])
  BY <1>1, NoneApart DEF Due
<1>6. ASSUME NEW q \in net, q.of = c, q.op = "settle" PROVE q = Settle(c, n)
  <2>1. q \in Requests /\ q.nano = n
    BY <1>1, <1>6 DEF Ind, TypeOK, Good, RequestInv
  <2> QED BY <1>6, <2>1 DEF Requests, Settle
<1> QED BY <1>1, <1>2, <1>3, <1>4, <1>5, <1>6

\* A call whose settle was heard is done; one whose settle failed stays listed.
LEMMA SettleKeeps ==
    ASSUME Ind, NEW c \in Calls, NEW n \in Nat,
           SettleAnswered(c, n) \/ SettleFails(c, n), UNCHANGED resets
    PROVE  Ind'
<1>0. TypeOK
  BY DEF Ind
<1>1. /\ Settle(c, n) \in net /\ net' = net \ {Settle(c, n)} /\ UNCHANGED <<release, resets>>
      /\ open' \subseteq open /\ open \ {c} \subseteq open'
      /\ UNCHANGED <<grants, pauses>>
  BY DEF SettleAnswered, SettleFails, Settled, Unsure, ledger
<1>2. \/ Ends(c, "done") /\ Settled(c, n)
      \/ Ends(c, "unsure") /\ UNCHANGED open /\ (Settled(c, n) \/ UNCHANGED ledger)
  BY DEF SettleAnswered, SettleFails, Unsure
<1>3. /\ call' \in [Calls -> [pc : Phases, gone : BOOLEAN, charge : Nat \cup {None}]]
      /\ \/ call'[c].pc = "done" /\ Settled(c, n)
         \/ call'[c].pc = "unsure" /\ UNCHANGED open /\ (Settled(c, n) \/ UNCHANGED ledger)
      /\ call'[c].charge = call[c].charge
      /\ \A d \in Calls : d # c => call'[d] = call[d]
  <2>1. "done" \in Phases /\ "unsure" \in Phases
    BY DEF Phases
  <2> QED BY <1>0, <1>2, <2>1, GoesOn
<1>4. /\ call[c].pc = "closing" /\ call[c].charge = n
      /\ Due(c) = Lesser(n, Worst[c])
      /\ c \in held \/ spend[c] # None
      /\ spend[c] \in {None, 0, Worst[c]}
      /\ Reserve(c) \notin net
      /\ \A q \in net \ {Settle(c, n)} : ~(q.of = c /\ q.op = "settle")
  BY <1>1, SettleWaits
<1>5. TypeOK'
  <2>1. open' \subseteq open /\ net' \subseteq net /\ UNCHANGED <<release, resets>>
    BY <1>1
  <2>2. ResidentTyped'
    BY <1>0, <1>3, <2>1 DEF TypeOK, ResidentTyped
  <2>3. GrantsTyped'
    BY <1>0, <1>1 DEF TypeOK, GrantsTyped
  <2>4. LedgerTyped'
    <3>1. CASE Settled(c, n)
      BY <1>4, <3>1, SettledLedger
    <3>2. CASE UNCHANGED ledger
      BY <1>0, <3>2 DEF TypeOK, LedgerTyped, ledger, rows
    <3> QED BY <1>3, <3>1, <3>2
  <2> QED BY <2>2, <2>3, <2>4 DEF TypeOK, LedgerTyped, GrantsTyped, ResidentTyped
<1>6. GrantInv'
  BY <1>1 DEF Ind, GrantInv, Granted
<1>7. ASSUME NEW d \in Calls, d # c PROVE Good(d)'
  <2>1. SameCall(d)
    BY <1>1, <1>3, <1>7 DEF SameCall
  <2>2. CASE Settled(c, n)
    BY <1>7, <2>1, <2>2, SettledOthers
  <2>3. CASE UNCHANGED ledger
    BY <2>1, <2>3, Untouched DEF Ind, ledger, rows
  <2> QED BY <1>3, <2>2, <2>3
<1>8. Good(c)'
  <2>0. /\ spend[c] \in Nat \cup {None} /\ Worst[c] \in Nat /\ Due(c) \in Nat
        /\ Due(c)' = Due(c)
        /\ spend[c] > Due(c) => <<c, "expired">> \in events
        /\ c \in held => spend[c] = None
    BY <1>0, <1>3, CallTyped DEF Due, Ind, Good, ChargeTrue, CallInv
  <2>1. CASE Settled(c, n)
    <3>1. /\ c \notin held' /\ events \subseteq events'
          /\ c \in held => spend'[c] = Due(c)
          /\ c \notin held => spend'[c] = spend[c]
          /\ c \notin held /\ n > 0 /\ spend[c] = 0 => <<c, "late_settle">> \in events'
      BY <1>4, <2>1, SettledSelf
    <3>2. spend'[c] # None
      BY <1>4, <2>0, <3>1, NoneApart
    <3>3. CallInv(c)'
      BY <1>3, <3>1, <3>2 DEF CallInv, At, InFlight
    <3>4. RequestInv(c)'
      BY <1>1, <1>4 DEF RequestInv, Reserve
    <3>5. spend'[c] > Due(c)' => <<c, "expired">> \in events'
      BY <2>0, <3>1
    <3>6. spend'[c] < Due(c)' => <<c, "late_settle">> \in events'
      BY <1>4, <2>0, <3>1 DEF Lesser
    <3>7. HoldKnown(c)'
      BY <3>1 DEF HoldKnown
    <3> QED BY <3>3, <3>4, <3>5, <3>6, <3>7 DEF Good, ChargeTrue
  <2>2. CASE call'[c].pc = "unsure" /\ UNCHANGED open /\ UNCHANGED ledger
    <3>1. held' = held /\ spend' = spend /\ events' = events /\ open' = open
      BY <2>2 DEF ledger, rows
    <3>2. CallInv(c)'
      BY <1>4, <2>0, <2>2, <3>1 DEF CallInv, At, InFlight
    <3>3. RequestInv(c)'
      BY <1>1, <1>4 DEF RequestInv, Reserve
    <3>4. ChargeTrue(c)'
      BY <2>0, <2>2, <3>1 DEF ChargeTrue, At
    <3>5. HoldKnown(c)'
      BY <1>4, <3>1 DEF Ind, Good, HoldKnown, At
    <3> QED BY <3>2, <3>3, <3>4, <3>5 DEF Good
  <2> QED BY <1>3, <2>1, <2>2
<1> QED BY <1>5, <1>6, <1>7, <1>8 DEF Ind

\* A release settles at nothing, or is lost; the call it names may run on.
LEMMA ReleaseKeeps ==
    ASSUME Ind, NEW c \in Calls,
           ReleaseAnswered(c) \/ ReleaseFails(c), UNCHANGED resets
    PROVE  Ind'
<1>0. TypeOK
  BY DEF Ind
<1>1. /\ net' \subseteq net /\ UNCHANGED <<call, resets, grants, pauses>>
      /\ Settled(c, 0) \/ UNCHANGED ledger
      /\ open' \subseteq open /\ open \ {c} \subseteq open'
      /\ release[c] # "sent" => UNCHANGED <<release, open>>
      /\ Settled(c, 0) \/ open' = open
      /\ release' \in [Calls -> Passes] /\ \A d \in Calls : d # c => release'[d] = release[d]
  <2>1. release \in [Calls -> Passes] /\ "none" \in Passes
    BY <1>0 DEF TypeOK, Passes
  <2>2. CASE ReleaseAnswered(c)
    BY <2>1, <2>2 DEF ReleaseAnswered, Settled
  <2>3. CASE ReleaseFails(c)
    <3>1. release' = [release EXCEPT ![c] = IF release[c] = "sent" THEN "none" ELSE release[c]]
          /\ UNCHANGED <<call, open>> /\ net' = net \ {Release(c)}
          /\ (Settled(c, 0) \/ UNCHANGED ledger)
      BY <2>3 DEF ReleaseFails
    <3>2. UNCHANGED <<grants, pauses>>
      BY <3>1 DEF Settled, ledger
    <3> QED BY <2>1, <3>1, <3>2
  <2> QED BY <2>2, <2>3
<1>2. TypeOK'
  <2>1. ResidentTyped'
    BY <1>0, <1>1 DEF TypeOK, ResidentTyped
  <2>2. GrantsTyped'
    BY <1>0, <1>1 DEF TypeOK, GrantsTyped
  <2>3. LedgerTyped'
    <3>1. CASE Settled(c, 0)
      BY <3>1, SettledLedger
    <3>2. CASE UNCHANGED ledger
      BY <1>0, <3>2 DEF TypeOK, LedgerTyped, ledger, rows
    <3> QED BY <1>1, <3>1, <3>2
  <2> QED BY <2>1, <2>2, <2>3 DEF TypeOK, LedgerTyped, GrantsTyped, ResidentTyped
<1>3. GrantInv'
  BY <1>1 DEF Ind, GrantInv, Granted
<1>4. ASSUME NEW d \in Calls, d # c PROVE Good(d)'
  <2>1. SameCall(d)
    BY <1>1, <1>4 DEF SameCall
  <2>2. CASE Settled(c, 0)
    BY <1>4, <2>1, <2>2, SettledOthers
  <2>3. CASE UNCHANGED ledger
    BY <2>1, <2>3, Untouched DEF Ind, ledger, rows
  <2> QED BY <1>1, <2>2, <2>3
<1>5. Good(c)'
  <2>0. /\ InFlight(c) /\ ~call[c].gone => release[c] = "none"
        /\ At(c, "new") => release[c] = "none"
        /\ Worst[c] \in Nat /\ Due(c) \in Nat /\ Due(c)' = Due(c)
        /\ call' = call
    BY <1>0, <1>1, CallTyped DEF Due, Ind, Good, CallInv
  <2>1. /\ InFlight(c)' /\ ~call'[c].gone => release'[c] = "none" /\ (c \in Listed => c \in open')
        /\ At(c, "new")' => release'[c] = "none" /\ c \notin open'
    BY <1>1, <2>0 DEF Ind, Good, CallInv, At, InFlight
  <2>2. RequestInv(c)'
    BY <1>1 DEF Ind, Good, RequestInv, At, Reserve
  <2>3. CASE Settled(c, 0)
    <3>1. /\ c \notin held' /\ events \subseteq events'
          /\ c \in held => spend'[c] = 0
          /\ c \notin held => spend'[c] = spend[c]
      <4>1. /\ c \notin held' /\ events \subseteq events'
            /\ c \in held => spend'[c] = Lesser(0, Worst[c])
            /\ c \notin held => spend'[c] = spend[c]
        BY <2>3, SettledSelf
      <4>2. Lesser(0, Worst[c]) = 0
        BY <2>0 DEF Lesser
      <4> QED BY <4>1, <4>2
    <3>2. CallInv(c)'
      BY <2>0, <2>1, <3>1, NoneApart DEF Ind, Good, CallInv, At, InFlight
    <3>3. ChargeTrue(c)'
      <4>1. CASE c \in held
        BY <2>0, <3>1, <4>1 DEF Ind, Good, ChargeTrue, CallInv, At
      <4>2. CASE c \notin held
        BY <2>0, <3>1, <4>2 DEF Ind, Good, ChargeTrue, At
      <4> QED BY <4>1, <4>2
    <3>4. HoldKnown(c)'
      BY <3>1 DEF HoldKnown
    <3> QED BY <2>2, <3>2, <3>3, <3>4 DEF Good
  <2>4. CASE UNCHANGED ledger /\ open' = open
    <3>1. held' = held /\ spend' = spend /\ events' = events
      BY <2>4 DEF ledger, rows
    <3>2. CallInv(c)'
      BY <2>0, <2>1, <3>1 DEF Ind, Good, CallInv, At, InFlight
    <3>3. ChargeTrue(c)' /\ HoldKnown(c)'
      BY <2>0, <2>4, <3>1 DEF Ind, Good, ChargeTrue, HoldKnown, At
    <3> QED BY <2>2, <3>2, <3>3 DEF Good
  <2> QED BY <1>1, <2>3, <2>4
<1> QED BY <1>2, <1>3, <1>4, <1>5 DEF Ind

\* A fresh object asks for the release of a row it read.
LEMMA ReleaseAsked ==
    ASSUME Ind, NEW c \in Calls, ReleaseNext(c), UNCHANGED resets
    PROVE  Ind'
<1>0. TypeOK
  BY DEF Ind
<1>1. /\ release[c] = "todo" /\ release' = [release EXCEPT ![c] = "sent"]
      /\ net' = net \cup {Release(c)} /\ UNCHANGED <<ledger, call, open, resets>>
  BY DEF ReleaseNext
<1>2. TypeOK'
  <2>1. net' \subseteq Requests /\ release' \in [Calls -> Passes]
    BY <1>0, <1>1, RequestKinds DEF TypeOK, Passes
  <2>2. ResidentTyped'
    BY <1>0, <1>1, <2>1 DEF TypeOK, ResidentTyped
  <2>3. LedgerTyped' /\ GrantsTyped'
    BY <1>1, TypeParts DEF Ind, ledger, rows, LedgerTyped, GrantsTyped
  <2> QED BY <2>2, <2>3 DEF TypeOK, LedgerTyped, GrantsTyped, ResidentTyped
<1>3. GrantInv'
  BY <1>1 DEF Ind, GrantInv, Granted, ledger
<1>4. ASSUME NEW d \in Calls, d # c PROVE Good(d)'
  <2>1. SameCall(d)
    BY <1>0, <1>1, <1>4, RequestKinds DEF SameCall, TypeOK
  <2> QED BY <1>1, <2>1, Untouched DEF Ind, ledger, rows
<1>5. Good(c)'
  <2>1. ~At(c, "new") /\ ~(InFlight(c) /\ ~call[c].gone)
    BY <1>1 DEF Ind, Good, CallInv
  <2>2. CallInv(c)'
    BY <1>1, <2>1 DEF Ind, Good, CallInv, At, InFlight, ledger, rows
  <2>3. RequestInv(c)'
    BY <1>1, RequestKinds DEF Ind, Good, RequestInv, At, Reserve
  <2>4. ChargeTrue(c)' /\ HoldKnown(c)'
    BY <1>1 DEF Ind, Good, ChargeTrue, HoldKnown, Due, At, ledger, rows
  <2> QED BY <2>2, <2>3, <2>4 DEF Good
<1> QED BY <1>2, <1>3, <1>4, <1>5 DEF Ind

\* A reset loses a Resident's calls in memory, never their rows.
LEMMA ResetKeeps ==
    ASSUME Ind, NEW r \in Residents, Reset(r)
    PROVE  Ind'
<1>0. TypeOK
  BY DEF Ind
<1>1. /\ resets' = resets + 1 /\ resets < MaxResets /\ UNCHANGED <<ledger, open, net>>
      /\ call' = [c \in Calls |-> IF c \in Of(r) /\ InFlight(c)
                                 THEN [call[c] EXCEPT !.gone = TRUE] ELSE call[c]]
      /\ release' = [c \in Calls |-> IF c \in Of(r) THEN IF c \in open THEN "todo" ELSE "none"
                                    ELSE release[c]]
  BY DEF Reset
<1>2. ASSUME NEW c \in Calls
      PROVE  /\ call'[c] \in [pc : Phases, gone : BOOLEAN, charge : Nat \cup {None}]
             /\ call'[c].pc = call[c].pc /\ call'[c].charge = call[c].charge
             /\ c \in Of(r) /\ InFlight(c) => call'[c].gone
             /\ c \notin Of(r) => call'[c] = call[c] /\ release'[c] = release[c]
             /\ c \in Of(r) /\ c \notin open => release'[c] = "none"
             /\ release'[c] \in Passes
  BY <1>0, <1>1, CallTyped DEF TypeOK, Passes
<1>3. TypeOK'
  <2>1. resets' \in 0 .. MaxResets
    BY <1>0, <1>1, LedgerAssumption DEF TypeOK
  <2>2. /\ call' \in [Calls -> [pc : Phases, gone : BOOLEAN, charge : Nat \cup {None}]]
        /\ release' \in [Calls -> Passes]
    <3>1. call' = [c \in Calls |-> call'[c]] /\ release' = [c \in Calls |-> release'[c]]
      BY <1>1
    <3> QED BY <1>2, <3>1
  <2>3. ResidentTyped'
    BY <1>0, <1>1, <2>1, <2>2 DEF TypeOK, ResidentTyped
  <2>4. LedgerTyped' /\ GrantsTyped'
    BY <1>1, TypeParts DEF Ind, ledger, rows, LedgerTyped, GrantsTyped
  <2> QED BY <2>3, <2>4 DEF TypeOK, LedgerTyped, GrantsTyped, ResidentTyped
<1>4. GrantInv'
  BY <1>1 DEF Ind, GrantInv, Granted, ledger
<1>5. ASSUME NEW c \in Calls PROVE Good(c)'
  <2>1. CallInv(c)'
    <3>1. CASE c \in Of(r)
      BY <1>1, <1>2, <3>1 DEF Ind, Good, CallInv, At, InFlight, ledger, rows
    <3>2. CASE c \notin Of(r)
      BY <1>1, <1>2, <3>2 DEF Ind, Good, CallInv, At, InFlight, ledger, rows
    <3> QED BY <3>1, <3>2
  <2>2. RequestInv(c)'
    BY <1>1, <1>2 DEF Ind, Good, RequestInv, At, Reserve
  <2>3. ChargeTrue(c)' /\ HoldKnown(c)'
    BY <1>1, <1>2 DEF Ind, Good, ChargeTrue, HoldKnown, Due, At, ledger, rows
  <2> QED BY <2>1, <2>2, <2>3 DEF Good
<1> QED BY <1>3, <1>4, <1>5 DEF Ind

-----------------------------------------------------------------------------
(* Time and the account: the Residents and their requests stay as they are. *)

\* A hold ages, a day ends, or a setting changes: no call's row changes.
LEMMA QuietKeeps ==
    ASSUME Ind, UNCHANGED <<held, spend, events, tot, grants, resident, resets>>,
           old' \subseteq held, today' \subseteq Calls, pauses' \in BOOLEAN
    PROVE  Ind'
<1>0. TypeOK
  BY DEF Ind
<1>1. UNCHANGED <<held, spend, events, tot, grants, call, open, release, net, resets>>
  BY DEF resident
<1>2. TypeOK'
  BY <1>0, <1>1 DEF TypeOK
<1>3. GrantInv'
  BY <1>1 DEF Ind, GrantInv, Granted
<1>4. ASSUME NEW c \in Calls PROVE Good(c)'
  <2>1. SameCall(c)
    BY <1>1 DEF SameCall
  <2> QED BY <1>0, <1>1, <2>1, Untouched DEF Ind
<1> QED BY <1>2, <1>3, <1>4 DEF Ind

\* Money is paid in: rows of grants are added, and no call's row changes.
LEMMA GrantsKeep ==
    ASSUME Ind, UNCHANGED <<rows, pauses, resident, resets>>,
           tot' \in [granted : Int, included : Int, spent : Int, reserved : Int],
           GrantsTyped', GrantInv'
    PROVE  Ind'
<1>0. TypeOK
  BY DEF Ind
<1>1. UNCHANGED <<held, old, spend, today, events, pauses, call, open, release, net, resets>>
  BY DEF resident, rows
<1>2. TypeOK'
  BY <1>0, <1>1 DEF TypeOK, GrantsTyped
<1>3. ASSUME NEW c \in Calls PROVE Good(c)'
  <2>1. SameCall(c)
    BY <1>1 DEF SameCall
  <2> QED BY <1>0, <1>1, <2>1, Untouched DEF Ind
<1> QED BY <1>2, <1>3 DEF Ind

\* Stale holds expire: whatever the grants become, the calls stay good.
LEMMA ExpireKeeps ==
    ASSUME Ind, UNCHANGED <<pauses, resident, resets>>,
           held' = HeldThen, old' = {}, spend' = SpendThen, events' = EventsThen,
           today' = today,
           tot' \in [granted : Int, included : Int, spent : Int, reserved : Int],
           GrantsTyped', GrantInv'
    PROVE  Ind'
<1>0. TypeOK
  BY DEF Ind
<1>1. UNCHANGED <<pauses, call, open, release, net, resets, today>>
  BY DEF resident
<1>2. TypeOK'
  BY <1>0, <1>1, ExpireTyped DEF TypeOK, GrantsTyped
<1>3. ASSUME NEW c \in Calls PROVE Good(c)'
  <2>1. SameCall(c)
    BY <1>1 DEF SameCall
  <2> QED BY <1>0, <1>1, <2>1, Outlived DEF Ind
<1> QED BY <1>2, <1>3 DEF Ind

\* Somebody looks at the balance: stale holds expire, and the balance stays.
LEMMA StateKeeps ==
    ASSUME Ind, RowsFinite, State, UNCHANGED resets
    PROVE  Ind' /\ Balance' >= Balance
<1>1. /\ UNCHANGED <<grants, pauses, resident, resets, today>>
      /\ held' = HeldThen /\ old' = {} /\ spend' = SpendThen /\ events' = EventsThen
      /\ tot' = TotThen
  BY DEF State, Expire
<1>2. GrantsTyped' /\ GrantInv'
  BY <1>1 DEF Ind, TypeOK, GrantsTyped, GrantInv, Granted
<1>3. Ind'
  BY <1>1, <1>2, ExpiryIsEven, ExpireKeeps
<1>4. Balance' >= Balance
  BY <1>1, ExpiryIsEven DEF Balance, Left
<1> QED BY <1>3, <1>4

\* What a renewal takes back is at most what is left of the included usage.
LEMMA UnusedNat ==
    ASSUME NEW t \in [granted : Int, included : Int, spent : Int, reserved : Int]
    PROVE  Unused(t) \in Nat
BY DEF Unused

\* A renewal leaves the balance higher, or takes unused usage back with a row of its own.
LEMMA RenewalKeeps ==
    ASSUME Ind, NEW i \in Invoices, Renewal(i), UNCHANGED resets
    PROVE  Ind' /\ (Balance' >= Balance \/ Renewing)
<1>0. /\ tot \in [granted : Int, included : Int, spent : Int, reserved : Int]
      /\ grants \subseteq Grants /\ pauses \in BOOLEAN
      /\ \A g \in grants : g.kind = "included_expire" => g.nano <= 0
  BY DEF Ind, TypeOK
<1>1. UNCHANGED <<rows, pauses, resident, resets>>
  BY DEF Renewal
<1>2. CASE Granted(<<"paid", i>>)
  <2>1. grants' = grants /\ tot' = tot
    BY <1>2 DEF Renewal
  <2>2. GrantsTyped' /\ GrantInv'
    BY <1>0, <1>1, <2>1 DEF Ind, GrantsTyped, GrantInv, Granted
  <2>3. Ind'
    BY <1>0, <1>1, <2>1, <2>2, GrantsKeep
  <2>4. Balance' >= Balance
    BY <1>0, <2>1 DEF Balance
  <2> QED BY <2>3, <2>4
<1>3. CASE ~Granted(<<"paid", i>>)
  <2> DEFINE back == Row(<<"expire", i>>, "included_expire", -Unused(tot))
             paid == Row(<<"paid", i>>, "included", Paid[i].nano)
  <2>1. PICK u \in Nat : u = Unused(tot)
    BY <1>0, UnusedNat
  <2>2. /\ grants' = grants \cup (IF u # 0 THEN {back} ELSE {}) \cup {paid}
        /\ tot' = [tot EXCEPT !.granted = @ + Paid[i].nano - u, !.included = @ + Paid[i].nano - u]
    BY <1>3, <2>1 DEF Renewal
  <2>3. Paid[i].nano \in Nat
    BY LedgerAssumption
  <2>4. /\ tot' \in [granted : Int, included : Int, spent : Int, reserved : Int]
        /\ u = 0 => Balance' >= Balance
    <3>1. PICK n \in Nat : n = Paid[i].nano
      BY <2>3
    <3>2. tot' = [tot EXCEPT !.granted = @ + n - u, !.included = @ + n - u]
      BY <2>2, <3>1
    <3>3. tot' = [granted |-> tot.granted + n - u, included |-> tot.included + n - u,
                  spent |-> tot.spent, reserved |-> tot.reserved]
      BY <1>0, <3>2
    <3> QED BY <1>0, <3>3 DEF Balance
  <2>5. /\ back \in Grants /\ back.kind = "included_expire" /\ back.nano <= 0
        /\ back.key = <<"expire", i>>
        /\ paid \in Grants /\ paid.kind = "included" /\ paid.key = <<"paid", i>>
    BY <2>1, <2>3 DEF Row, Grants, Keys
  <2> HIDE DEF back, paid
  <2>6. GrantsTyped'
    BY <1>0, <1>1, <2>2, <2>5 DEF GrantsTyped
  <2>7. GrantInv'
    <3>1. IsFiniteSet(grants')
      <4>1. IsFiniteSet(IF u # 0 THEN {back} ELSE {}) /\ IsFiniteSet({paid})
        BY FS_Singleton, FS_EmptySet
      <4> QED BY <2>2, <4>1, FS_Union DEF Ind, GrantInv
    <3>2. \A j \in Invoices : Granted(<<"expire", j>>)' => Granted(<<"paid", j>>)'
      BY <2>2, <2>5 DEF Ind, GrantInv, Granted
    <3> QED BY <3>1, <3>2 DEF GrantInv
  <2>8. u # 0 => Renewing
    <3>1. ~Granted(<<"expire", i>>)
      BY <1>3 DEF Ind, GrantInv
    <3>2. back \notin grants
      BY <2>5, <3>1 DEF Granted
    <3> QED BY <2>2, <2>5, <3>2 DEF Renewing
  <2>9. Ind'
    BY <1>1, <2>4, <2>6, <2>7, GrantsKeep
  <2> QED BY <2>4, <2>8, <2>9
<1> QED BY <1>2, <1>3

\* An upgrade or a top-up raises the balance.
LEMMA PaymentKeeps ==
    ASSUME Ind, NEW i \in Invoices, Payment(i), UNCHANGED resets
    PROVE  Ind' /\ Balance' >= Balance
<1>0. /\ tot \in [granted : Int, included : Int, spent : Int, reserved : Int]
      /\ grants \subseteq Grants /\ pauses \in BOOLEAN
      /\ \A g \in grants : g.kind = "included_expire" => g.nano <= 0
  BY DEF Ind, TypeOK
<1>1. UNCHANGED <<rows, pauses, resident, resets>>
  BY DEF Payment
<1>2. CASE Granted(<<"paid", i>>)
  <2>1. grants' = grants /\ tot' = tot
    BY <1>2 DEF Payment
  <2>2. GrantsTyped' /\ GrantInv'
    BY <1>0, <1>1, <2>1 DEF Ind, GrantsTyped, GrantInv, Granted
  <2>3. Ind'
    BY <1>0, <1>1, <2>1, <2>2, GrantsKeep
  <2>4. Balance' >= Balance
    BY <1>0, <2>1 DEF Balance
  <2> QED BY <2>3, <2>4
<1>3. CASE ~Granted(<<"paid", i>>)
  <2>1. PICK kind \in {"topup", "included"}, n \in Nat :
          /\ grants' = grants \cup {Row(<<"paid", i>>, kind, n)}
          /\ tot' = [tot EXCEPT !.granted = @ + n,
                               !.included = IF kind = "included" THEN @ + n ELSE @]
    <3>1. Paid[i].nano \in Nat
      BY LedgerAssumption
    <3> QED BY <1>3, <3>1 DEF Payment
  <2>2. /\ tot' \in [granted : Int, included : Int, spent : Int, reserved : Int]
        /\ Balance' >= Balance
    <3>1. tot' = [granted |-> tot.granted + n,
                  included |-> IF kind = "included" THEN tot.included + n ELSE tot.included,
                  spent |-> tot.spent, reserved |-> tot.reserved]
      BY <1>0, <2>1
    <3> QED BY <1>0, <3>1 DEF Balance
  <2> DEFINE paid == Row(<<"paid", i>>, kind, n)
  <2>3. paid \in Grants /\ paid.kind # "included_expire" /\ paid.key = <<"paid", i>>
    BY DEF Row, Grants, Keys
  <2>4. grants' = grants \cup {paid}
    BY <2>1
  <2> HIDE DEF paid
  <2>5. GrantsTyped'
    BY <1>0, <1>1, <2>3, <2>4 DEF GrantsTyped
  <2>6. GrantInv'
    <3>1. IsFiniteSet(grants')
      BY <2>4, FS_AddElement DEF Ind, GrantInv
    <3>2. \A j \in Invoices : Granted(<<"expire", j>>)' => Granted(<<"paid", j>>)'
      BY <2>3, <2>4 DEF Ind, GrantInv, Granted
    <3> QED BY <3>1, <3>2 DEF GrantInv
  <2>7. Ind'
    BY <1>1, <2>2, <2>5, <2>6, GrantsKeep
  <2> QED BY <2>2, <2>7
<1> QED BY <1>2, <1>3

\* Moving unused plan usage to credits moves nothing in or out.
LEMMA CreditsKeep ==
    ASSUME Ind, RowsFinite, PlanToCredits, UNCHANGED resets
    PROVE  Ind' /\ Balance' >= Balance
<1>0. /\ tot \in [granted : Int, included : Int, spent : Int, reserved : Int]
      /\ grants \subseteq Grants /\ pauses \in BOOLEAN
      /\ \A g \in grants : g.kind = "included_expire" => g.nano <= 0
  BY DEF Ind, TypeOK
<1>1. UNCHANGED <<pauses, resident, resets>>
  BY DEF PlanToCredits
<1>2. CASE Granted(<<"credits", Latest>>)
  <2>1. UNCHANGED <<grants, rows, tot>>
    BY <1>2 DEF PlanToCredits
  <2>2. GrantsTyped' /\ GrantInv'
    BY <1>0, <1>1, <2>1 DEF Ind, GrantsTyped, GrantInv, Granted
  <2>3. Ind'
    BY <1>0, <1>1, <2>1, <2>2, GrantsKeep
  <2>4. Balance' >= Balance
    BY <1>0, <2>1 DEF Balance
  <2> QED BY <2>3, <2>4
<1>3. CASE ~Granted(<<"credits", Latest>>)
  <2> DEFINE back == Row(<<"credits:expire", Latest>>, "included_expire", -Movable)
             credit == Row(<<"credits", Latest>>, "topup", Movable)
  <2>1. /\ held' = HeldThen /\ old' = {} /\ today' = today
        /\ spend' = SpendThen /\ events' = EventsThen
        /\ tot' = [TotThen EXCEPT !.included = @ - Movable]
        /\ grants' = IF Movable = 0 THEN grants ELSE grants \cup {back, credit}
    BY <1>3 DEF PlanToCredits
  <2>2. Movable \in Nat
    BY ExpiryIsEven DEF Movable, Lesser
  <2>3. Latest \in Nat
    <3>1. IsFiniteSet({g \in grants : g.kind = "included" /\ g.nano > 0})
      BY FS_Subset DEF Ind, GrantInv
    <3> QED BY <3>1, FS_CardinalityType DEF Latest
  <2>4. /\ tot' \in [granted : Int, included : Int, spent : Int, reserved : Int]
        /\ Balance' >= Balance
    <3>1. PICK n \in Nat : n = Movable
      BY <2>2
    <3>2. tot' = [TotThen EXCEPT !.included = @ - n]
      BY <2>1, <3>1
    <3>3. tot' = [granted |-> TotThen.granted, included |-> TotThen.included - n,
                  spent |-> TotThen.spent, reserved |-> TotThen.reserved]
      BY <3>2, ExpiryIsEven
    <3> QED BY <3>3, ExpiryIsEven DEF Balance, Left
  <2>5. /\ back \in Grants /\ back.kind = "included_expire" /\ back.nano <= 0
        /\ back.key = <<"credits:expire", Latest>>
        /\ credit \in Grants /\ credit.kind = "topup" /\ credit.key = <<"credits", Latest>>
    BY <2>2, <2>3 DEF Row, Grants, Keys
  <2> HIDE DEF back, credit
  <2>6. GrantsTyped'
    BY <1>0, <1>1, <2>1, <2>5 DEF GrantsTyped
  <2>7. GrantInv'
    <3>1. IsFiniteSet(grants')
      <4>1. IsFiniteSet({back, credit})
        <5>1. IsFiniteSet({back}) /\ IsFiniteSet({credit})
          BY FS_Singleton
        <5>2. {back, credit} = {back} \cup {credit}
          OBVIOUS
        <5> QED BY <5>1, <5>2, FS_Union
      <4> QED BY <2>1, <4>1, FS_Union DEF Ind, GrantInv
    <3>2. \A j \in Invoices : Granted(<<"expire", j>>)' => Granted(<<"paid", j>>)'
      BY <2>1, <2>5 DEF Ind, GrantInv, Granted
    <3> QED BY <3>1, <3>2 DEF GrantInv
  <2>8. Ind'
    BY <1>1, <2>1, <2>4, <2>6, <2>7, ExpireKeeps
  <2> QED BY <2>4, <2>8
<1> QED BY <1>2, <1>3

\* A new account satisfies the invariant.
LEMMA InitInd == Init => Ind
<1> SUFFICES ASSUME Init PROVE Ind
  OBVIOUS
<1>1. Paid[First].nano \in Nat /\ First \in Invoices
  BY LedgerAssumption
<1>2. grants = {Row(<<"paid", First>>, "included", Paid[First].nano)}
  BY DEF Init
<1> DEFINE first == Row(<<"paid", First>>, "included", Paid[First].nano)
<1>g. first \in Grants /\ first.kind = "included" /\ first.key = <<"paid", First>>
  BY <1>1 DEF Grants, Keys, Row
<1>h. grants = {first}
  BY <1>2
<1> HIDE DEF first
<1>3. GrantsTyped
  <2>1. pauses \in BOOLEAN
    BY DEF Init
  <2> QED BY <1>g, <1>h, <2>1 DEF GrantsTyped
<1>4. LedgerTyped /\ ResidentTyped
  BY <1>1, LedgerAssumption DEF Init, LedgerTyped, ResidentTyped, Phases, Passes
<1>5. GrantInv
  <2>1. IsFiniteSet(grants)
    BY <1>h, FS_Singleton
  <2>2. \A i \in Invoices : ~Granted(<<"expire", i>>)
    BY <1>g, <1>h DEF Granted
  <2> QED BY <2>1, <2>2 DEF GrantInv
<1>6. ASSUME NEW c \in Calls PROVE Good(c)
  <2>1. /\ spend[c] = None /\ c \notin held /\ c \notin open /\ release[c] = "none" /\ net = {}
        /\ call[c].pc = "new" /\ call[c].charge = None
    BY DEF Init
  <2>2. CallInv(c) /\ RequestInv(c) /\ HoldKnown(c)
    BY <2>1 DEF CallInv, RequestInv, HoldKnown, At, InFlight
  <2>3. ChargeTrue(c)
    BY <2>1, NoneApart DEF ChargeTrue, Due, At
  <2> QED BY <2>2, <2>3 DEF Good
<1> QED BY <1>3, <1>4, <1>5, <1>6, TypeParts DEF Ind

\* What a step does to the balance.
Fair == Balance' >= 0 \/ Balance' >= Balance \/ Renewing

\* The balance is a number, and a step that leaves the sums alone leaves it alone.
LEMMA SumsStay ==
    ASSUME Ind, tot' = tot
    PROVE  Balance' >= Balance
BY DEF Ind, TypeOK, Balance

\* Every step of a call keeps the invariant and spends fairly.
LEMMA CallStepKeeps ==
    ASSUME Ind, RowsFinite, NEW c \in Calls, CallStep(c), UNCHANGED resets
    PROVE  Ind' /\ Fair
<1>1. CASE Ask(c) \/ ReserveLost(c) \/ Finish(c) \/ ReleaseNext(c)
  <2>1. Ind'
    BY <1>1, AskKeeps, LostKeeps, FinishKeeps, ReleaseAsked
  <2>2. tot' = tot
    BY <1>1 DEF Ask, ReserveLost, Finish, ReleaseNext, ledger
  <2> QED BY <2>1, <2>2, SumsStay DEF Fair
<1>2. CASE ReserveAnswered(c) \/ ReserveUnheard(c)
  <2>1. Reserved(c)
    BY <1>2 DEF ReserveAnswered, ReserveUnheard
  <2> QED BY <1>2, <2>1, ReserveKeeps, ReservedLedger DEF Fair
<1>3. ASSUME NEW n \in Costs \cup {Worst[c]}, SettleAnswered(c, n) \/ SettleFails(c, n)
      PROVE  Ind' /\ Fair
  <2>1. n \in Nat
    BY LedgerAssumption
  <2>2. Ind'
    BY <1>3, <2>1, SettleKeeps
  <2>3. Settle(c, n) \in net /\ (Settled(c, n) \/ UNCHANGED ledger)
    BY <1>3 DEF SettleAnswered, SettleFails
  <2>4. c \in held \/ spend[c] # None
    BY <2>1, <2>3, SettleWaits
  <2>5. CASE Settled(c, n)
    BY <2>1, <2>2, <2>4, <2>5, SettledLedger DEF Fair
  <2>6. CASE UNCHANGED ledger
    BY <2>2, <2>6, SumsStay DEF Fair, ledger
  <2> QED BY <2>3, <2>5, <2>6
<1>4. CASE ReleaseAnswered(c) \/ ReleaseFails(c)
  <2>1. Ind'
    BY <1>4, ReleaseKeeps
  <2>2. Settled(c, 0) \/ UNCHANGED ledger
    BY <1>4 DEF ReleaseAnswered, ReleaseFails
  <2>3. CASE Settled(c, 0)
    BY <2>1, <2>3, SettledLedger DEF Fair
  <2>4. CASE UNCHANGED ledger
    BY <2>1, <2>4, SumsStay DEF Fair, ledger
  <2> QED BY <2>2, <2>3, <2>4
<1>5. CASE Age(c)
  <2>1. /\ UNCHANGED <<held, spend, events, tot, grants, resident, resets>>
        /\ old' \subseteq held /\ today' \subseteq Calls /\ pauses' \in BOOLEAN
    BY <1>5 DEF Age, Ind, TypeOK
  <2> QED BY <2>1, QuietKeeps, SumsStay DEF Fair
<1> QED BY <1>1, <1>2, <1>3, <1>4, <1>5 DEF CallStep

\* Every step of the account keeps the invariant and spends fairly.
LEMMA AccountKeeps ==
    ASSUME Ind, RowsFinite, Account, UNCHANGED resets
    PROVE  Ind' /\ Fair
<1>1. CASE Midnight \/ SetPauses
  <2>1. /\ UNCHANGED <<held, spend, events, tot, grants, resident, resets>>
        /\ old' \subseteq held /\ today' \subseteq Calls /\ pauses' \in BOOLEAN
    BY <1>1 DEF Midnight, SetPauses, rows, Ind, TypeOK
  <2> QED BY <2>1, QuietKeeps, SumsStay DEF Fair
<1>2. CASE State \/ PlanToCredits
  BY <1>2, StateKeeps, CreditsKeep DEF Fair
<1>3. ASSUME NEW i \in Invoices, Renewal(i) \/ Payment(i) PROVE Ind' /\ Fair
  BY <1>3, RenewalKeeps, PaymentKeeps DEF Fair
<1> QED BY <1>1, <1>2, <1>3 DEF Account

\* So does every step.
LEMMA NextKeeps == Ind /\ RowsFinite /\ [Next]_vars => Ind' /\ (Fair \/ UNCHANGED vars)
<1> SUFFICES ASSUME Ind, RowsFinite, [Next]_vars PROVE Ind' /\ (Fair \/ UNCHANGED vars)
  OBVIOUS
<1>1. ASSUME NEW c \in Calls, CallStep(c), UNCHANGED resets PROVE Ind' /\ Fair
  BY <1>1, CallStepKeeps
<1>2. ASSUME NEW r \in Residents, Reset(r) PROVE Ind' /\ Fair
  <2>1. tot' = tot
    BY <1>2 DEF Reset, ledger
  <2> QED BY <1>2, <2>1, ResetKeeps, SumsStay DEF Fair
<1>3. ASSUME Account, UNCHANGED resets PROVE Ind' /\ Fair
  BY <1>3, AccountKeeps
<1>4. CASE UNCHANGED vars
  <2>1. /\ UNCHANGED <<held, spend, events, tot, grants, resident, resets>>
        /\ old' \subseteq held /\ today' \subseteq Calls /\ pauses' \in BOOLEAN
    BY <1>4 DEF vars, ledger, rows, Ind, TypeOK
  <2> QED BY <1>4, <2>1, QuietKeeps
<1> QED BY <1>1, <1>2, <1>3, <1>4 DEF Next

\* A step writes the rows of at most one request, or moves those there are.
LEMMA RowsStayFinite == Ind /\ RowsFinite /\ [Next]_vars => RowsFinite'
<1> SUFFICES ASSUME Ind, RowsFinite, [Next]_vars PROVE RowsFinite'
  OBVIOUS
<1> DEFINE c1(c) == held \cup {c}
           s1(c) == Charged \cup held \cup {c}
<1>1. \A c : IsFiniteSet(c1(c)) /\ IsFiniteSet(s1(c))
  BY FS_AddElement, FS_Union DEF RowsFinite
<1>2. ASSUME NEW c, held' \subseteq c1(c), Charged' \subseteq s1(c) PROVE RowsFinite'
  <2>1. IsFiniteSet(held') /\ IsFiniteSet(Charged')
    BY <1>1, <1>2, FS_Subset
  <2> QED BY <2>1 DEF RowsFinite
<1>3. TypeOK
  BY DEF Ind
<1>4. \A c \in Calls : spend[c] = None /\ SpendThen[c] # None => c \in held
  BY <1>3 DEF TypeOK, SpendThen, Expiring
<1>5. ASSUME UNCHANGED <<held, spend>> PROVE RowsFinite'
  BY <1>5 DEF RowsFinite, Charged
<1>6. ASSUME held' = HeldThen, spend' = SpendThen PROVE RowsFinite'
  <2>1. held' \subseteq c1(0)
    BY <1>6 DEF HeldThen
  <2>2. Charged' \subseteq s1(0)
    BY <1>4, <1>6 DEF Charged
  <2> QED BY <1>2, <2>1, <2>2
<1>7. ASSUME NEW c \in Calls, Reserved(c) PROVE RowsFinite'
  <2>1. held' \subseteq c1(c) /\ spend' = SpendThen
    BY <1>7 DEF Reserved, Expire, HeldThen
  <2>2. Charged' \subseteq s1(c)
    BY <1>4, <2>1 DEF Charged
  <2> QED BY <1>2, <2>1, <2>2
<1>8. ASSUME NEW c \in Calls, NEW n \in Nat, Settled(c, n) PROVE RowsFinite'
  <2>1. held' \subseteq c1(c)
    BY <1>8 DEF Settled
  <2>2. \A d \in Calls : d # c => spend'[d] = spend[d]
    BY <1>3, <1>8 DEF Settled, TypeOK
  <2>3. Charged' \subseteq s1(c)
    BY <2>2 DEF Charged
  <2> QED BY <1>2, <2>1, <2>3
<1>9. ASSUME NEW c \in Calls, CallStep(c) PROVE RowsFinite'
  <2>1. \/ UNCHANGED <<held, spend>> \/ Reserved(c)
        \/ \E n \in Nat : Settled(c, n)
    <3>1. CASE Ask(c) \/ ReserveLost(c) \/ Finish(c) \/ ReleaseNext(c) \/ Age(c)
      BY <3>1 DEF Ask, ReserveLost, Finish, ReleaseNext, Age, ledger, rows
    <3>2. CASE ReserveAnswered(c) \/ ReserveUnheard(c)
      BY <3>2 DEF ReserveAnswered, ReserveUnheard
    <3>3. ASSUME NEW n \in Costs \cup {Worst[c]}, SettleAnswered(c, n) \/ SettleFails(c, n)
          PROVE  UNCHANGED <<held, spend>> \/ \E m \in Nat : Settled(c, m)
      BY <3>3, LedgerAssumption DEF SettleAnswered, SettleFails, ledger, rows
    <3>4. CASE ReleaseAnswered(c) \/ ReleaseFails(c)
      BY <3>4 DEF ReleaseAnswered, ReleaseFails, ledger, rows
    <3> QED BY <1>9, <3>1, <3>2, <3>3, <3>4 DEF CallStep
  <2> QED BY <1>5, <1>7, <1>8, <2>1
<1>10. ASSUME NEW r \in Residents, Reset(r) PROVE RowsFinite'
  BY <1>5, <1>10 DEF Reset, ledger, rows
<1>11. ASSUME Account PROVE RowsFinite'
  <2>1. CASE Midnight \/ SetPauses \/ \E i \in Invoices : Renewal(i) \/ Payment(i)
    <3>1. UNCHANGED <<held, spend>>
      BY <2>1 DEF Midnight, SetPauses, Renewal, Payment, rows
    <3> QED BY <1>5, <3>1
  <2>2. CASE State \/ PlanToCredits
    <3>1. UNCHANGED <<held, spend>> \/ (held' = HeldThen /\ spend' = SpendThen)
      BY <2>2 DEF State, Expire, PlanToCredits, rows
    <3> QED BY <1>5, <1>6, <3>1
  <2> QED BY <1>11, <2>1, <2>2 DEF Account
<1>12. CASE UNCHANGED vars
  BY <1>5, <1>12 DEF vars, ledger, rows
<1> QED BY <1>9, <1>10, <1>11, <1>12 DEF Next

\* The inductive invariant: every id is held or charged as its call's place says,
\* and every request on its way belongs to a call that waits for it.
THEOREM LedgerInvariant == Spec => [](Ind /\ RowsFinite)
<1>1. Init => Ind /\ RowsFinite
  <2>1. Init => held = {} /\ Charged = {}
    BY DEF Init, Charged
  <2> QED BY <2>1, InitInd, FS_EmptySet DEF RowsFinite
<1>2. Ind /\ RowsFinite /\ [Next]_vars => (Ind /\ RowsFinite)'
  BY NextKeeps, RowsStayFinite
<1> QED BY <1>1, <1>2, PTL DEF Spec

\* The Ledger's rows and sums, and a renewal's row, hold what their columns may hold.
THEOREM LedgerIsTyped == Spec => []TypeOK
<1>1. Ind => TypeOK
  BY DEF Ind
<1> QED BY LedgerInvariant, <1>1, PTL

\* A person pays what a call cost, or an event row says why not.
THEOREM TrueCharges == Spec => []ChargesAreTrue
<1>1. Ind => ChargesAreTrue
  BY DEF Ind, Good, ChargesAreTrue
<1> QED BY LedgerInvariant, <1>1, PTL

\* Every open hold of a listed call is in res_open, unless its answer was lost.
THEOREM HoldsListed == Spec => []NoHoldForgotten
<1>1. Ind => NoHoldForgotten
  BY DEF Ind, Good, NoHoldForgotten
<1> QED BY LedgerInvariant, <1>1, PTL

\* Concurrent calls never overspend: only a renewal's expiry may lower a balance
\* that then is below zero.
THEOREM NeverOverspent == Spec => NoOverspend
<1>1. Ind /\ RowsFinite /\ [Next]_vars => [Balance' >= 0 \/ Balance' >= Balance \/ Renewing]_vars
  BY NextKeeps DEF Fair
<1> QED BY LedgerInvariant, <1>1, PTL DEF Spec, NoOverspend

-----------------------------------------------------------------------------
(* The sums.  What is charged today, and what the sums in tot stand for.    *)

ChargedToday == {c \in today : spend[c] # None}

\* The rows charged today are rows of spend, finitely many.
LEMMA TodayTyped ==
    ASSUME Ind, RowsFinite
    PROVE  /\ ChargedToday \subseteq Charged /\ IsFiniteSet(ChargedToday)
           /\ Charged \subseteq Calls /\ \A c \in Charged : spend[c] \in Nat /\ c \notin held
           /\ SumOver(spend, ChargedToday) \in Nat
           /\ Today = SumOver(spend, ChargedToday) + tot.reserved /\ Today \in Int
<1>1. /\ today \subseteq Calls /\ spend \in [Calls -> Nat \cup {None}]
      /\ tot \in [granted : Int, included : Int, spent : Int, reserved : Int]
  BY DEF Ind, TypeOK
<1>2. ChargedToday \subseteq Charged /\ IsFiniteSet(ChargedToday)
  <2>1. ChargedToday \subseteq Charged
    BY <1>1 DEF ChargedToday, Charged
  <2> QED BY <2>1, FS_Subset DEF RowsFinite
<1>3. Charged \subseteq Calls /\ \A c \in Charged : spend[c] \in Nat /\ c \notin held
  BY <1>1 DEF Charged, Ind, Good, CallInv
<1>4. SumOver(spend, ChargedToday) \in Nat
  BY <1>2, <1>3, SumTyped
<1>5. Today = SumOver(spend, ChargedToday) + tot.reserved
  BY DEF Today, DayUse, ChargedToday
<1>6. tot.reserved \in Int
  BY <1>1
<1> QED BY <1>2, <1>3, <1>4, <1>5, <1>6

\* Stale holds that expire move from the holds to the charges, and from today's use
\* to none when they were made before midnight.
LEMMA ExpireDay ==
    ASSUME Ind, RowsFinite
    PROVE  /\ DayUse(SpendThen, today, TotThen.reserved) \in Int
           /\ DayUse(SpendThen, today, TotThen.reserved) <= Today
<1> DEFINE stale == old \cap today
<1>1. /\ old \subseteq held /\ held \subseteq Calls /\ IsFiniteSet(old) /\ IsFiniteSet(stale)
      /\ \A c \in held : spend[c] = None
  <2>1. /\ old \subseteq held /\ held \subseteq Calls
        /\ \A c \in held : spend[c] = None
    BY DEF Ind, TypeOK, Good, CallInv
  <2> QED BY <2>1, FS_Subset DEF RowsFinite
<1>2. today \subseteq Calls /\ \A c \in old : Worst[c] \in Nat /\ Worst[c] # None
  BY <1>1, LedgerAssumption, NoneApart DEF Ind, TypeOK
<1>3. {c \in today : SpendThen[c] # None} = ChargedToday \cup stale /\ ChargedToday \cap stale = {}
  BY <1>1, <1>2, ExpiryIsEven DEF SpendThen, ChargedToday
<1>4. /\ \A c \in ChargedToday : SpendThen[c] = spend[c] /\ SpendThen[c] \in Nat
      /\ \A c \in stale : SpendThen[c] = Worst[c] /\ SpendThen[c] \in Nat
  BY <1>1, <1>2, TodayTyped, ExpiryIsEven DEF SpendThen
<1>5. SumOver(SpendThen, ChargedToday \cup stale)
        = SumOver(SpendThen, ChargedToday) + SumOver(SpendThen, stale)
  <2>1. \A c \in ChargedToday \cup stale : SpendThen[c] \in Int
    BY <1>4
  <2> QED BY <1>1, <1>3, <2>1, TodayTyped, SumUnion
<1>6. SumOver(SpendThen, ChargedToday) = SumOver(spend, ChargedToday)
  BY <1>4, TodayTyped, SumSame
<1>7. SumOver(SpendThen, stale) = HeldBy(stale)
  BY <1>1, <1>4, SumSame DEF HeldBy
<1>8. HeldBy(stale) <= HeldBy(old) /\ HeldBy(stale) \in Nat
  <2>1. stale \in SUBSET Calls /\ stale \in SUBSET old
    BY <1>1
  <2> QED BY <1>1, <1>2, <2>1, HeldNat, SumMonotone DEF HeldBy
<1>9. DayUse(SpendThen, today, TotThen.reserved)
        = SumOver(spend, ChargedToday) + HeldBy(stale) + TotThen.reserved
  BY <1>3, <1>5, <1>6, <1>7 DEF DayUse
<1>10. TotThen.reserved = tot.reserved - HeldBy(old) /\ HeldBy(old) \in Nat /\ tot.reserved \in Int
  BY ExpiryIsEven DEF Ind, TypeOK
<1> QED BY <1>8, <1>9, <1>10, TodayTyped

\* What a step may do to today's use.
DayKept == pauses /\ Today' > Today => Today' <= DayCap

\* A reserve is granted within the day's limit, or adds nothing.
LEMMA ReservedDay ==
    ASSUME Ind, RowsFinite, NEW c \in Calls, Reserved(c), Reserve(c) \in net
    PROVE  DayKept
<1>1. CASE Refused(c)
  <2>1. spend' = SpendThen /\ today' = today /\ tot' = TotThen
    BY <1>1 DEF Reserved, Expire
  <2>2. Today' = DayUse(SpendThen, today, TotThen.reserved)
    BY <2>1 DEF Today
  <2> QED BY <2>2, ExpireDay, TodayTyped DEF DayKept
<1>2. CASE ~Refused(c)
  <2>1. /\ today' = today \cup {c} /\ spend' = SpendThen
        /\ tot' = [TotThen EXCEPT !.reserved = @ + Worst[c]]
    BY <1>2 DEF Reserved
  <2>2. SpendThen[c] = None
    BY <2>1, ReservedSelf
  <2>3. {d \in today' : spend'[d] # None} = {d \in today : SpendThen[d] # None}
    BY <2>1, <2>2
  <2>4. Worst[c] \in Nat /\ TotThen.reserved \in Int
    BY LedgerAssumption, ExpiryIsEven
  <2>5. tot'.reserved = TotThen.reserved + Worst[c]
    BY <2>1, ExpiryIsEven
  <2>6. Today' = DayUse(SpendThen, today, TotThen.reserved) + Worst[c]
    <3>1. PICK s : s = SumOver(SpendThen, {d \in today : SpendThen[d] # None})
      OBVIOUS
    <3>2. DayUse(SpendThen, today, TotThen.reserved) = s + TotThen.reserved
      BY <3>1 DEF DayUse
    <3>3. Today' = s + (TotThen.reserved + Worst[c])
      BY <2>1, <2>3, <2>5, <3>1 DEF Today, DayUse
    <3>4. s \in Int
      <4>1. IsFiniteSet({d \in today : SpendThen[d] # None})
        <5>1. {d \in today : SpendThen[d] # None} \subseteq Charged \cup held
          BY DEF Ind, TypeOK, SpendThen, Expiring, Charged
        <5> QED BY <5>1, FS_Union, FS_Subset DEF RowsFinite
      <4>2. \A d \in {d \in today : SpendThen[d] # None} : SpendThen[d] \in Int
        BY ExpireTyped DEF Ind, TypeOK
      <4> QED BY <3>1, <4>1, <4>2, SumTyped
    <3> QED BY <2>4, <3>2, <3>3, <3>4
  <2>7. pauses => DayUse(SpendThen, today, TotThen.reserved) + Worst[c] <= DayCap
    BY <1>2, <2>4, ExpireDay, LedgerAssumption DEF Refused, OverDay
  <2> QED BY <2>6, <2>7 DEF DayKept
<1> QED BY <1>1, <1>2

\* A settle charges today at most what its hold gives back.
LEMMA SettledDay ==
    ASSUME Ind, RowsFinite, NEW c \in Calls, NEW n \in Nat, Settled(c, n),
           c \in held \/ spend[c] # None \/ n = 0
    PROVE  DayKept
<1>1. /\ Worst[c] \in Nat /\ spend \in [Calls -> Nat \cup {None}]
      /\ tot \in [granted : Int, included : Int, spent : Int, reserved : Int]
      /\ today \subseteq Calls
  BY LedgerAssumption DEF Ind, TypeOK
<1>2. CASE c \in held
  <2>1. spend[c] = None
    BY <1>2 DEF Ind, Good, CallInv
  <2>2. PICK m \in Nat : m = Charge(c, n) /\ m <= Worst[c]
    BY <1>1, <1>2 DEF Charge, Lesser
  <2>3. /\ spend' = [spend EXCEPT ![c] = m] /\ today' = today \cup {c}
        /\ tot' = [tot EXCEPT !.spent = @ + m, !.reserved = @ - Worst[c]]
    BY <1>2, <2>1, <2>2 DEF Settled, Writes
  <2>4. ChargedToday' = ChargedToday \cup {c} /\ c \notin ChargedToday
    BY <1>1, <2>1, <2>2, <2>3, NoneApart DEF ChargedToday
  <2>5. /\ \A d \in ChargedToday : spend'[d] = spend[d] /\ spend'[d] \in Nat
        /\ spend'[c] = m
    BY <1>1, <2>3, <2>4, TodayTyped
  <2>6. SumOver(spend', ChargedToday') = SumOver(spend', ChargedToday) + m
    BY <2>4, <2>5, TodayTyped, SumAdd
  <2>7. SumOver(spend', ChargedToday) = SumOver(spend, ChargedToday)
    BY <2>5, TodayTyped, SumSame
  <2>8. tot'.reserved = tot.reserved - Worst[c] /\ tot.reserved \in Int
    BY <1>1, <2>3
  <2>9. Today' = SumOver(spend', ChargedToday') + tot'.reserved
    BY DEF Today, DayUse, ChargedToday
  <2>10. Today' <= Today
    BY <1>1, <2>2, <2>6, <2>7, <2>8, <2>9, TodayTyped
  <2>11. Today' \in Int
    BY <1>1, <2>6, <2>7, <2>8, <2>9, TodayTyped
  <2> QED BY <2>10, <2>11, TodayTyped DEF DayKept
<1>3. CASE c \notin held
  <2>1. ~Writes(c, n)
    BY <1>3 DEF Writes
  <2>2. UNCHANGED <<spend, today>> /\ tot'.reserved = tot.reserved
    BY <1>1, <1>3, <2>1 DEF Settled
  <2> QED BY <2>2, TodayTyped DEF Today, DayUse, DayKept
<1> QED BY <1>2, <1>3

\* At midnight the day starts again, with the holds that are open.
LEMMA MidnightDay ==
    ASSUME Ind, RowsFinite, Midnight
    PROVE  DayKept
<1>1. today' = {} /\ spend' = spend /\ tot' = tot
  BY DEF Midnight
<1>2. SumOver(spend, {}) = 0
  BY FS_EmptySet, SumStep
<1>3. Today' = 0 + tot.reserved
  <2>1. {c \in today' : spend'[c] # None} = {}
    BY <1>1
  <2> QED BY <1>1, <1>2, <2>1 DEF Today, DayUse
<1>4. tot.reserved \in Int
  BY DEF Ind, TypeOK
<1> QED BY <1>3, <1>4, TodayTyped DEF DayKept

\* Stale holds expire, and nothing else happens to the rows of the day.
LEMMA StaleDay ==
    ASSUME Ind, RowsFinite, spend' = SpendThen, today' = today,
           tot'.reserved = TotThen.reserved
    PROVE  DayKept
<1>1. Today' = DayUse(SpendThen, today, TotThen.reserved)
  BY DEF Today
<1> QED BY <1>1, ExpireDay, TodayTyped DEF DayKept

\* A step that leaves the charges and holds alone leaves the day alone.
LEMMA SameDay ==
    ASSUME Ind, RowsFinite, UNCHANGED <<spend, today>>, tot'.reserved = tot.reserved
    PROVE  DayKept
BY TodayTyped DEF Today, DayUse, DayKept

\* Every step keeps the day's limit.
LEMMA NextDay == Ind /\ RowsFinite /\ [Next]_vars => DayKept
<1> SUFFICES ASSUME Ind, RowsFinite, [Next]_vars PROVE DayKept
  OBVIOUS
<1>0. tot \in [granted : Int, included : Int, spent : Int, reserved : Int]
  BY DEF Ind, TypeOK
<1>1. ASSUME NEW c \in Calls, CallStep(c) PROVE DayKept
  <2>1. CASE Ask(c) \/ ReserveLost(c) \/ Finish(c) \/ ReleaseNext(c) \/ Age(c)
    <3>1. UNCHANGED <<spend, today, tot>>
      BY <2>1 DEF Ask, ReserveLost, Finish, ReleaseNext, Age, ledger, rows
    <3> QED BY <3>1, SameDay
  <2>2. CASE ReserveAnswered(c) \/ ReserveUnheard(c)
    <3>1. Reserved(c) /\ Reserve(c) \in net
      BY <2>2 DEF ReserveAnswered, ReserveUnheard
    <3> QED BY <3>1, ReservedDay
  <2>3. ASSUME NEW n \in Costs \cup {Worst[c]}, SettleAnswered(c, n) \/ SettleFails(c, n)
        PROVE  DayKept
    <3>1. n \in Nat
      BY LedgerAssumption
    <3>2. Settle(c, n) \in net /\ (Settled(c, n) \/ UNCHANGED <<spend, today, tot>>)
      BY <2>3 DEF SettleAnswered, SettleFails, ledger, rows
    <3>3. c \in held \/ spend[c] # None
      BY <3>1, <3>2, SettleWaits
    <3> QED BY <3>1, <3>2, <3>3, SettledDay, SameDay
  <2>4. CASE ReleaseAnswered(c) \/ ReleaseFails(c)
    <3>1. Settled(c, 0) \/ UNCHANGED <<spend, today, tot>>
      BY <2>4 DEF ReleaseAnswered, ReleaseFails, ledger, rows
    <3> QED BY <3>1, SettledDay, SameDay
  <2> QED BY <1>1, <2>1, <2>2, <2>3, <2>4 DEF CallStep
<1>2. ASSUME NEW r \in Residents, Reset(r) PROVE DayKept
  <2>1. UNCHANGED <<spend, today, tot>>
    BY <1>2 DEF Reset, ledger, rows
  <2> QED BY <2>1, SameDay
<1>3. ASSUME Account PROVE DayKept
  <2>1. CASE Midnight
    BY <2>1, MidnightDay
  <2>2. CASE State
    <3>1. spend' = SpendThen /\ today' = today /\ tot' = TotThen
      BY <2>2 DEF State, Expire
    <3> QED BY <3>1, StaleDay
  <2>3. CASE SetPauses
    <3>1. UNCHANGED <<spend, today, tot>>
      BY <2>3 DEF SetPauses, rows
    <3> QED BY <3>1, SameDay
  <2>4. CASE PlanToCredits
    <3>1. CASE UNCHANGED <<grants, rows, tot>>
      BY <3>1, SameDay DEF rows
    <3>2. CASE ~UNCHANGED <<grants, rows, tot>>
      <4>1. /\ spend' = SpendThen /\ today' = today
            /\ tot' = [TotThen EXCEPT !.included = @ - Movable]
        BY <2>4, <3>2 DEF PlanToCredits
      <4>2. tot'.reserved = TotThen.reserved
        BY <4>1, ExpiryIsEven
      <4> QED BY <4>1, <4>2, StaleDay
    <3> QED BY <3>1, <3>2
  <2>5. ASSUME NEW i \in Invoices, Renewal(i) \/ Payment(i) PROVE DayKept
    <3>1. UNCHANGED <<spend, today>>
      BY <2>5 DEF Renewal, Payment, rows
    <3>2. tot'.reserved = tot.reserved
      BY <1>0, <2>5 DEF Renewal, Payment
    <3> QED BY <3>1, <3>2, SameDay
  <2> QED BY <1>3, <2>1, <2>2, <2>3, <2>4, <2>5 DEF Account
<1>4. CASE UNCHANGED vars
  <2>1. UNCHANGED <<spend, today, tot>>
    BY <1>4 DEF vars, ledger, rows
  <2> QED BY <2>1, SameDay
<1> QED BY <1>1, <1>2, <1>3, <1>4 DEF Next

\* While pauses are on, nothing makes a day's charges and holds grow past its limit,
\* for any calls that reserve, settle and expire in any order.
THEOREM DayIsLimited == Spec => DayLimit
<1>1. Ind /\ RowsFinite /\ [Next]_vars => [pauses /\ Today' > Today => Today' <= DayCap]_vars
  BY NextDay DEF DayKept
<1> QED BY LedgerInvariant, <1>1, PTL DEF Spec, DayLimit

-----------------------------------------------------------------------------
(* The running sums are the sums of the rows.                               *)

NanoOf(G) == [g \in G |-> g.nano]
AllOf(G) == SumOver(NanoOf(G), G)
IncludedOf(G) == SumOver(NanoOf(G), {g \in G : g.kind # "topup"})

HoldsTrue == tot.reserved = HeldBy(held)
ChargesTrue == tot.spent = SumOver(spend, Charged)
GrantsTrue == tot.granted = AllOf(grants) /\ tot.included = IncludedOf(grants)

\* The sums are right when each of the three tables is summed right.
LEMMA TotalParts ==
    /\ TotalsTrue <=> HoldsTrue /\ ChargesTrue /\ GrantsTrue
    /\ TotalsTrue' <=> HoldsTrue' /\ ChargesTrue' /\ GrantsTrue'
BY DEF TotalsTrue, HoldsTrue, ChargesTrue, GrantsTrue, AllOf, IncludedOf, NanoOf, Nano

\* One grant more adds its amount, to the included usage too unless it is a top-up.
LEMMA GrantAdds ==
    ASSUME NEW G \in SUBSET Grants, IsFiniteSet(G), NEW r \in Grants, r \notin G
    PROVE  /\ AllOf(G) \in Int /\ IncludedOf(G) \in Int /\ r.nano \in Int
           /\ IsFiniteSet(G \cup {r})
           /\ AllOf(G \cup {r}) = AllOf(G) + r.nano
           /\ IncludedOf(G \cup {r}) =
                IF r.kind = "topup" THEN IncludedOf(G) ELSE IncludedOf(G) + r.nano
<1> DEFINE H == G \cup {r}
           Inc(S) == {g \in S : g.kind # "topup"}
<1>1. \A g \in H : g.nano \in Int
  BY DEF Grants
<1>2. IsFiniteSet(H) /\ IsFiniteSet(Inc(G))
  BY FS_AddElement, FS_Subset
<1>3. (\A g \in H : NanoOf(H)[g] = g.nano) /\ (\A g \in G : NanoOf(G)[g] = g.nano)
  BY DEF NanoOf
<1>4. AllOf(G) \in Int /\ IncludedOf(G) \in Int
  BY <1>1, <1>2, <1>3, SumTyped DEF AllOf, IncludedOf
<1>5. SumOver(NanoOf(H), G) = AllOf(G) /\ SumOver(NanoOf(H), Inc(G)) = IncludedOf(G)
  <2>1. SumOver(NanoOf(H), G) = SumOver(NanoOf(G), G)
    BY <1>3, SumSame
  <2>2. SumOver(NanoOf(H), Inc(G)) = SumOver(NanoOf(G), Inc(G))
    BY <1>2, <1>3, SumSame
  <2> QED BY <2>1, <2>2 DEF AllOf, IncludedOf
<1>6. AllOf(H) = AllOf(G) + r.nano
  <2>1. SumOver(NanoOf(H), G \cup {r}) = SumOver(NanoOf(H), G) + NanoOf(H)[r]
    BY <1>1, <1>3, SumAdd
  <2> QED BY <1>3, <1>5, <2>1 DEF AllOf
<1>7. IncludedOf(H) = IF r.kind = "topup" THEN IncludedOf(G) ELSE IncludedOf(G) + r.nano
  <2>1. CASE r.kind = "topup"
    <3>1. Inc(H) = Inc(G)
      BY <2>1
    <3> QED BY <1>5, <2>1, <3>1 DEF IncludedOf
  <2>2. CASE r.kind # "topup"
    <3>1. Inc(H) = Inc(G) \cup {r} /\ r \notin Inc(G)
      BY <2>2
    <3>2. SumOver(NanoOf(H), Inc(G) \cup {r}) = SumOver(NanoOf(H), Inc(G)) + NanoOf(H)[r]
      BY <1>1, <1>2, <1>3, <3>1, SumAdd
    <3> QED BY <1>3, <1>5, <2>2, <3>1, <3>2 DEF IncludedOf
  <2> QED BY <2>1, <2>2
<1> QED BY <1>1, <1>2, <1>4, <1>6, <1>7

\* Expiring moves the stale holds from one sum to the other.
LEMMA ExpireTotals ==
    ASSUME Ind, RowsFinite, HoldsTrue, ChargesTrue
    PROVE  /\ TotThen.reserved = HeldBy(HeldThen) /\ HeldBy(HeldThen) \in Nat
           /\ TotThen.spent = SumOver(SpendThen, {c \in Calls : SpendThen[c] # None})
<1> USE DEF HoldsTrue, ChargesTrue
<1>1. /\ old \subseteq held /\ held \subseteq Calls /\ IsFiniteSet(old) /\ IsFiniteSet(HeldThen)
      /\ \A c \in held : spend[c] = None
  <2>1. /\ old \subseteq held /\ held \subseteq Calls /\ HeldThen \subseteq held
        /\ \A c \in held : spend[c] = None
    BY DEF Ind, TypeOK, Good, CallInv, HeldThen
  <2> QED BY <2>1, FS_Subset DEF RowsFinite
<1>2. \A c \in held : Worst[c] \in Nat /\ Worst[c] # None
  BY <1>1, LedgerAssumption, NoneApart
<1>3. HeldBy(held) = HeldBy(HeldThen) + HeldBy(old)
  <2>1. HeldThen \cup old = held /\ HeldThen \cap old = {}
    BY <1>1 DEF HeldThen
  <2>2. \A c \in HeldThen \cup old : Worst[c] \in Int
    BY <1>2, <2>1
  <2>3. SumOver(Worst, HeldThen \cup old) = SumOver(Worst, HeldThen) + SumOver(Worst, old)
    BY <1>1, <2>1, <2>2, SumUnion
  <2> QED BY <2>1, <2>3 DEF HeldBy
<1>4. HeldBy(HeldThen) \in Nat
  BY <1>1, HeldNat DEF HeldThen
<1>5. TotThen.reserved = HeldBy(HeldThen)
  <2>1. TotThen.reserved = HeldBy(held) - HeldBy(old) /\ HeldBy(old) \in Nat
    BY ExpiryIsEven
  <2> QED BY <1>3, <1>4, <2>1
<1>6. {c \in Calls : SpendThen[c] # None} = Charged \cup old /\ Charged \cap old = {}
  BY <1>1, <1>2, ExpiryIsEven DEF SpendThen, Charged
<1>7. /\ \A c \in Charged : SpendThen[c] = spend[c] /\ SpendThen[c] \in Nat
      /\ \A c \in old : SpendThen[c] = Worst[c] /\ SpendThen[c] \in Nat
  BY <1>1, <1>2, TodayTyped, ExpiryIsEven DEF SpendThen
<1>8. SumOver(SpendThen, Charged \cup old) = SumOver(SpendThen, Charged) + SumOver(SpendThen, old)
  <2>1. \A c \in Charged \cup old : SpendThen[c] \in Int
    BY <1>7
  <2> QED BY <1>1, <1>6, <2>1, SumUnion DEF RowsFinite
<1>9. SumOver(SpendThen, Charged) = SumOver(spend, Charged) /\ SumOver(SpendThen, old) = HeldBy(old)
  BY <1>1, <1>7, SumSame DEF RowsFinite, HeldBy
<1>10. TotThen.spent = SumOver(spend, Charged) + HeldBy(old)
  BY ExpiryIsEven
<1> QED BY <1>4, <1>5, <1>6, <1>8, <1>9, <1>10

\* A reserve adds its hold to the sum, next to what expired.
LEMMA ReservedTotals ==
    ASSUME Ind, RowsFinite, TotalsTrue, NEW c \in Calls, Reserved(c), Reserve(c) \in net
    PROVE  TotalsTrue'
<1>0. HoldsTrue /\ ChargesTrue /\ GrantsTrue
  BY TotalParts
<1>1. spend' = SpendThen /\ grants' = grants
  BY DEF Reserved, Expire
<1>2. tot'.spent = TotThen.spent /\ tot'.granted = tot.granted /\ tot'.included = tot.included
  <2>1. TotThen.granted = tot.granted /\ TotThen.included = tot.included
    BY ExpiryIsEven
  <2> QED BY <2>1, ExpiryIsEven DEF Reserved, Expire
<1>3. ChargesTrue'
  BY <1>0, <1>1, <1>2, ExpireTotals DEF ChargesTrue, Charged
<1>4. GrantsTrue'
  BY <1>0, <1>1, <1>2 DEF GrantsTrue
<1>5. HoldsTrue'
  <2>1. CASE Refused(c)
    <3>1. held' = HeldThen /\ tot' = TotThen
      BY <2>1 DEF Reserved, Expire
    <3> QED BY <1>0, <3>1, ExpireTotals DEF HoldsTrue, HeldBy
  <2>2. CASE ~Refused(c)
    <3>1. held' = HeldThen \cup {c} /\ tot' = [TotThen EXCEPT !.reserved = @ + Worst[c]]
      BY <2>2 DEF Reserved
    <3>2. c \notin HeldThen /\ IsFiniteSet(HeldThen) /\ HeldThen \subseteq Calls
      <4>1. HeldThen \subseteq held /\ held \subseteq Calls
        BY DEF HeldThen, Ind, TypeOK
      <4> QED BY <4>1, ReservedSelf, FS_Subset DEF RowsFinite
    <3>3. \A d \in HeldThen \cup {c} : Worst[d] \in Int
      BY <3>2, LedgerAssumption
    <3>4. SumOver(Worst, HeldThen \cup {c}) = SumOver(Worst, HeldThen) + Worst[c]
      BY <3>2, <3>3, SumAdd
    <3>5. tot'.reserved = TotThen.reserved + Worst[c]
      BY <3>1, ExpiryIsEven
    <3> QED BY <1>0, <3>1, <3>4, <3>5, ExpireTotals DEF HoldsTrue, HeldBy
  <2> QED BY <2>1, <2>2
<1> QED BY <1>3, <1>4, <1>5, TotalParts

\* A settle takes its hold from one sum and adds its charge to the other, once.
LEMMA SettledTotals ==
    ASSUME Ind, RowsFinite, TotalsTrue, NEW c \in Calls, NEW n \in Nat, Settled(c, n),
           c \in held \/ spend[c] # None \/ n = 0
    PROVE  TotalsTrue'
<1>0. HoldsTrue /\ ChargesTrue /\ GrantsTrue
  BY TotalParts
<1>1. /\ Worst[c] \in Nat /\ spend \in [Calls -> Nat \cup {None}] /\ held \subseteq Calls
      /\ tot \in [granted : Int, included : Int, spent : Int, reserved : Int]
  BY LedgerAssumption DEF Ind, TypeOK
<1>2. grants' = grants /\ held' = held \ {c}
  BY DEF Settled
<1>3. tot'.granted = tot.granted /\ tot'.included = tot.included
  BY <1>1 DEF Settled
<1>4. GrantsTrue'
  BY <1>0, <1>2, <1>3 DEF GrantsTrue
<1>5. CASE c \in held
  <2>1. spend[c] = None
    BY <1>5 DEF Ind, Good, CallInv
  <2>2. PICK m \in Nat : m = Charge(c, n)
    BY <1>1, <1>5 DEF Charge, Lesser
  <2>3. /\ spend' = [spend EXCEPT ![c] = m]
        /\ tot' = [tot EXCEPT !.spent = @ + m, !.reserved = @ - Worst[c]]
    BY <1>5, <2>1, <2>2 DEF Settled, Writes
  <2>4. tot'.spent = tot.spent + m /\ tot'.reserved = tot.reserved - Worst[c]
    BY <1>1, <2>3
  <2>5. HoldsTrue'
    <3>1. \A d \in held : Worst[d] \in Int
      BY <1>1, LedgerAssumption
    <3>2. SumOver(Worst, held) = Worst[c] + SumOver(Worst, held \ {c})
      BY <1>5, <3>1, SumRemove DEF RowsFinite
    <3>3. SumOver(Worst, held \ {c}) \in Nat
      <4>1. IsFiniteSet(held \ {c}) /\ held \ {c} \in SUBSET Calls
        BY <1>1, FS_Subset DEF RowsFinite
      <4> QED BY <4>1, HeldNat DEF HeldBy
    <3>4. tot.reserved = Worst[c] + SumOver(Worst, held \ {c})
      BY <1>0, <3>2 DEF HoldsTrue, HeldBy
    <3>5. tot'.reserved = SumOver(Worst, held \ {c})
      BY <1>1, <2>4, <3>3, <3>4
    <3> QED BY <1>2, <3>5 DEF HoldsTrue, HeldBy
  <2>6. ChargesTrue'
    <3>1. Charged' = Charged \cup {c} /\ c \notin Charged
      BY <1>1, <2>1, <2>3, NoneApart DEF Charged
    <3>2. /\ \A d \in Charged : spend'[d] = spend[d] /\ spend'[d] \in Int
          /\ spend'[c] = m
      BY <1>1, <2>3, <3>1, TodayTyped
    <3>3. SumOver(spend', Charged \cup {c}) = SumOver(spend', Charged) + m
      BY <3>1, <3>2, SumAdd DEF RowsFinite
    <3>4. SumOver(spend', Charged) = SumOver(spend, Charged)
      BY <3>2, SumSame DEF RowsFinite
    <3> QED BY <1>0, <2>4, <3>1, <3>3, <3>4 DEF ChargesTrue
  <2> QED BY <1>4, <2>5, <2>6, TotalParts
<1>6. CASE c \notin held
  <2>1. ~Writes(c, n)
    BY <1>6 DEF Writes
  <2>2. spend' = spend /\ held' = held
    BY <1>2, <1>6, <2>1 DEF Settled
  <2>3. tot'.spent = tot.spent /\ tot'.reserved = tot.reserved
    BY <1>1, <1>6, <2>1 DEF Settled
  <2>4. HoldsTrue' /\ ChargesTrue'
    BY <1>0, <2>2, <2>3 DEF HoldsTrue, ChargesTrue, HeldBy, Charged
  <2> QED BY <1>4, <2>4, TotalParts
<1> QED BY <1>5, <1>6

\* Payments change the sum of the grants alone, each row once.
LEMMA PaidTotals ==
    ASSUME Ind, TotalsTrue, NEW i \in Invoices, Renewal(i) \/ Payment(i)
    PROVE  TotalsTrue'
<1>0. HoldsTrue /\ ChargesTrue /\ GrantsTrue
  BY TotalParts
<1>1. /\ tot \in [granted : Int, included : Int, spent : Int, reserved : Int]
      /\ grants \in SUBSET Grants /\ IsFiniteSet(grants) /\ Paid[i].nano \in Nat
  BY LedgerAssumption DEF Ind, TypeOK, GrantInv
<1>2. UNCHANGED rows
  BY DEF Renewal, Payment
<1>3. tot'.spent = tot.spent /\ tot'.reserved = tot.reserved
  BY <1>1 DEF Renewal, Payment
<1>4. HoldsTrue' /\ ChargesTrue'
  BY <1>0, <1>2, <1>3 DEF HoldsTrue, ChargesTrue, HeldBy, Charged, rows
<1>5. GrantsTrue'
  <2>1. CASE Granted(<<"paid", i>>)
    <3>1. grants' = grants /\ tot' = tot
      BY <2>1 DEF Renewal, Payment
    <3> QED BY <1>0, <3>1 DEF GrantsTrue
  <2>2. CASE ~Granted(<<"paid", i>>) /\ Renewal(i)
    <3> DEFINE back == Row(<<"expire", i>>, "included_expire", -Unused(tot))
               paid == Row(<<"paid", i>>, "included", Paid[i].nano)
    <3>1. PICK u \in Nat : u = Unused(tot)
      BY <1>1, UnusedNat
    <3>2. PICK n \in Nat : n = Paid[i].nano
      BY <1>1
    <3>3. /\ grants' = grants \cup (IF u # 0 THEN {back} ELSE {}) \cup {paid}
          /\ tot' = [tot EXCEPT !.granted = @ + n - u, !.included = @ + n - u]
      BY <2>2, <3>1, <3>2 DEF Renewal
    <3>4. /\ back \in Grants /\ back.kind = "included_expire" /\ back.nano = -u
          /\ back.key = <<"expire", i>>
          /\ paid \in Grants /\ paid.kind = "included" /\ paid.nano = n
          /\ paid.key = <<"paid", i>>
      BY <3>1, <3>2 DEF Row, Grants, Keys
    <3>5. ~Granted(<<"expire", i>>)
      BY <2>2 DEF Ind, GrantInv
    <3>6. tot'.granted = tot.granted + n - u /\ tot'.included = tot.included + n - u
      BY <1>1, <3>3
    <3> HIDE DEF back, paid
    <3>7. back \notin grants /\ paid \notin grants \cup {back} /\ paid \notin grants
      BY <2>2, <3>4, <3>5 DEF Granted
    <3>8. CASE u = 0
      <4>1. grants' = grants \cup {paid}
        BY <3>3, <3>8
      <4>2. AllOf(grants') = AllOf(grants) + n /\ IncludedOf(grants') = IncludedOf(grants) + n
        BY <1>1, <3>4, <3>7, <4>1, GrantAdds
      <4> QED BY <1>0, <1>1, <3>6, <3>8, <4>2 DEF GrantsTrue
    <3>9. CASE u # 0
      <4> DEFINE G == grants \cup {back}
      <4>1. /\ G \in SUBSET Grants /\ IsFiniteSet(G)
            /\ AllOf(G) = AllOf(grants) + (-u) /\ IncludedOf(G) = IncludedOf(grants) + (-u)
        BY <1>1, <3>4, <3>7, GrantAdds
      <4>2. grants' = G \cup {paid}
        BY <3>3, <3>9
      <4> HIDE DEF G
      <4>3. AllOf(grants') = AllOf(G) + n /\ IncludedOf(grants') = IncludedOf(G) + n
        BY <3>4, <3>7, <4>1, <4>2, GrantAdds DEF G
      <4> QED BY <1>0, <1>1, <3>6, <4>1, <4>3 DEF GrantsTrue
    <3> QED BY <3>8, <3>9
  <2>3. CASE ~Granted(<<"paid", i>>) /\ Payment(i)
    <3>1. PICK kind \in {"topup", "included"}, n \in Nat :
            /\ grants' = grants \cup {Row(<<"paid", i>>, kind, n)}
            /\ tot' = [tot EXCEPT !.granted = @ + n,
                                 !.included = IF kind = "included" THEN @ + n ELSE @]
      BY <1>1, <2>3 DEF Payment
    <3> DEFINE paid == Row(<<"paid", i>>, kind, n)
    <3>2. paid \in Grants /\ paid.kind = kind /\ paid.nano = n /\ paid.key = <<"paid", i>>
      BY DEF Row, Grants, Keys
    <3>3. grants' = grants \cup {paid}
      BY <3>1
    <3>4. /\ tot'.granted = tot.granted + n
          /\ tot'.included = IF kind = "included" THEN tot.included + n ELSE tot.included
      BY <1>1, <3>1
    <3> HIDE DEF paid
    <3>5. paid \notin grants
      BY <2>3, <3>2 DEF Granted
    <3>6. /\ AllOf(grants') = AllOf(grants) + n
          /\ IncludedOf(grants') =
               IF kind = "topup" THEN IncludedOf(grants) ELSE IncludedOf(grants) + n
      BY <1>1, <3>2, <3>3, <3>5, GrantAdds
    <3> QED BY <1>0, <3>4, <3>6 DEF GrantsTrue
  <2> QED BY <2>1, <2>2, <2>3
<1> QED BY <1>4, <1>5, TotalParts

\* Moving usage to credits writes two rows that cancel out, next to what expired.
LEMMA CreditTotals ==
    ASSUME Ind, RowsFinite, CreditInv, TotalsTrue, PlanToCredits
    PROVE  TotalsTrue'
<1>0. HoldsTrue /\ ChargesTrue /\ GrantsTrue
  BY TotalParts
<1>1. grants \in SUBSET Grants /\ IsFiniteSet(grants)
  BY DEF Ind, TypeOK, GrantInv
<1>2. CASE Granted(<<"credits", Latest>>)
  <2>1. grants' = grants /\ held' = held /\ spend' = spend /\ tot' = tot
    BY <1>2 DEF PlanToCredits, rows
  <2>2. HoldsTrue' /\ ChargesTrue' /\ GrantsTrue'
    BY <1>0, <2>1 DEF HoldsTrue, ChargesTrue, GrantsTrue, HeldBy, Charged
  <2> QED BY <2>2, TotalParts
<1>3. CASE ~Granted(<<"credits", Latest>>)
  <2> DEFINE back == Row(<<"credits:expire", Latest>>, "included_expire", -Movable)
             credit == Row(<<"credits", Latest>>, "topup", Movable)
  <2>1. PICK n \in Nat : n = Movable
    BY ExpiryIsEven DEF Movable, Lesser
  <2>2. /\ held' = HeldThen /\ spend' = SpendThen
        /\ tot' = [TotThen EXCEPT !.included = @ - n]
        /\ grants' = IF n = 0 THEN grants ELSE grants \cup {back, credit}
    BY <1>3, <2>1 DEF PlanToCredits
  <2>3. /\ tot'.reserved = TotThen.reserved /\ tot'.spent = TotThen.spent
        /\ tot'.granted = tot.granted /\ tot'.included = tot.included - n
        /\ tot.included \in Int
    BY <2>2, ExpiryIsEven
  <2>4. HoldsTrue' /\ ChargesTrue'
    BY <1>0, <2>2, <2>3, ExpireTotals DEF HoldsTrue, ChargesTrue, HeldBy, Charged
  <2>5. Latest \in Nat
    <3>1. IsFiniteSet({g \in grants : g.kind = "included" /\ g.nano > 0})
      BY <1>1, FS_Subset
    <3> QED BY <3>1, FS_CardinalityType DEF Latest
  <2>6. /\ back \in Grants /\ back.kind = "included_expire" /\ back.nano = -n
        /\ back.key = <<"credits:expire", Latest>>
        /\ credit \in Grants /\ credit.kind = "topup" /\ credit.nano = n
        /\ credit.key = <<"credits", Latest>>
    BY <2>1, <2>5 DEF Row, Grants, Keys
  <2> HIDE DEF back, credit
  <2>7. back \notin grants /\ credit \notin grants \cup {back}
    <3>1. credit \notin grants
      BY <1>3, <2>6 DEF Granted
    <3>2. back \notin grants
      BY <1>3, <2>6 DEF CreditInv
    <3>3. credit # back
      BY <2>6
    <3> QED BY <3>1, <3>2, <3>3
  <2>8. GrantsTrue'
    <3>1. CASE n = 0
      BY <1>0, <2>2, <2>3, <3>1 DEF GrantsTrue
    <3>2. CASE n # 0
      <4> DEFINE G == grants \cup {back}
      <4>1. /\ G \in SUBSET Grants /\ IsFiniteSet(G) /\ AllOf(grants) \in Int
            /\ AllOf(G) = AllOf(grants) + (-n) /\ IncludedOf(G) = IncludedOf(grants) + (-n)
        BY <1>1, <2>6, <2>7, GrantAdds
      <4>2. grants' = G \cup {credit}
        BY <2>2, <3>2
      <4> HIDE DEF G
      <4>3. AllOf(grants') = AllOf(G) + n /\ IncludedOf(grants') = IncludedOf(G)
        BY <2>6, <2>7, <4>1, <4>2, GrantAdds DEF G
      <4> QED BY <1>0, <2>3, <4>1, <4>3 DEF GrantsTrue
    <3> QED BY <3>1, <3>2
  <2> QED BY <2>4, <2>8, TotalParts
<1> QED BY <1>2, <1>3

\* A step that writes no row and no sum leaves the sums right.
LEMMA SameTotals ==
    ASSUME TotalsTrue, UNCHANGED <<held, spend, tot, grants>>
    PROVE  TotalsTrue'
BY DEF TotalsTrue, HeldBy, Charged, Nano

\* The two rows of a move to credits come together.
LEMMA CreditsTogether ==
    ASSUME Ind, CreditInv, [Next]_vars
    PROVE  CreditInv'
<1>1. ASSUME grants' = grants PROVE CreditInv'
  BY <1>1 DEF CreditInv, Granted
<1>2. ASSUME NEW G, grants' = grants \cup G, \A g \in G : g.key[1] # "credits:expire"
      PROVE  CreditInv'
  BY <1>2 DEF CreditInv, Granted
<1>3. ASSUME NEW i \in Invoices, Renewal(i) PROVE CreditInv'
  <2> DEFINE back == Row(<<"expire", i>>, "included_expire", -Unused(tot))
             paid == Row(<<"paid", i>>, "included", Paid[i].nano)
             G == (IF Unused(tot) # 0 THEN {back} ELSE {}) \cup {paid}
  <2>1. grants' = grants \/ grants' = grants \cup G
    BY <1>3 DEF Renewal
  <2>2. \A g \in G : g.key[1] # "credits:expire"
    BY DEF Row
  <2> HIDE DEF G
  <2> QED BY <1>1, <1>2, <2>1, <2>2
<1>4. ASSUME NEW i \in Invoices, Payment(i) PROVE CreditInv'
  <2>1. PICK kind : grants' = grants \/ grants' = grants \cup {Row(<<"paid", i>>, kind, Paid[i].nano)}
    BY <1>4 DEF Payment
  <2>2. \A g \in {Row(<<"paid", i>>, kind, Paid[i].nano)} : g.key[1] # "credits:expire"
    BY DEF Row
  <2> QED BY <1>1, <1>2, <2>1, <2>2
<1>5. ASSUME PlanToCredits PROVE CreditInv'
  <2> DEFINE back == Row(<<"credits:expire", Latest>>, "included_expire", -Movable)
             credit == Row(<<"credits", Latest>>, "topup", Movable)
  <2>1. grants' = grants \/ grants' = grants \cup {back, credit}
    BY <1>5 DEF PlanToCredits
  <2>2. back.key = <<"credits:expire", Latest>> /\ credit.key = <<"credits", Latest>>
    BY DEF Row
  <2> HIDE DEF back, credit
  <2>3. ASSUME grants' = grants \cup {back, credit} PROVE CreditInv'
    BY <2>2, <2>3 DEF CreditInv, Granted
  <2> QED BY <1>1, <2>1, <2>3
<1>6. ASSUME NEW c \in Calls, CallStep(c) PROVE grants' = grants
  BY <1>6 DEF CallStep, Ask, ReserveAnswered, ReserveUnheard, ReserveLost, Finish, SettleAnswered,
      SettleFails, ReleaseNext, ReleaseAnswered, ReleaseFails, Age, Reserved, Settled, ledger
<1>7. ASSUME NEW r \in Residents, Reset(r) PROVE grants' = grants
  BY <1>7 DEF Reset, ledger
<1>8. ASSUME Midnight \/ State \/ SetPauses PROVE grants' = grants
  BY <1>8 DEF Midnight, State, SetPauses
<1>9. CASE UNCHANGED vars
  BY <1>1, <1>9 DEF vars, ledger
<1> QED BY <1>1, <1>3, <1>4, <1>5, <1>6, <1>7, <1>8, <1>9 DEF Next, Account

\* Every step keeps the sums right.
LEMMA NextTotals ==
    ASSUME Ind, RowsFinite, CreditInv, TotalsTrue, [Next]_vars
    PROVE  TotalsTrue'
<1>1. ASSUME NEW c \in Calls, CallStep(c) PROVE TotalsTrue'
  <2>1. CASE Ask(c) \/ ReserveLost(c) \/ Finish(c) \/ ReleaseNext(c) \/ Age(c)
    <3>1. UNCHANGED <<held, spend, tot, grants>>
      BY <2>1 DEF Ask, ReserveLost, Finish, ReleaseNext, Age, ledger, rows
    <3> QED BY <3>1, SameTotals
  <2>2. CASE ReserveAnswered(c) \/ ReserveUnheard(c)
    <3>1. Reserved(c) /\ Reserve(c) \in net
      BY <2>2 DEF ReserveAnswered, ReserveUnheard
    <3> QED BY <3>1, ReservedTotals
  <2>3. ASSUME NEW n \in Costs \cup {Worst[c]}, SettleAnswered(c, n) \/ SettleFails(c, n)
        PROVE  TotalsTrue'
    <3>1. n \in Nat
      BY LedgerAssumption
    <3>2. Settle(c, n) \in net /\ (Settled(c, n) \/ UNCHANGED <<held, spend, tot, grants>>)
      BY <2>3 DEF SettleAnswered, SettleFails, ledger, rows
    <3>3. c \in held \/ spend[c] # None
      BY <3>1, <3>2, SettleWaits
    <3> QED BY <3>1, <3>2, <3>3, SettledTotals, SameTotals
  <2>4. CASE ReleaseAnswered(c) \/ ReleaseFails(c)
    <3>1. Settled(c, 0) \/ UNCHANGED <<held, spend, tot, grants>>
      BY <2>4 DEF ReleaseAnswered, ReleaseFails, ledger, rows
    <3> QED BY <3>1, SettledTotals, SameTotals
  <2> QED BY <1>1, <2>1, <2>2, <2>3, <2>4 DEF CallStep
<1>2. ASSUME NEW r \in Residents, Reset(r) PROVE TotalsTrue'
  <2>1. UNCHANGED <<held, spend, tot, grants>>
    BY <1>2 DEF Reset, ledger, rows
  <2> QED BY <2>1, SameTotals
<1>3. ASSUME Account PROVE TotalsTrue'
  <2>1. CASE Midnight \/ SetPauses
    <3>1. UNCHANGED <<held, spend, tot, grants>>
      BY <2>1 DEF Midnight, SetPauses, rows
    <3> QED BY <3>1, SameTotals
  <2>2. CASE State
    <3>1. held' = HeldThen /\ spend' = SpendThen /\ tot' = TotThen /\ grants' = grants
      BY <2>2 DEF State, Expire
    <3>2. HoldsTrue /\ ChargesTrue /\ GrantsTrue
      BY TotalParts
    <3>3. HoldsTrue' /\ ChargesTrue'
      BY <3>1, <3>2, ExpireTotals DEF HoldsTrue, ChargesTrue, HeldBy, Charged
    <3>4. GrantsTrue'
      BY <3>1, <3>2, ExpiryIsEven DEF GrantsTrue
    <3> QED BY <3>3, <3>4, TotalParts
  <2>3. CASE PlanToCredits
    BY <2>3, CreditTotals
  <2>4. ASSUME NEW i \in Invoices, Renewal(i) \/ Payment(i) PROVE TotalsTrue'
    BY <2>4, PaidTotals
  <2> QED BY <1>3, <2>1, <2>2, <2>3, <2>4 DEF Account
<1>4. CASE UNCHANGED vars
  <2>1. UNCHANGED <<held, spend, tot, grants>>
    BY <1>4 DEF vars, ledger, rows
  <2> QED BY <2>1, SameTotals
<1> QED BY <1>1, <1>2, <1>3, <1>4 DEF Next

\* The sums of a new account are those of its first invoice.
LEMMA InitTotals == Init => TotalsTrue /\ CreditInv
<1> SUFFICES ASSUME Init PROVE TotalsTrue /\ CreditInv
  OBVIOUS
<1> DEFINE first == Row(<<"paid", First>>, "included", Paid[First].nano)
<1>1. PICK n \in Nat : n = Paid[First].nano
  BY LedgerAssumption
<1>2. /\ grants = {first} /\ held = {} /\ Charged = {}
      /\ tot = [granted |-> n, included |-> n, spent |-> 0, reserved |-> 0]
  BY <1>1 DEF Init, Charged
<1>3. first \in Grants /\ first.kind = "included" /\ first.nano = n /\ first.key = <<"paid", First>>
  BY <1>1, LedgerAssumption DEF Grants, Keys, Row
<1> HIDE DEF first
<1>4. \A W : SumOver(W, {}) = 0
  BY FS_EmptySet, SumStep
<1>5. HoldsTrue /\ ChargesTrue
  BY <1>2, <1>4 DEF HoldsTrue, ChargesTrue, HeldBy
<1>6. GrantsTrue
  <2>1. AllOf({}) = 0 /\ IncludedOf({}) = 0
    <3>1. {g \in {} : g.kind # "topup"} = {}
      OBVIOUS
    <3> QED BY <1>4, <3>1 DEF AllOf, IncludedOf
  <2>2. {} \cup {first} = grants
    BY <1>2
  <2>3. /\ AllOf({} \cup {first}) = AllOf({}) + n
        /\ IncludedOf({} \cup {first}) = IncludedOf({}) + n
    BY <1>3, FS_EmptySet, GrantAdds
  <2>4. AllOf(grants) = n /\ IncludedOf(grants) = n
    BY <2>1, <2>2, <2>3
  <2> QED BY <1>2, <2>4 DEF GrantsTrue
<1>7. CreditInv
  BY <1>2, <1>3 DEF CreditInv
<1> QED BY <1>5, <1>6, <1>7, TotalParts

\* The sums the balance and the day's limit are read from are the sums of the rows,
\* for any calls and payments: nothing is counted twice or forgotten.
THEOREM TotalsAreTrue == Spec => []TotalsTrue
<1>1. (TotalsTrue /\ CreditInv) /\ (Ind /\ RowsFinite) /\ [Next]_vars => (TotalsTrue /\ CreditInv)'
  BY NextTotals, CreditsTogether
<1> QED BY InitTotals, LedgerInvariant, <1>1, PTL DEF Spec
-----------------------------------------------------------------------------
(* The Ledger implements Purse.                                             *)

\* Purse sums as the Ledger does.
LEMMA SameSum ==
    ASSUME NEW W, NEW S
    PROVE  P!SumOver(W, S) = SumOver(W, S)
BY DEF P!SumOver, SumOver, P!MapThenSumSet, MapThenSumSet, P!MapThenFoldSet, MapThenFoldSet

\* The amounts of the purse are the Ledger's running sums.
LEMMA PurseSums ==
    /\ TotalsTrue => P!Used = tot.spent /\ P!Free = tot.granted - tot.spent - tot.reserved
    /\ TotalsTrue' => P!Used' = tot'.spent /\ P!Free' = tot'.granted - tot'.spent - tot'.reserved
<1>1. P!Used = SumOver(spend, Charged) /\ P!Used' = SumOver(spend', Charged')
  BY SameSum DEF P!Used, P!None, None, Charged
<1>2. /\ P!Free = tot.granted - P!Used - HeldBy(held)
      /\ P!Free' = tot'.granted - P!Used' - HeldBy(held')
  BY SameSum DEF P!Free, HeldBy
<1> QED BY <1>1, <1>2 DEF TotalsTrue, HeldBy

purse == <<tot.granted, held, spend>>

\* A new account is a new purse.
LEMMA InitPurse == Init => P!Init
<1> SUFFICES ASSUME Init PROVE P!Init
  OBVIOUS
<1>1. /\ held = {} /\ spend = [c \in Calls |-> None]
      /\ tot = [granted |-> Paid[First].nano, included |-> Paid[First].nano,
                spent |-> 0, reserved |-> 0]
  BY DEF Init
<1>2. Paid[First].nano \in Nat
  BY LedgerAssumption
<1>3. tot.granted \in Nat
  BY <1>1, <1>2
<1> QED BY <1>1, <1>3 DEF P!Init, P!None, None

\* Stale holds that expire are paid in full.
LEMMA ExpirePays ==
    ASSUME Ind, RowsFinite, spend' = SpendThen, tot'.granted = tot.granted
    PROVE  old \in SUBSET held /\ P!Pay(old)
<1>1. old \subseteq held /\ held \subseteq Calls /\ \A c \in held : spend[c] = None
  BY DEF Ind, TypeOK, Good, CallInv
<1>2. \A c \in old : Worst[c] \in Nat
  BY <1>1, LedgerAssumption
<1>3. spend' \in [Calls -> Nat \cup {P!None}]
  BY ExpireTyped DEF P!None, None
<1>4. \A c \in old : spend'[c] = Worst[c] /\ spend'[c] \in 0 .. Worst[c]
  BY <1>1, <1>2, ExpiryIsEven DEF SpendThen
<1>5. \A c \in Calls \ old : spend'[c] = spend[c]
  BY ExpiryIsEven DEF SpendThen
<1> QED BY <1>1, <1>3, <1>4, <1>5 DEF P!Pay, P!None, None

\* So the purse sees holds end, or nothing.
LEMMA ExpireSettles ==
    ASSUME Ind, RowsFinite, held' = HeldThen, spend' = SpendThen, tot'.granted = tot.granted
    PROVE  P!Settle
BY ExpirePays DEF P!Settle, HeldThen

\* A granted reserve is a hold the purse can afford.
LEMMA ReserveHolds ==
    ASSUME Ind, RowsFinite, TotalsTrue', NEW c \in Calls, Reserved(c), Reserve(c) \in net
    PROVE  P!Next
<1>1. TotThen.granted = tot.granted
  BY ExpiryIsEven
<1>2. CASE Refused(c)
  <2>1. held' = HeldThen /\ spend' = SpendThen /\ tot' = TotThen
    BY <1>2 DEF Reserved, Expire
  <2> QED BY <1>1, <2>1, ExpireSettles DEF P!Next
<1>3. CASE ~Refused(c)
  <2>1. /\ held' = HeldThen \cup {c} /\ spend' = SpendThen
        /\ tot' = [TotThen EXCEPT !.reserved = @ + Worst[c]]
    BY <1>3 DEF Reserved
  <2>2. Worst[c] \in Nat /\ Left(TotThen) >= Worst[c]
    BY <1>3, LedgerAssumption, ExpiryIsEven DEF Refused
  <2>3. tot'.granted = tot.granted /\ Left(tot') >= 0
    BY <1>1, <2>1, <2>2, ExpiryIsEven DEF Left
  <2>4. P!Free' >= 0
    BY <2>3, PurseSums DEF Left
  <2>5. c \notin held /\ spend[c] = P!None
    BY ReservedSelf DEF P!None, None
  <2>6. old \in SUBSET held /\ P!Pay(old) /\ held' = (held \ old) \cup {c}
    BY <2>1, <2>3, ExpirePays DEF HeldThen
  <2>7. P!Hold(c)
    BY <2>4, <2>5, <2>6 DEF P!Hold
  <2> QED BY <2>7 DEF P!Next
<1> QED BY <1>2, <1>3

\* A settle ends its hold, or the purse does not see it.
LEMMA SettlePays ==
    ASSUME Ind, NEW c \in Calls, NEW n \in Nat, Settled(c, n),
           c \in held \/ spend[c] # None \/ n = 0
    PROVE  P!Next \/ UNCHANGED purse
<1>1. /\ Worst[c] \in Nat /\ spend \in [Calls -> Nat \cup {None}]
      /\ tot \in [granted : Int, included : Int, spent : Int, reserved : Int]
  BY LedgerAssumption DEF Ind, TypeOK
<1>2. held' = held \ {c} /\ tot'.granted = tot.granted
  BY <1>1 DEF Settled
<1>3. CASE c \in held
  <2>1. spend[c] = None
    BY <1>3 DEF Ind, Good, CallInv
  <2>2. PICK m \in 0 .. Worst[c] : m = Charge(c, n)
    BY <1>1, <1>3 DEF Charge, Lesser
  <2>3. spend' = [spend EXCEPT ![c] = m]
    BY <1>3, <2>1, <2>2 DEF Settled, Writes
  <2>4. P!Pay({c})
    BY <1>1, <1>2, <2>1, <2>2, <2>3 DEF P!Pay, P!None, None
  <2> QED BY <1>2, <1>3, <2>4 DEF P!Settle, P!Next
<1>4. CASE c \notin held
  <2>1. ~Writes(c, n)
    BY <1>4 DEF Writes
  <2>2. spend' = spend /\ held' = held
    BY <1>2, <1>4, <2>1 DEF Settled
  <2> QED BY <1>2, <2>2 DEF purse
<1> QED BY <1>3, <1>4

\* Included usage is part of what was granted: top-ups are never negative.
LEMMA IncludedIsPart ==
    ASSUME Ind, TotalsTrue
    PROVE  tot.included <= tot.granted
<1> DEFINE inc == {g \in grants : g.kind # "topup"}
           top == {g \in grants : g.kind = "topup"}
<1>1. grants \subseteq Grants /\ IsFiniteSet(grants) /\ IsFiniteSet(inc) /\ IsFiniteSet(top)
  <2>1. grants \subseteq Grants /\ IsFiniteSet(grants)
    BY DEF Ind, TypeOK, GrantInv
  <2> QED BY <2>1, FS_Subset
<1>2. \A g \in grants : Nano[g] = g.nano /\ Nano[g] \in Int
  BY <1>1 DEF Nano, Grants
<1>3. \A g \in top : Nano[g] \in Nat
  BY <1>1, <1>2 DEF Grants
<1>4. inc \cap top = {} /\ inc \cup top = grants
  OBVIOUS
<1>5. SumOver(Nano, grants) = SumOver(Nano, inc) + SumOver(Nano, top)
  <2>1. SumOver(Nano, inc \cup top) = SumOver(Nano, inc) + SumOver(Nano, top)
    BY <1>1, <1>2, <1>4, SumUnion
  <2> QED BY <1>4, <2>1
<1>6. SumOver(Nano, top) \in Nat /\ SumOver(Nano, inc) \in Int
  BY <1>1, <1>2, <1>3, SumTyped
<1>7. tot.granted = SumOver(Nano, grants) /\ tot.included = SumOver(Nano, inc)
  BY DEF TotalsTrue
<1> QED BY <1>5, <1>6, <1>7

\* A payment puts money in; a renewal takes back at most what was not used.
LEMMA PaidGives ==
    ASSUME Ind, TotalsTrue, NEW i \in Invoices, Renewal(i) \/ Payment(i)
    PROVE  P!Next \/ UNCHANGED purse
<1>1. /\ tot \in [granted : Int, included : Int, spent : Int, reserved : Int]
      /\ Paid[i].nano \in Nat
  BY LedgerAssumption DEF Ind, TypeOK
<1>2. UNCHANGED <<held, spend>>
  BY DEF Renewal, Payment, rows
<1>3. CASE Granted(<<"paid", i>>)
  <2>1. tot' = tot
    BY <1>3 DEF Renewal, Payment
  <2> QED BY <1>2, <2>1 DEF purse
<1>4. CASE ~Granted(<<"paid", i>>)
  <2>1. PICK n \in Nat, u \in Nat :
          tot'.granted = tot.granted + n - u /\ (u = 0 \/ u = tot.included - tot.spent)
    <3>1. PICK n \in Nat : n = Paid[i].nano
      BY <1>1
    <3>2. CASE Renewal(i)
      <4>1. PICK u \in Nat : u = Unused(tot)
        BY <1>1, UnusedNat
      <4>2. tot' = [tot EXCEPT !.granted = @ + n - u, !.included = @ + n - u]
        BY <1>4, <3>1, <3>2, <4>1 DEF Renewal
      <4>3. tot'.granted = tot.granted + n - u
        BY <1>1, <4>2
      <4>4. u = 0 \/ u = tot.included - tot.spent
        BY <1>1, <4>1 DEF Unused
      <4> QED BY <4>3, <4>4
    <3>3. CASE Payment(i)
      <4>1. tot'.granted = tot.granted + n
        BY <1>1, <1>4, <3>1, <3>3 DEF Payment
      <4>2. tot'.granted = tot.granted + n - 0
        BY <1>1, <4>1
      <4> QED BY <4>2
    <3> QED BY <3>2, <3>3
  <2>2. tot'.granted \in Int
    BY <1>1, <2>1
  <2>3. tot'.granted >= tot.granted \/ tot'.granted >= tot.spent
    BY <1>1, <2>1, IncludedIsPart
  <2>4. P!Give
    BY <1>2, <2>2, <2>3, PurseSums DEF P!Give
  <2> QED BY <2>4 DEF P!Next
<1> QED BY <1>3, <1>4

\* Every step is one of Purse, or is not seen by it.
LEMMA StepKeepsPurse ==
    ASSUME Ind, RowsFinite, TotalsTrue, TotalsTrue', [Next]_vars
    PROVE  P!Next \/ UNCHANGED purse
<1>0. tot \in [granted : Int, included : Int, spent : Int, reserved : Int]
  BY DEF Ind, TypeOK
<1>1. ASSUME NEW c \in Calls, CallStep(c) PROVE P!Next \/ UNCHANGED purse
  <2>1. CASE Ask(c) \/ ReserveLost(c) \/ Finish(c) \/ ReleaseNext(c) \/ Age(c)
    BY <2>1 DEF Ask, ReserveLost, Finish, ReleaseNext, Age, ledger, rows, purse
  <2>2. CASE ReserveAnswered(c) \/ ReserveUnheard(c)
    <3>1. Reserved(c) /\ Reserve(c) \in net
      BY <2>2 DEF ReserveAnswered, ReserveUnheard
    <3> QED BY <3>1, ReserveHolds
  <2>3. ASSUME NEW n \in Costs \cup {Worst[c]}, SettleAnswered(c, n) \/ SettleFails(c, n)
        PROVE  P!Next \/ UNCHANGED purse
    <3>1. n \in Nat
      BY LedgerAssumption
    <3>2. Settle(c, n) \in net /\ (Settled(c, n) \/ UNCHANGED purse)
      BY <2>3 DEF SettleAnswered, SettleFails, ledger, rows, purse
    <3>3. c \in held \/ spend[c] # None
      BY <3>1, <3>2, SettleWaits
    <3> QED BY <3>1, <3>2, <3>3, SettlePays
  <2>4. CASE ReleaseAnswered(c) \/ ReleaseFails(c)
    <3>1. Settled(c, 0) \/ UNCHANGED purse
      BY <2>4 DEF ReleaseAnswered, ReleaseFails, ledger, rows, purse
    <3> QED BY <3>1, SettlePays
  <2> QED BY <1>1, <2>1, <2>2, <2>3, <2>4 DEF CallStep
<1>2. ASSUME NEW r \in Residents, Reset(r) PROVE UNCHANGED purse
  BY <1>2 DEF Reset, ledger, rows, purse
<1>3. ASSUME Account PROVE P!Next \/ UNCHANGED purse
  <2>1. CASE Midnight \/ SetPauses
    BY <2>1 DEF Midnight, SetPauses, rows, purse
  <2>2. CASE State
    <3>1. held' = HeldThen /\ spend' = SpendThen /\ tot'.granted = tot.granted
      BY <2>2, ExpiryIsEven DEF State, Expire
    <3> QED BY <3>1, ExpireSettles DEF P!Next
  <2>3. CASE PlanToCredits
    <3>1. CASE UNCHANGED <<grants, rows, tot>>
      BY <3>1 DEF rows, purse
    <3>2. CASE ~UNCHANGED <<grants, rows, tot>>
      <4>1. /\ held' = HeldThen /\ spend' = SpendThen
            /\ tot' = [TotThen EXCEPT !.included = @ - Movable]
        BY <2>3, <3>2 DEF PlanToCredits
      <4>2. tot'.granted = tot.granted
        BY <4>1, ExpiryIsEven
      <4> QED BY <4>1, <4>2, ExpireSettles DEF P!Next
    <3> QED BY <3>1, <3>2
  <2>4. ASSUME NEW i \in Invoices, Renewal(i) \/ Payment(i) PROVE P!Next \/ UNCHANGED purse
    BY <2>4, PaidGives
  <2> QED BY <1>3, <2>1, <2>2, <2>3, <2>4 DEF Account
<1>4. CASE UNCHANGED vars
  BY <1>4 DEF vars, ledger, rows, purse
<1> QED BY <1>1, <1>2, <1>3, <1>4 DEF Next

\* The Ledger is a purse: through lost, repeated and reordered requests, resets and
\* expiry, a call starts only with its money there and is paid for once.
THEOREM ImplementsPurse == Spec => KeepsPurse
<1>1. Ind /\ RowsFinite /\ TotalsTrue /\ TotalsTrue' /\ [Next]_vars => [P!Next]_purse
  BY StepKeepsPurse
<1>2. Init /\ [][Next]_vars /\ [](Ind /\ RowsFinite) /\ []TotalsTrue => P!Init /\ [][P!Next]_purse
  BY <1>1, InitPurse, PTL
<1> QED BY <1>2, LedgerInvariant, TotalsAreTrue, PTL DEF Spec, KeepsPurse, P!Spec, purse
=============================================================================
