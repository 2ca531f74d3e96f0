------------------------------ MODULE Ledger ------------------------------
(***************************************************************************)
(* The money of one account: its Ledger object (ee/ledger.js), and the     *)
(* Residents that reserve and settle their paid calls with it              *)
(* (resident.js).                                                          *)
(*                                                                         *)
(* A call is reserved at the most it can cost before it starts and settled *)
(* at what it did cost.  A Resident first writes the reservation in its    *)
(* own table res_open; a fresh Resident releases every row left there      *)
(* (settles it at 0), because the reset killed the call.  A reservation    *)
(* nobody settles for ten minutes is charged in full.  Every request to    *)
(* the Ledger travels on its own: requests arrive in any order or never,   *)
(* and an answer may be lost after the request was carried out.            *)
(*                                                                         *)
(* The sums in table tot are kept by triggers; here every action that      *)
(* writes a row changes them with it.  Amounts are small integers, the     *)
(* daily cap is a constant, and a backup key (byok) and the meters that    *)
(* only read the rows are left out.                                        *)
(*                                                                         *)
(* A definition whose comment begins with "Variant:" is a plausible        *)
(* mistake next to the definition it varies; nothing else uses it.         *)
(***************************************************************************)
EXTENDS Integers, FiniteSets, Sums

CONSTANTS
    Calls,      \* paid calls; each has its own random id
    Listed,     \* those written in res_open first: model calls and byokHold
    Residents,  \* channel objects of the account
    Home,       \* the Resident that makes a call
    Worst,      \* the most a call can cost: what it reserves
    Costs,      \* what a listed call may turn out to cost
    Invoices,   \* invoices and top-ups the person may pay
    First,      \* the invoice the account starts with
    Paid,       \* what each is for: a record [kind, nano]
    DayCap,     \* what one day may use when pauses are on
    MaxResets   \* bound: resets of the Residents

\* The sum of what a set of calls reserves.
HeldBy(S) == SumOver(Worst, S)

ASSUME LedgerAssumption ==
    /\ Listed \subseteq Calls
    /\ Home \in [Calls -> Residents]
    /\ Worst \in [Calls -> Nat]
    /\ Costs \subseteq Nat
    /\ Paid \in [Invoices -> [kind : {"renewal", "upgrade", "topup"}, nano : Nat]]
    /\ First \in Invoices /\ Paid[First].kind = "renewal"
    /\ DayCap \in Nat /\ MaxResets \in Nat

VARIABLES
    grants,     \* Ledger: rows of grants, each [key, kind, nano]
    held,       \* Ledger: ids with a row in res, a hold
    old,        \* Ledger: those whose hold is older than ten minutes
    spend,      \* Ledger: the charge in an id's row of spend, or None
    today,      \* Ledger: ids whose row, in res or spend, is dated today
    tot,        \* Ledger: the running sums
    events,     \* Ledger: rows of res_events, each <<id, kind>>
    pauses,     \* Ledger: "pause to check spending" is on
    call,       \* Residents: each call in its Resident's memory
    open,       \* Residents: ids in res_open
    release,    \* Residents: a fresh one's pass over its res_open rows
    net,        \* requests on their way to the Ledger
    resets

rows == <<held, old, spend, today, events>>
ledger == <<rows, tot, grants, pauses>>
resident == <<call, open, release, net>>
vars == <<ledger, resident, resets>>

None == -1
Lesser(m, n) == IF m <= n THEN m ELSE n

Phases == {"new", "asked", "running", "closing", "done", "unsure", "refused", "unheard"}
Passes == {"none", "todo", "sent"}
Requests == [of : Calls, op : {"reserve"}, nano : {0}]
            \cup [of : Calls, op : {"settle"}, nano : Nat]
            \cup [of : Calls, op : {"release"}, nano : {0}]
Reserve(c) == [of |-> c, op |-> "reserve", nano |-> 0]
Settle(c, n) == [of |-> c, op |-> "settle", nano |-> n]
Release(c) == [of |-> c, op |-> "release", nano |-> 0]

Keys == ({"paid", "expire"} \X Invoices) \cup ({"credits", "credits:expire"} \X Nat)
Grants == [key : Keys, kind : {"included", "topup"}, nano : Nat]
          \cup [key : Keys, kind : {"included_expire"}, nano : Int]

Granted(k) == \E g \in grants : g.key = k
Row(k, kind, n) == [key |-> k, kind |-> kind, nano |-> n]

(* What a call settled at, capped by its hold; 0 when it never settled. *)
Due(c) == IF call[c].charge = None THEN 0 ELSE Lesser(call[c].charge, Worst[c])

Balance == tot.granted - tot.spent - tot.reserved

\* The tables and sums hold what their columns may hold; what expires is never
\* added back (grantIncluded and byokPlanToCredits expire at most what is left).
TypeOK ==
    /\ grants \subseteq Grants
    /\ \A g \in grants : g.kind = "included_expire" => g.nano <= 0
    /\ held \subseteq Calls /\ old \subseteq held /\ today \subseteq Calls
    /\ spend \in [Calls -> Nat \cup {None}]
    /\ tot \in [granted : Int, included : Int, spent : Int, reserved : Int]
    /\ events \subseteq Calls \X {"expired", "late_settle"}
    /\ pauses \in BOOLEAN
    /\ call \in [Calls -> [pc : Phases, gone : BOOLEAN, charge : Nat \cup {None}]]
    /\ open \subseteq Listed
    /\ release \in [Calls -> Passes]
    /\ net \subseteq Requests
    /\ resets \in 0 .. MaxResets

Init ==
    /\ grants = {Row(<<"paid", First>>, "included", Paid[First].nano)}
    /\ held = {} /\ old = {} /\ today = {}
    /\ spend = [c \in Calls |-> None]
    /\ tot = [granted |-> Paid[First].nano, included |-> Paid[First].nano,
              spent |-> 0, reserved |-> 0]
    /\ events = {}
    /\ pauses = FALSE
    /\ call = [c \in Calls |-> [pc |-> "new", gone |-> FALSE, charge |-> None]]
    /\ open = {}
    /\ release = [c \in Calls |-> "none"]
    /\ net = {}
    /\ resets = 0

-----------------------------------------------------------------------------
(* The Ledger's tables after expire(): holds older than ten minutes are    *)
(* charged in full, dated when they were made, each with an event row.     *)

Expiring == {c \in old : spend[c] = None}      \* INSERT OR IGNORE INTO spend

HeldThen == held \ old
SpendThen == [c \in Calls |-> IF c \in Expiring THEN Worst[c] ELSE spend[c]]
TotThen == [tot EXCEPT !.spent = @ + HeldBy(Expiring), !.reserved = @ - HeldBy(old)]

\* Variant: the events are read from the holds after those were deleted.
EventsThenTooLate == events \cup {<<c, "expired">> : c \in HeldThen \cap old}
EventsThen == events \cup {<<c, "expired">> : c \in old}

Expire ==
    /\ held' = HeldThen /\ old' = {}
    /\ spend' = SpendThen /\ tot' = TotThen /\ events' = EventsThen
    /\ UNCHANGED today

(* dayInfo: what today used, charges and open holds. *)
DayUse(s, d, reserved) == SumOver(s, {c \in d : s[c] # None}) + reserved

\* Variant: the open holds are not taken off.
LeftUnheld(t) == t.granted - t.spent
Left(t) == t.granted - t.spent - t.reserved

\* Variant: two calls that reserve at once each see the day without the other's hold.
OverDaySpent(c) == pauses /\ DayUse(SpendThen, today, 0) + Worst[c] > DayCap
OverDay(c) == pauses /\ DayUse(SpendThen, today, TotThen.reserved) + Worst[c] > DayCap

Refused(c) == Left(TotThen) < Worst[c] \/ OverDay(c)

(* reserve: stale holds expire first, then the balance and the day are      *)
(* checked, then the hold is written, all in one go.                        *)
Reserved(c) ==
    /\ IF Refused(c) THEN Expire
       ELSE /\ held' = HeldThen \cup {c} /\ old' = {} /\ today' = today \cup {c}
            /\ spend' = SpendThen /\ events' = EventsThen
            /\ tot' = [TotThen EXCEPT !.reserved = @ + Worst[c]]
    /\ UNCHANGED <<grants, pauses>>

\* Variant: the charge is what the call cost, also above its hold.
ChargeUncapped(c, n) == n
Charge(c, n) == IF c \in held THEN Lesser(n, Worst[c]) ELSE n

\* Variant: INSERT OR REPLACE, whose delete of the row before fires no trigger.
WritesAgain(c, n) == c \in held \/ n > 0
(* INSERT OR IGNORE: one charge for each id. *)
Writes(c, n) == (c \in held \/ n > 0) /\ spend[c] = None

(* A charge for an id that was released: noted, not charged. *)
Late(c, n) == c \notin held /\ n > 0 /\ spend[c] = 0

(* settle *)
Settled(c, n) ==
    /\ held' = held \ {c} /\ old' = old \ {c}
    /\ IF Writes(c, n)
       THEN spend' = [spend EXCEPT ![c] = Charge(c, n)] /\ today' = today \cup {c}
       ELSE UNCHANGED <<spend, today>>
    /\ tot' = [tot EXCEPT !.spent = IF Writes(c, n) THEN @ + Charge(c, n) ELSE @,
                          !.reserved = IF c \in held THEN @ - Worst[c] ELSE @]
    /\ events' = IF Late(c, n) THEN events \cup {<<c, "late_settle">>} ELSE events
    /\ UNCHANGED <<grants, pauses>>

-----------------------------------------------------------------------------
(* A call in its Resident: resOpen, reserve, the call, settle, resClose.   *)

At(c, pc) == call[c].pc = pc
Becomes(c, pc, gone, charge) ==
    call' = [call EXCEPT ![c] = [pc |-> pc, gone |-> gone, charge |-> charge]]
GoTo(c, pc) == Becomes(c, pc, call[c].gone, call[c].charge)
Ends(c, pc) == Becomes(c, pc, FALSE, call[c].charge)

(* The row is written before the request leaves.  A call that is not listed *)
(* (chargeExtra) writes none.                                               *)
Ask(c) ==
    /\ At(c, "new") /\ ~call[c].gone
    /\ GoTo(c, "asked")
    /\ open' = open \cup ({c} \cap Listed)
    /\ net' = net \cup {Reserve(c)}
    /\ UNCHANGED <<ledger, release>>

(* The Ledger handles a reserve and its answer arrives: the call runs, or  *)
(* is refused and its row closed.  An old instance may still hear it and run *)
(* on, but it cannot write its tables any more; when a release already      *)
(* closed the row, nobody is left who would settle.                         *)
ReserveAnswered(c) ==
    /\ Reserve(c) \in net
    /\ Reserved(c)
    /\ net' = net \ {Reserve(c)}
    /\ IF Refused(c) THEN Ends(c, "refused")
       ELSE IF call[c].gone /\ c \in Listed \ open THEN Ends(c, "unheard") ELSE GoTo(c, "running")
    /\ open' = IF Refused(c) /\ ~call[c].gone THEN open \ {c} ELSE open
    /\ UNCHANGED release

(* The Ledger handles a reserve, and the answer is lost: the Resident takes *)
(* it for a failure, closes the row and gives the call up.                  *)
ReserveUnheard(c) ==
    /\ Reserve(c) \in net
    /\ ~call[c].gone
    /\ Reserved(c)
    /\ net' = net \ {Reserve(c)}
    /\ Ends(c, IF Refused(c) THEN "refused" ELSE "unheard")
    /\ open' = open \ {c}
    /\ UNCHANGED release

(* The request itself is lost; a Resident that still waits gives the call up. *)
ReserveLost(c) ==
    /\ Reserve(c) \in net
    /\ net' = net \ {Reserve(c)}
    /\ IF call[c].gone THEN UNCHANGED <<call, open>>
       ELSE Ends(c, "refused") /\ open' = open \ {c}
    /\ UNCHANGED <<ledger, release>>

(* The call ends, well or badly (a failed one settles what it used, perhaps *)
(* nothing).  A call that is not listed has a known price.  A gone instance *)
(* may still finish its call.                                               *)
Finish(c) ==
    /\ At(c, "running")
    /\ \E n \in IF c \in Listed THEN Costs ELSE {Worst[c]} :
        /\ Becomes(c, "closing", call[c].gone, n)
        /\ net' = net \cup {Settle(c, n)}
    /\ UNCHANGED <<ledger, open, release>>

SettleAnswered(c, n) ==
    /\ Settle(c, n) \in net
    /\ Settled(c, n)
    /\ net' = net \ {Settle(c, n)}
    /\ Ends(c, "done")
    /\ open' = IF call[c].gone THEN open ELSE open \ {c}
    /\ UNCHANGED release

\* Variant: the row is closed in a finally, also when settle failed.
UnsureClosed(c) == Ends(c, "unsure") /\ open' = open \ {c}
(* A settle that failed throws past resClose: the row stays. *)
Unsure(c) == Ends(c, "unsure") /\ UNCHANGED open

(* The Ledger handled it and the answer is lost, or the request is lost. *)
SettleFails(c, n) ==
    /\ Settle(c, n) \in net
    /\ net' = net \ {Settle(c, n)}
    /\ Settled(c, n) \/ UNCHANGED ledger
    /\ Unsure(c)
    /\ UNCHANGED release

-----------------------------------------------------------------------------
(* A Resident is reset: its calls in memory are lost (they may still finish *)
(* outside), and the fresh object reads its res_open rows once, for         *)
(* resOpenRelease.                                                          *)

Of(r) == {c \in Calls : Home[c] = r}
InFlight(c) == call[c].pc \in {"asked", "running", "closing"}

Reset(r) ==
    /\ resets < MaxResets
    /\ resets' = resets + 1
    /\ call' = [c \in Calls |->
          IF c \in Of(r) /\ InFlight(c) THEN [call[c] EXCEPT !.gone = TRUE] ELSE call[c]]
    /\ release' = [c \in Calls |->
          IF c \in Of(r) THEN IF c \in open THEN "todo" ELSE "none" ELSE release[c]]
    /\ UNCHANGED <<ledger, open, net>>

(* resOpenRelease awaits one settle(rid, 0) after another. *)
ReleaseNext(c) ==
    /\ release[c] = "todo"
    /\ \A d \in Of(Home[c]) : release[d] # "sent"
    /\ release' = [release EXCEPT ![c] = "sent"]
    /\ net' = net \cup {Release(c)}
    /\ UNCHANGED <<ledger, call, open>>

(* The Ledger handles a release; the row goes if the object that sent it is *)
(* still there and hears so.                                                *)
ReleaseAnswered(c) ==
    /\ Release(c) \in net
    /\ Settled(c, 0)
    /\ net' = net \ {Release(c)}
    /\ IF release[c] = "sent"
       THEN release' = [release EXCEPT ![c] = "none"] /\ open' = open \ {c}
       ELSE UNCHANGED <<release, open>>
    /\ UNCHANGED call

(* A release that failed leaves the row for the next start. *)
ReleaseFails(c) ==
    /\ Release(c) \in net
    /\ net' = net \ {Release(c)}
    /\ Settled(c, 0) \/ UNCHANGED ledger
    /\ release' = [release EXCEPT ![c] = IF @ = "sent" THEN "none" ELSE @]
    /\ UNCHANGED <<call, open>>

-----------------------------------------------------------------------------
(* Time and the account.                                                    *)

(* A hold turns ten minutes old. *)
Age(c) ==
    /\ c \in held \ old
    /\ old' = old \cup {c}
    /\ UNCHANGED <<held, spend, today, events, tot, grants, pauses, resident>>

(* Midnight: nothing written so far is of today. *)
Midnight ==
    /\ today' = {}
    /\ UNCHANGED <<held, old, spend, events, tot, grants, pauses, resident>>

(* state: somebody looks at the balance, and stale holds expire. *)
State == Expire /\ UNCHANGED <<grants, pauses, resident>>

SetPauses ==
    /\ pauses' = ~pauses
    /\ UNCHANGED <<rows, tot, grants, resident>>

\* Variant: more spent than was included is handed back at the renewal.
UnusedSigned(t) == t.included - t.spent
(* What is left of the included usage; the renewal takes it back. *)
Unused(t) == IF t.included > t.spent THEN t.included - t.spent ELSE 0

(* grantIncluded: a plan's invoice is paid.  Stripe may deliver it again. *)
Renewal(i) ==
    /\ Paid[i].kind = "renewal"
    /\ IF Granted(<<"paid", i>>) THEN UNCHANGED <<grants, tot>>
       ELSE LET u == Unused(tot) IN
            /\ grants' = grants
                 \cup (IF u # 0 THEN {Row(<<"expire", i>>, "included_expire", -u)} ELSE {})
                 \cup {Row(<<"paid", i>>, "included", Paid[i].nano)}
            /\ tot' = [tot EXCEPT !.granted = @ + Paid[i].nano - u, !.included = @ + Paid[i].nano - u]
    /\ UNCHANGED <<rows, pauses, resident>>

(* grant: an upgrade in mid-month is included usage, a top-up is credits. *)
Payment(i) ==
    /\ Paid[i].kind \in {"upgrade", "topup"}
    /\ IF Granted(<<"paid", i>>) THEN UNCHANGED <<grants, tot>>
       ELSE LET kind == IF Paid[i].kind = "topup" THEN "topup" ELSE "included" IN
            /\ grants' = grants \cup {Row(<<"paid", i>>, kind, Paid[i].nano)}
            /\ tot' = [tot EXCEPT !.granted = @ + Paid[i].nano,
                                  !.included = IF kind = "included" THEN @ + Paid[i].nano ELSE @]
    /\ UNCHANGED <<rows, pauses, resident>>

(* byokUnusedPlan, after expire(): open holds come off what may move. *)
Movable ==
    LET n == Lesser(TotThen.included - TotThen.spent - TotThen.reserved, Left(TotThen))
    IN IF n > 0 THEN n ELSE 0

(* byokPlanToCredits: the unused plan usage becomes credits, once for each *)
(* included grant that is the latest.                                       *)
Latest == Cardinality({g \in grants : g.kind = "included" /\ g.nano > 0})

PlanToCredits ==
    /\ IF Granted(<<"credits", Latest>>)
       THEN UNCHANGED <<grants, rows, tot>>
       ELSE /\ held' = HeldThen /\ old' = {} /\ UNCHANGED today
            /\ spend' = SpendThen /\ events' = EventsThen
            /\ tot' = [TotThen EXCEPT !.included = @ - Movable]
            /\ grants' = IF Movable = 0 THEN grants
                 ELSE grants \cup {Row(<<"credits:expire", Latest>>, "included_expire", -Movable),
                                   Row(<<"credits", Latest>>, "topup", Movable)}
    /\ UNCHANGED <<pauses, resident>>

-----------------------------------------------------------------------------
CallStep(c) ==
    \/ Ask(c) \/ ReserveAnswered(c) \/ ReserveUnheard(c) \/ ReserveLost(c) \/ Finish(c)
    \/ \E n \in Costs \cup {Worst[c]} : SettleAnswered(c, n) \/ SettleFails(c, n)
    \/ ReleaseNext(c) \/ ReleaseAnswered(c) \/ ReleaseFails(c) \/ Age(c)

Account ==
    \/ Midnight \/ State \/ SetPauses \/ PlanToCredits
    \/ \E i \in Invoices : Renewal(i) \/ Payment(i)

Next ==
    \/ (\E c \in Calls : CallStep(c)) /\ UNCHANGED resets
    \/ \E r \in Residents : Reset(r)
    \/ Account /\ UNCHANGED resets

Spec == Init /\ [][Next]_vars

-----------------------------------------------------------------------------
(* Properties.                                                              *)

\* No call takes the balance below zero: however reservations, settles, releases
\* and expiries of concurrent calls interleave, only a renewal that takes unused
\* usage back under open holds may leave it there ("single-writer ledger, so
\* concurrent calls can't overspend", ledger.js).
Renewing == \E g \in grants' \ grants : g.kind = "included_expire"
NoOverspend == [][Balance' >= 0 \/ Balance' >= Balance \/ Renewing]_vars

\* A day's limit: while pauses are on, nothing makes today's charges and holds
\* grow past the cap, however many calls reserve at once, are settled or expire.
Today == DayUse(spend, today, tot.reserved)
DayLimit == [][pauses /\ Today' > Today => Today' <= DayCap]_vars

\* What a person pays for a call is what the call cost, or res_events says why
\* not: more only when its hold ran ten minutes, less only when a release came first.
ChargeTrue(c) ==
    /\ spend[c] > Due(c) => <<c, "expired">> \in events
    /\ At(c, "done") /\ spend[c] < Due(c) => <<c, "late_settle">> \in events
ChargesAreTrue == \A c \in Calls : ChargeTrue(c)

\* A hold of a listed call is in res_open for as long as nobody has settled it,
\* so the next start finds it; only a reserve whose answer reached nobody who
\* still had the row is left to run out its ten minutes.
HoldKnown(c) == c \in held \cap Listed => c \in open \/ At(c, "unheard")
NoHoldForgotten == \A c \in Calls : HoldKnown(c)

\* The running sums in tot, which every check reads, are the sums of the rows, also
\* when a write is ignored, released first or repeated ("no code path that writes
\* those tables can leave a sum behind", ledger.js).
Charged == {c \in Calls : spend[c] # None}
Nano == [g \in grants |-> g.nano]
TotalsTrue ==
    /\ tot.reserved = HeldBy(held)
    /\ tot.spent = SumOver(spend, Charged)
    /\ tot.granted = SumOver(Nano, grants)
    /\ tot.included = SumOver(Nano, {g \in grants : g.kind # "topup"})

\* Seen from the account alone the Ledger is a Purse: lost and repeated requests,
\* late settles, releases and expiry are never seen as more than one payment each.
P == INSTANCE Purse WITH put <- tot.granted, paid <- spend
KeepsPurse == P!Spec

(* What the proofs need besides: an id is held or charged, never both, and *)
(* from its grant on always one of them.                                   *)
CallInv(c) ==
    /\ c \in held => spend[c] = None
    /\ call[c].pc \in {"new", "asked", "refused"} => c \notin held /\ spend[c] = None
    /\ call[c].pc \in {"running", "closing", "done", "unsure", "unheard"} =>
          c \in held \/ spend[c] # None
    /\ call[c].pc \in {"running", "closing"} => spend[c] \in {None, 0, Worst[c]}
    /\ call[c].pc \in {"new", "asked", "running"} => call[c].charge = None
    /\ At(c, "done") => c \notin held
    /\ InFlight(c) /\ ~call[c].gone => release[c] = "none" /\ (c \in Listed => c \in open)
    /\ At(c, "new") => release[c] = "none" /\ c \notin open

(* A request on its way belongs to a call that waits for it. *)
RequestInv(c) ==
    /\ Reserve(c) \in net => At(c, "asked")
    /\ \A q \in net : q.of = c /\ q.op = "settle" => At(c, "closing") /\ call[c].charge = q.nano

(* Unused usage is taken back together with the renewal that takes it. *)
GrantInv ==
    /\ IsFiniteSet(grants)
    /\ \A i \in Invoices : Granted(<<"expire", i>>) => Granted(<<"paid", i>>)

(* At any time finitely many requests were made, however many calls there  *)
(* may be, so their rows can be summed.                                    *)
RowsFinite == IsFiniteSet(held) /\ IsFiniteSet(Charged)

(* The two rows that move usage to credits are written together. *)
CreditInv == \A g \in grants : g.key[1] = "credits:expire" => Granted(<<"credits", g.key[2]>>)

LedgerInv == GrantInv /\ RowsFinite /\ CreditInv /\ \A c \in Calls : CallInv(c) /\ RequestInv(c)
=============================================================================
