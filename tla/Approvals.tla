---------------------------- MODULE Approvals ----------------------------
(***************************************************************************)
(* The cards a person answers before a tool may act: one row per question  *)
(* in the Resident's `approvals` table.  Three gates share it:             *)
(*   confirm   a payment or key action, confirmGate        (confirm.js)    *)
(*   perm      a kind of access, permGate and askPerson    (perms.js)      *)
(*   channels  General's front door, askPerson again       (front-door.js) *)
(*   site      a request of the channel computer, egressDecision           *)
(*                                                         (resident.js)   *)
(* A call that needs an answer opens a card, or joins the pending one for  *)
(* the same payload, and holds for two minutes when somebody can see it.   *)
(* The person may answer while it holds, or later: then a note carries the *)
(* task on, with a one-time token (confirm) or a one-use grant (perm,      *)
(* site).  Taps, holds, clocks, helpers of the same task and resets of the *)
(* object interleave; an action is the code between two awaits.            *)
(*                                                                         *)
(* What one turn remembers of an answer (permOk, permNo, permExpired) is   *)
(* left out: each call is the first of its kind in its turn.               *)
(*                                                                         *)
(* A definition whose comment begins with "Variant:" is a plausible        *)
(* mistake next to the definition it varies; nothing else uses it.         *)
(***************************************************************************)
EXTENDS Naturals

CONSTANTS
    Call,       \* gated tool calls of one task: its turns and its helpers'
    Payload,    \* what a call would do: payload hash, kind of access, site
    MaxCards,   \* bound: rows of the approvals table
    MaxTaps,    \* bound: answers the person gives
    MaxResets   \* bound: resets of the object

ASSUME BoundsAssumption ==
    MaxCards \in Nat /\ MaxTaps \in Nat /\ MaxResets \in Nat

VARIABLES
    kind,       \* which gate the calls of this behaviour go through
    row,        \* the approvals table
    call,       \* each call: where it is, its payload, its card, what let it run
    held,       \* memory: cards a call is holding on (_confirmHeld, _permHeld, _egressHeld)
    tap,        \* each answer: waiting in an await, or told; its id is its token
    grants,     \* cards with an unused one-use grant (table grants)
    allowed,    \* payloads that are always allowed (perm_allow, channel grants)
    reached,    \* history: cards whose answer a call returned with, or a note
                \* took to the task
    missed,     \* history: cards answered while a hold was on its way out, or
                \* whose holder a reset killed, or denied by marking the task done
    resets

vars == <<kind, row, call, held, tap, grants, allowed, reached, missed, resets>>

Card == 1 .. MaxCards
Tap == 1 .. MaxTaps
Kinds == {"confirm", "perm", "channels", "site"}
NoCard == 0

Rows == [st : {"none", "pending", "approved", "denied", "expired"},
         dec : {"none", "once", "always", "no"},
         pay : Payload \cup {"none"},
         tok : Tap \cup {0},      \* whose token's hash the row keeps
         used : BOOLEAN,
         old : BOOLEAN]           \* its time is over: 30 min (confirm), an hour or 10 min

Calls == [pc : {"idle", "texting", "holding", "ran"},
          pay : Payload \cup {"none"},
          card : Card \cup {NoCard},
          how : {"none", "allowed", "token", "grant", "hold"}]

Taps == [st : {"free", "waiting", "told", "over"}, card : Card \cup {NoCard}]

Pending(k) == row[k].st = "pending"
Answered(k) == row[k].st \in {"approved", "denied"}
HoldsOn(c, k) == call[c].pc = "holding" /\ call[c].card = k

Idle == [pc |-> "idle", pay |-> "none", card |-> NoCard, how |-> "none"]

TypeOK ==
    /\ kind \in Kinds
    /\ row \in [Card -> Rows]
    /\ call \in [Call -> Calls]
    /\ held \in SUBSET Card
    /\ tap \in [Tap -> Taps]
    /\ grants \in SUBSET Card
    /\ allowed \in SUBSET Payload
    /\ reached \in SUBSET Card
    /\ missed \in SUBSET Card
    /\ resets \in 0 .. MaxResets

Init ==
    /\ kind \in Kinds
    /\ row = [k \in Card |-> [st |-> "none", dec |-> "none", pay |-> "none",
                              tok |-> 0, used |-> FALSE, old |-> FALSE]]
    /\ call = [c \in Call |-> Idle]
    /\ held = {}
    /\ tap = [x \in Tap |-> [st |-> "free", card |-> NoCard]]
    /\ grants = {}
    /\ allowed = {}
    /\ reached = {}
    /\ missed = {}
    /\ resets = 0

---------------------------------------------------------------------------
(* The gates                                                               *)

\* The pending cards a call for payload p joins instead of opening its own.
Shared(p) == {k \in Card : Pending(k) /\ row[k].pay = p /\ ~row[k].old}
Unused == {k \in Card : row[k].st = "none"}

\* A call is made, or made again by a later turn (a retry, a task that carries on).
Makes(c) == call[c].pc = "idle"

\* It returns with a text instead: not allowed, or waiting for the person.
NotNow(c) == call' = [call EXCEPT ![c] = Idle]

CardFor(k, p) ==
    IF Shared(p) # {}
    THEN k \in Shared(p) /\ \A j \in Shared(p) : j <= k
    ELSE k \in Unused /\ \A j \in Unused : k <= j

Runs(c, p, k, how) ==
    call' = [call EXCEPT ![c] = [pc |-> "ran", pay |-> p, card |-> k, how |-> how]]

\* Variant: the token's row is not asked whether it was used.
GateTokenAgain(c, p, x) ==
    LET k == tap[x].card IN
    /\ kind = "confirm" /\ Makes(c) /\ tap[x].st = "told"
    /\ row[k].tok = x /\ row[k].st = "approved" /\ row[k].dec = "once"
    /\ ~row[k].old /\ row[k].pay = p
    /\ row' = [row EXCEPT ![k].used = TRUE]
    /\ Runs(c, p, k, "token")
    /\ UNCHANGED <<kind, held, tap, grants, allowed, reached, missed, resets>>

\* confirm: the call carries a token the row keeps, unused, in time, for the same
\* payload.  The row is read after the last await, so it is used up in the same step.
GateToken(c, p, x) ==
    LET k == tap[x].card IN
    /\ kind = "confirm" /\ Makes(c) /\ tap[x].st = "told"
    /\ row[k].tok = x /\ ~row[k].used
    /\ row[k].st = "approved" /\ row[k].dec = "once"
    /\ ~row[k].old /\ row[k].pay = p
    /\ row' = [row EXCEPT ![k].used = TRUE]
    /\ Runs(c, p, k, "token")
    /\ UNCHANGED <<kind, held, tap, grants, allowed, reached, missed, resets>>

\* A grant that a late "Allow once" left, for this payload and not expired.
Usable(p) == {k \in grants : row[k].pay = p /\ ~row[k].old}

GateGrant(c, p) ==
    /\ kind # "confirm" /\ Makes(c) /\ p \notin allowed
    /\ \E k \in Usable(p) :
        /\ grants' = grants \ {k}
        /\ Runs(c, p, k, "grant")
    /\ UNCHANGED <<kind, row, held, tap, allowed, reached, missed, resets>>

GateAllowed(c, p) ==
    /\ kind # "confirm" /\ Makes(c) /\ p \in allowed
    /\ Runs(c, p, NoCard, "allowed")
    /\ UNCHANGED <<kind, row, held, tap, grants, allowed, reached, missed, resets>>

\* No answer yet (a token that does not count is dropped): the pending card for this
\* payload, or a new one.  With the app open the call holds at once; otherwise the
\* card first goes out by text, which is awaited.
Ask(c, p) ==
    /\ Makes(c)
    /\ kind # "confirm" => p \notin allowed /\ Usable(p) = {}
    /\ \E k \in Card, live \in BOOLEAN :
        /\ CardFor(k, p)
        /\ row' = IF Pending(k) THEN row
                  ELSE [row EXCEPT ![k] = [st |-> "pending", dec |-> "none", pay |-> p,
                                           tok |-> 0, used |-> FALSE, old |-> FALSE]]
        /\ call' = [call EXCEPT ![c] = [pc |-> IF live THEN "holding" ELSE "texting",
                                        pay |-> p, card |-> k, how |-> "none"]]
        /\ held' = IF live THEN held \cup {k} ELSE held
    /\ UNCHANGED <<kind, tap, grants, allowed, reached, missed, resets>>

\* Whether a holding call goes ahead on a card that is no longer pending.  Only confirm
\* asks for the yes itself, an unused one; the other gates ask whether it was a no.
LetsRun(k) ==
    IF kind = "confirm"
    THEN row[k].st = "approved" /\ row[k].dec = "once" /\ ~row[k].used
    ELSE row[k].st # "denied"

\* Variant: the hold that reads an Allow once leaves its grant.
ReadAnswerKeepsGrant(c) ==
    LET k == call[c].card IN
    /\ ~Pending(k)
    /\ IF LetsRun(k) THEN Runs(c, call[c].pay, k, "hold") ELSE NotNow(c)
    /\ row' = IF kind = "confirm" /\ LetsRun(k)
              THEN [row EXCEPT ![k].used = TRUE] ELSE row
    /\ reached' = reached \cup {k}
    /\ held' = held \ {k}
    /\ UNCHANGED <<kind, tap, grants, allowed, missed, resets>>

\* The hold reads the answer; `finally` takes the card out of the set, also when
\* another call still holds on it.
ReadAnswer(c) ==
    LET k == call[c].card IN
    /\ ~Pending(k)
    /\ IF LetsRun(k) THEN Runs(c, call[c].pay, k, "hold") ELSE NotNow(c)
    /\ row' = IF kind = "confirm" /\ LetsRun(k)
              THEN [row EXCEPT ![k].used = TRUE] ELSE row
    /\ grants' = IF kind = "site" /\ row[k].dec = "once" THEN grants \ {k} ELSE grants
    /\ reached' = reached \cup {k}
    /\ held' = held \ {k}
    /\ UNCHANGED <<kind, tap, allowed, missed, resets>>

\* The text went out: hold, with a first look at the row in the same step.  Or it did
\* not: the call returns "waiting" and the card stays.
Hold(c) ==
    /\ Pending(call[c].card)
    /\ call' = [call EXCEPT ![c].pc = "holding"]
    /\ held' = held \cup {call[c].card}
    /\ UNCHANGED <<kind, row, tap, grants, allowed, reached, missed, resets>>

TextSent(c) == call[c].pc = "texting" /\ (ReadAnswer(c) \/ Hold(c))

TextFailed(c) ==
    /\ call[c].pc = "texting"
    /\ NotNow(c)
    /\ UNCHANGED <<kind, row, held, tap, grants, allowed, reached, missed, resets>>

Tick(c) == call[c].pc = "holding" /\ ReadAnswer(c)

\* Variant: no `finally`: the card stays in the set of held cards.
HoldEndsHeld(c) ==
    LET k == call[c].card IN
    /\ call[c].pc = "holding"
    /\ NotNow(c)
    /\ row' = IF kind = "channels" /\ Pending(k)
              THEN [row EXCEPT ![k].st = "expired"] ELSE row
    /\ missed' = IF Answered(k) THEN missed \cup {k} ELSE missed
    /\ UNCHANGED <<kind, held, tap, grants, allowed, reached, resets>>

\* The two minutes are over, or a Stop broke the hold.  The loop sleeps last and looks
\* no more, so an answer of the last half second is not read.  The front door closes
\* its card; the others leave it for a later answer.
HoldEnds(c) ==
    LET k == call[c].card IN
    /\ call[c].pc = "holding"
    /\ NotNow(c)
    /\ held' = held \ {k}
    /\ row' = IF kind = "channels" /\ Pending(k)
              THEN [row EXCEPT ![k].st = "expired"] ELSE row
    /\ missed' = IF Answered(k) THEN missed \cup {k} ELSE missed
    /\ UNCHANGED <<kind, tap, grants, allowed, reached, resets>>

---------------------------------------------------------------------------
(* The answers (decideApproval, decideConfirm, decidePerm)                 *)

\* A note takes the answer to the task unless a call is holding on the card: to the
\* worker that raised it, or as a message that joins or opens a turn (cardHandoff).
Tell(k) == reached' = IF k \in held THEN reached ELSE reached \cup {k}

Spend(x, k, st) == tap' = [tap EXCEPT ![x] = [st |-> st, card |-> k]]

\* Answers are numbered as they come.
CanAnswer(x, k) ==
    /\ tap[x].st = "free" /\ \A y \in Tap : y < x => tap[y].st # "free"
    /\ Pending(k)

\* A confirm card past its 30 minutes closes at the first tap, whichever it is.
TapTooLate(x, k) ==
    /\ CanAnswer(x, k) /\ kind = "confirm" /\ row[k].old
    /\ row' = [row EXCEPT ![k].st = "expired"]
    /\ Spend(x, k, "over")
    /\ UNCHANGED <<kind, call, held, grants, allowed, reached, missed, resets>>

TapNo(x, k) ==
    /\ CanAnswer(x, k) /\ ~(kind = "confirm" /\ row[k].old)
    /\ row' = [row EXCEPT ![k].st = "denied", ![k].dec = "no"]
    /\ Spend(x, k, "over")
    /\ Tell(k)
    /\ UNCHANGED <<kind, call, held, grants, allowed, missed, resets>>

\* Variant: the answer is kept as it was sent ("confirm"), not as "once".
TapOnceAsSent(x, k) ==
    /\ CanAnswer(x, k)
    /\ kind = "confirm" => k \in held /\ ~row[k].old
    /\ row' = [row EXCEPT ![k].st = "approved", ![k].dec = "confirm", ![k].old = FALSE]
    /\ grants' = IF kind = "site" \/ (kind # "confirm" /\ k \notin held)
                 THEN grants \cup {k} ELSE grants
    /\ Spend(x, k, "over")
    /\ Tell(k)
    /\ UNCHANGED <<kind, call, held, allowed, missed, resets>>

\* Confirm or Allow once, where nothing is awaited: a held confirm card (no token is
\* made), a permission, a site.  A site's grant is made held or not; the hold that
\* reads the answer takes it back.
TapOnce(x, k) ==
    /\ CanAnswer(x, k)
    /\ kind = "confirm" => k \in held /\ ~row[k].old
    /\ row' = [row EXCEPT ![k].st = "approved", ![k].dec = "once", ![k].old = FALSE]
    /\ grants' = IF kind = "site" \/ (kind # "confirm" /\ k \notin held)
                 THEN grants \cup {k} ELSE grants
    /\ Spend(x, k, "over")
    /\ Tell(k)
    /\ UNCHANGED <<kind, call, held, allowed, missed, resets>>

\* This site from now on: one step.
TapSite(x, k) ==
    /\ CanAnswer(x, k) /\ kind = "site"
    /\ row' = [row EXCEPT ![k].st = "approved", ![k].dec = "always", ![k].old = FALSE]
    /\ allowed' = allowed \cup {row[k].pay}
    /\ Spend(x, k, "over")
    /\ Tell(k)
    /\ UNCHANGED <<kind, call, held, grants, missed, resets>>

\* A Confirm nobody holds hashes its token, an Always allow saves the kind first: the
\* tap waits, with the row still pending.
TapWaits(x, k) ==
    /\ CanAnswer(x, k)
    /\ \/ kind = "confirm" /\ k \notin held /\ ~row[k].old
       \/ kind \in {"perm", "channels"}
    /\ Spend(x, k, "waiting")
    /\ UNCHANGED <<kind, row, call, held, grants, allowed, reached, missed, resets>>

\* Variant: the UPDATE does not ask whether the row is still pending.
ConfirmOverwrites(x) ==
    LET k == tap[x].card IN
    /\ kind = "confirm" /\ tap[x].st = "waiting"
    /\ row' = [row EXCEPT ![k].st = "approved", ![k].dec = "once",
                          ![k].tok = x, ![k].old = FALSE]
    /\ Spend(x, k, "told")
    /\ reached' = reached \cup {k}
    /\ UNCHANGED <<kind, call, held, grants, allowed, missed, resets>>

\* The rest of that tap.  The row changes only if it is still pending; the note goes
\* out either way, a Confirm's with its token.
ConfirmWritten(x) ==
    LET k == tap[x].card IN
    /\ kind = "confirm" /\ tap[x].st = "waiting"
    /\ row' = IF Pending(k)
              THEN [row EXCEPT ![k].st = "approved", ![k].dec = "once",
                               ![k].tok = x, ![k].old = FALSE]
              ELSE row
    /\ Spend(x, k, "told")
    /\ reached' = reached \cup {k}
    /\ UNCHANGED <<kind, call, held, grants, allowed, missed, resets>>

AlwaysWritten(x) ==
    LET k == tap[x].card IN
    /\ kind # "confirm" /\ tap[x].st = "waiting"
    /\ row' = IF Pending(k)
              THEN [row EXCEPT ![k].st = "approved", ![k].dec = "always", ![k].old = FALSE]
              ELSE row
    /\ allowed' = allowed \cup {row[k].pay}
    /\ Spend(x, k, "over")
    /\ Tell(k)
    /\ UNCHANGED <<kind, call, held, grants, missed, resets>>

AlwaysFails(x) ==
    /\ kind # "confirm" /\ tap[x].st = "waiting"
    /\ Spend(x, tap[x].card, "over")
    /\ UNCHANGED <<kind, row, call, held, grants, allowed, reached, missed, resets>>

\* The task is marked done: every pending card is denied (or expires), with no note.
TaskDone ==
    /\ row' = [k \in Card |->
                 IF ~Pending(k) THEN row[k]
                 ELSE IF kind = "confirm" /\ row[k].old THEN [row[k] EXCEPT !.st = "expired"]
                 ELSE [row[k] EXCEPT !.st = "denied", !.dec = "no"]]
    /\ missed' = missed \cup {k \in Card : Pending(k)}
    /\ UNCHANGED <<kind, call, held, tap, grants, allowed, reached, resets>>

---------------------------------------------------------------------------
(* Time and resets                                                         *)

\* The card's time runs out: to be joined and answered while it is pending, to be used
\* once it is approved.
Age(k) ==
    /\ row[k].st \in {"pending", "approved"} /\ ~row[k].old
    /\ row' = [row EXCEPT ![k].old = TRUE]
    /\ UNCHANGED <<kind, call, held, tap, grants, allowed, reached, missed, resets>>

\* A deploy resets the object: holds, texts on their way and taps in an await are gone.
\* What an interrupted Always allow had saved may have landed.
Reset ==
    /\ resets < MaxResets
    /\ resets' = resets + 1
    /\ held' = {}
    /\ call' = [c \in Call |-> IF call[c].pc \in {"texting", "holding"}
                               THEN Idle ELSE call[c]]
    /\ tap' = [x \in Tap |-> IF tap[x].st = "waiting"
                             THEN [tap[x] EXCEPT !.st = "over"] ELSE tap[x]]
    /\ missed' = missed \cup {k \in Card : Answered(k) /\ \E c \in Call : HoldsOn(c, k)}
    /\ \E S \in SUBSET {x \in Tap : kind # "confirm" /\ tap[x].st = "waiting"} :
          allowed' = allowed \cup {row[tap[x].card].pay : x \in S}
    /\ UNCHANGED <<kind, row, grants, reached>>

---------------------------------------------------------------------------
Gate(c, p) == \/ \E x \in Tap : GateToken(c, p, x)
              \/ GateGrant(c, p)
              \/ GateAllowed(c, p)
              \/ Ask(c, p)

Wait(c) == TextSent(c) \/ TextFailed(c) \/ Tick(c) \/ HoldEnds(c)

Answer(x) == \/ \E k \in Card : \/ TapTooLate(x, k)
                                \/ TapNo(x, k)
                                \/ TapOnce(x, k)
                                \/ TapSite(x, k)
                                \/ TapWaits(x, k)
             \/ ConfirmWritten(x)
             \/ AlwaysWritten(x)
             \/ AlwaysFails(x)

Next == \/ \E c \in Call : Wait(c) \/ \E p \in Payload : Gate(c, p)
        \/ \E x \in Tap : Answer(x)
        \/ TaskDone
        \/ \E k \in Card : Age(k)
        \/ Reset

Spec == Init /\ [][Next]_vars

---------------------------------------------------------------------------
(* Correctness                                                             *)

Ran(c, k) == call[c].pc = "ran" /\ call[c].card = k

\* One yes lets one call through (confirm.js:6-11).  Two calls may hold on one card, a
\* call may carry the card's token while another holds on it, a late grant may meet
\* the retry it was made for: a confirm card is used by at most one of them, and a
\* token or a grant by at most one call; and a call runs only for the payload of a
\* card that was approved (the front door is apart: ReadsAfterYes).
OneYesOneRun ==
    /\ \A c, d \in Call, k \in Card :
        /\ Ran(c, k) /\ Ran(d, k)
        /\ kind = "confirm" \/ (call[c].how # "hold" /\ call[d].how # "hold")
        => c = d
    /\ \A c \in Call, k \in Card :
        Ran(c, k) /\ kind # "channels" => /\ row[k].st = "approved"
                                          /\ row[k].pay = call[c].pay

\* An answer is never dropped: it is read by a call that holds or carried to the task
\* by a note, although who does it is decided by a set in memory that several calls
\* share.  What remains is answered in the last half second of a hold, or while a
\* reset kills the holder, or was denied by marking the task done (`missed`).
AnswerReaches ==
    \A k \in Card : Answered(k) =>
        \/ k \in reached \/ k \in missed
        \/ \E c \in Call : HoldsOn(c, k)

\* "already approved": the first answer stands, also against a tap that had found the
\* card pending and waited since (confirm.js:127, perms.js:262), and a used card or a
\* token is never given back.
FirstAnswerStands ==
    [][\A k \in Card : row[k].st \in {"approved", "denied", "expired"} =>
          /\ row'[k].st = row[k].st /\ row'[k].dec = row[k].dec /\ row'[k].tok = row[k].tok
          /\ row[k].used => row'[k].used]_vars

\* When the hold that asked has read an Allow once for a site, no grant of it is left
\* for another request (resident.js:5353).
OnceIsSpent ==
    kind = "site" =>
        \A c \in Call, k \in Card :
            Ran(c, k) /\ call[c].how = "hold" /\ row[k].dec = "once" => k \notin grants

\* The inductive invariant behind them.  A held card has a call that holds on it (the
\* set only ever forgets); a grant and a used card are approved ones; a call that ran
\* on a grant has used it up; only confirm and the front door close a card as expired.
HeldHasHolder == \A k \in held : \E c \in Call : HoldsOn(c, k)

CardsInv ==
    \A k \in Card :
        /\ k \in grants => row[k].st = "approved" /\ kind # "confirm"
        /\ row[k].st # "none" => row[k].pay \in Payload
        /\ row[k].st = "expired" => kind \in {"confirm", "channels"}

WaitingInv ==
    \A c \in Call :
        call[c].pc \in {"texting", "holding"} =>
            LET k == call[c].card IN
            k \in Card /\ row[k].st # "none" /\ row[k].pay = call[c].pay

RanInv ==
    \A c \in Call :
        call[c].pc = "ran" /\ call[c].card # NoCard =>
            LET k == call[c].card IN
            /\ call[c].how \in {"token", "grant", "hold"}
            /\ row[k].st \notin {"none", "pending"} /\ row[k].pay = call[c].pay
            /\ kind # "channels" => row[k].st = "approved"
            /\ kind = "confirm" => row[k].used
            /\ call[c].how = "grant" => k \notin grants /\ kind # "confirm"
            /\ call[c].how = "token" => kind = "confirm"

TapsInv ==
    \A x \in Tap : tap[x].st # "free" =>
        tap[x].card \in Card /\ row[tap[x].card].st # "none"

ApprovalInv ==
    TypeOK /\ HeldHasHolder /\ CardsInv /\ TapsInv /\ WaitingInv /\ RanInv
    /\ OneYesOneRun /\ AnswerReaches /\ OnceIsSpent
==========================================================================
