------------------------------- MODULE Purse -------------------------------
(***************************************************************************)
(* What an account promises the person who pays into it: no call starts    *)
(* unless what it can cost is there, a call is paid for at most once and   *)
(* never above its hold, and what was put in is taken back only as far as  *)
(* no call has used it.  Ledger implements it with Residents that are      *)
(* reset and a network that loses and reorders what they ask.              *)
(***************************************************************************)
EXTENDS Integers, Sums

CONSTANTS
    Calls,    \* the paid calls
    Worst     \* the most each can cost

VARIABLES
    put,      \* what was put in, less what was taken back
    held,     \* the calls that have a hold
    paid      \* what was paid for a call, or None

None == -1

Used == SumOver(paid, {c \in Calls : paid[c] # None})
Free == put - Used - SumOver(Worst, held)

Init == put \in Nat /\ held = {} /\ paid = [c \in Calls |-> None]

\* Some holds end, each with a payment within it.
Pay(S) ==
    /\ paid' \in [Calls -> Nat \cup {None}]
    /\ \A c \in S : paid[c] = None /\ paid'[c] \in 0 .. Worst[c]
    /\ \A c \in Calls \ S : paid'[c] = paid[c]
    /\ UNCHANGED put

Settle == \E S \in SUBSET held : Pay(S) /\ held' = held \ S

\* A call starts with a hold, once, when the money is there; holds that nobody
\* settled may end first.
Hold(c) ==
    /\ c \notin held /\ paid[c] = None
    /\ \E S \in SUBSET held : Pay(S) /\ held' = (held \ S) \cup {c}
    /\ Free' >= 0

\* Money is put in, or some of what no call has used is taken back.
Give ==
    /\ put' \in Int
    /\ put' >= put \/ put' >= Used
    /\ UNCHANGED <<held, paid>>

Next == Settle \/ Give \/ \E c \in Calls : Hold(c)

Spec == Init /\ [][Next]_<<put, held, paid>>
=============================================================================
