----------------------------- MODULE MCLedger -----------------------------
(* Ledger with one Resident, a model call (listed) and a known-price call *)
(* (not listed) that together need more than the day allows, a plan that   *)
(* is renewed at a smaller one, and a top-up.                              *)
EXTENDS Ledger

CONSTANTS a, x, r1, m1, m2, t1

HomeOf == [c \in {a, x} |-> r1]
WorstOf == [c \in {a, x} |-> IF c = a THEN 2 ELSE 1]
PaidFor == [i \in {m1, m2, t1} |->
    CASE i = m1 -> [kind |-> "renewal", nano |-> 3]
      [] i = m2 -> [kind |-> "renewal", nano |-> 1]
      [] i = t1 -> [kind |-> "topup", nano |-> 1]]
=============================================================================
