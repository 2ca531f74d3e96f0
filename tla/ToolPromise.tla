---------------------------- MODULE ToolPromise ----------------------------
(***************************************************************************)
(* What the results of a turn's tool calls promise to the model that reads *)
(* them: a call that may not be repeated acts at most once, and a result   *)
(* that says "done" or "nothing was done" is true, now and later.          *)
(* ToolEffects implements it through resets, Stops and resumes.            *)
(***************************************************************************)
EXTENDS Naturals

CONSTANTS
    Call,     \* the calls of one answer
    Again     \* those that may act more than once (reads)

VARIABLES
    acts,     \* how often each call acted on the outside
    told      \* what its result says: "open" as long as there is none

Told == {"open", "done", "nothing", "unknown"}

Init == acts = [c \in Call |-> 0] /\ told = [c \in Call |-> "open"]

\* A call acts, also after a Stop or a reset has left its result unknown.
Act(c) ==
    /\ told[c] \in {"open", "unknown"}
    /\ acts[c] = 0 \/ c \in Again
    /\ acts' = [acts EXCEPT ![c] = @ + 1]
    /\ UNCHANGED told

\* Its result is told, once.
Tell(c) ==
    /\ told[c] = "open"
    /\ \E t \in Told \ {"open"} :
        /\ t = "done" => acts[c] > 0
        /\ t = "nothing" => acts[c] = 0
        /\ told' = [told EXCEPT ![c] = t]
    /\ UNCHANGED acts

Next == \E c \in Call : Act(c) \/ Tell(c)

Spec == Init /\ [][Next]_<<acts, told>>
=============================================================================
