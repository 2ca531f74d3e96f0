---------------------------- MODULE ToolEffects ----------------------------
(***************************************************************************)
(* The tool calls of one saved answer of a turn: each one is journaled     *)
(* before it runs (turn_effects), runs, and gets one saved result.  A      *)
(* reset may cut it off anywhere; the resumed turn closes each open call   *)
(* by its class (resumeClose).  A person may press Stop, which lets go of  *)
(* a running call without ending it, and decides the confirm card a call   *)
(* shows (confirm.js).                                                     *)
(*                                                                         *)
(* A definition whose comment begins with "Variant:" is not the code: it   *)
(* is the next definition with one deliberate mistake.                     *)
(*                                                                         *)
(* Kinds of call: "read" (classes read and local: may run again), "exec"   *)
(* (a command in the channel computer), "once" (start_helper, whose own    *)
(* row tells that it happened), "write" (anything else) and "send" (a      *)
(* write behind a confirm card).  Abstracted: app_run reads that go out as *)
(* one batch run one after the other, and the token a later tap gives is   *)
(* used by a call of a later answer.                                       *)
(***************************************************************************)
EXTENDS Naturals

CONSTANTS
    Calls,       \* number of calls of the answer
    Kind,        \* the kind of each of them
    Engine,      \* "classic" (runTurnInner) or "pi" (runTurnPi)
    MaxResets    \* resets of the object (bound)

Call  == 1 .. Calls
Kinds == {"read", "exec", "once", "write", "send"}

ASSUME CallsAssumption == Calls \in Nat /\ MaxResets \in Nat
ASSUME KindAssumption  == Kind \in [Call -> Kinds]
ASSUME ModeAssumption  == Engine \in {"classic", "pi"}

VARIABLES
    \* SQL: survives a reset
    effect,   \* turn_effects: "none", "started", or done with this result
    result,   \* the saved tool message, "none" without one
    made,     \* calls whose own row exists (helpers.spawn_call_id)
    card,     \* the confirm card of a call: approvals.status, "none" without one
    used,     \* cards whose tap was used (approvals.cused)
    \* outside
    acts,     \* requests that left, commands launched, rows made
    \* memory
    mode,     \* "calls" in the turn's loop, "close" in resumeClose, "gone", "over"
    tool,     \* runTool's code for the call, or the result it returned
    stop,     \* tc.abort is "hard"
    resets

vars == <<effect, result, made, card, used, acts, mode, tool, stop, resets>>
----------------------------------------------------------------------------
\* What a result says: "result" is the tool's own answer, "error" its error,
\* "nothing" that it did nothing yet (WAITING FOR CONFIRM, NOT DONE), "already"
\* that it had been done, "maybe" that it may or may not have gone through.
Text    == {"result", "error", "nothing", "already", "maybe", "stopped", "skipped"}
Running == {"run", "held", "cleared", "acting"}
Tool    == {"idle"} \cup Running \cup {"result", "error", "nothing", "already"}

Answered(c) == result[c] # "none" \/ effect[c] \in Text
\* The calls of an answer are taken in their order.
Current(c)  == ~Answered(c) /\ \A d \in Call : d < c => Answered(d)

Init ==
    /\ effect = [c \in Call |-> "none"]
    /\ result = [c \in Call |-> "none"]
    /\ made   = {}
    /\ card   = [c \in Call |-> "none"]
    /\ used   = {}
    /\ acts   = [c \in Call |-> 0]
    /\ mode   = "calls"
    /\ tool   = [c \in Call |-> "idle"]
    /\ stop   = FALSE
    /\ resets = 0
----------------------------------------------------------------------------
(* The turn's loop over the calls *)

\* Variant: the call is journaled when it is done, not before it runs.
JournalNothing(c) == UNCHANGED effect

\* Variant: the row's status is the one turn_runs uses.
JournalRunning(c) == effect' = [effect EXCEPT ![c] = "running"]

\* effectStart
Journal(c) == effect' = [effect EXCEPT ![c] = "started"]

\* runTool is called; the classic engine does not look at a Stop here.
Begin(c) ==
    /\ mode = "calls" /\ Current(c) /\ tool[c] = "idle"
    /\ ~(Engine = "pi" /\ stop)
    /\ Journal(c)
    /\ tool' = [tool EXCEPT ![c] = "run"]
    /\ UNCHANGED <<result, made, card, used, acts, mode, stop, resets>>

\* A message came (or, pi, a Stop): the call is answered without running.
Skip(c) ==
    /\ mode = "calls" /\ Current(c) /\ tool[c] = "idle"
    /\ result' = [result EXCEPT ![c] = "skipped"]
    /\ UNCHANGED <<effect, made, card, used, acts, mode, tool, stop, resets>>

\* The tool's answer is recorded: the classic engine saves the message and closes
\* the journal row at once; pi closes the row, then saves the message (message_end).
RecordAs(c, text) ==
    /\ effect' = [effect EXCEPT ![c] = text]
    /\ IF Engine = "classic" \/ mode = "close"
       THEN result' = [result EXCEPT ![c] = text]
       ELSE UNCHANGED result

Record(c) ==
    /\ mode \in {"calls", "close"} /\ Current(c)
    /\ tool[c] \in Text
    /\ RecordAs(c, tool[c])
    /\ tool' = [tool EXCEPT ![c] = "idle"]
    /\ UNCHANGED <<made, card, used, acts, mode, stop, resets>>

SaveMessage(c) ==
    /\ mode = "calls" /\ effect[c] \in Text /\ result[c] = "none"
    /\ result' = [result EXCEPT ![c] = effect[c]]
    /\ UNCHANGED <<effect, made, card, used, acts, mode, tool, stop, resets>>

\* untilStopped: after a Stop the turn does not wait for the tool.  The loops put it
\* around the whole call, but pi not around a command; execComputerTool puts it
\* around a command that runs, for both engines and for resumeClose too.
LeavesTool(c) ==
    /\ stop
    /\ \/ mode = "calls" /\ ~(Engine = "pi" /\ Kind[c] = "exec")
       \/ Kind[c] = "exec" /\ tool[c] = "acting"

\* The turn goes on without the tool, which runs on.
LetGo(c) ==
    /\ mode \in {"calls", "close"} /\ Current(c) /\ tool[c] \in Running /\ LeavesTool(c)
    /\ RecordAs(c, "stopped")
    /\ UNCHANGED <<made, card, used, acts, mode, tool, stop, resets>>

\* Every call has its result: the next model call, or the end of the turn.
Done ==
    /\ mode \in {"calls", "close"} /\ \A c \in Call : result[c] # "none"
    /\ mode' = "over"
    /\ UNCHANGED <<effect, result, made, card, used, acts, tool, stop, resets>>
----------------------------------------------------------------------------
(* The tool itself, which a Stop does not end *)

\* It answers with an error before it does anything (arguments, permissions).
Refuse(c) ==
    /\ tool[c] = "run"
    /\ tool' = [tool EXCEPT ![c] = "error"]
    /\ UNCHANGED <<effect, result, made, card, used, acts, mode, stop, resets>>

\* confirmGate: the card is shown; with nobody watching the call ends at once,
\* else it is held for the tap.
AskConfirm(c) ==
    /\ tool[c] = "run" /\ Kind[c] = "send"
    /\ card' = [card EXCEPT ![c] = "pending"]
    /\ \E t \in {"held", "nothing"} : tool' = [tool EXCEPT ![c] = t]
    /\ UNCHANGED <<effect, result, made, used, acts, mode, stop, resets>>

\* Variant: any decision lets the held call go.
DecidedHere(c) == card[c] \in {"approved", "denied"} /\ c \notin used

\* confirmedHere: only Confirm on this card, not used before.
ConfirmedHere(c) == card[c] = "approved" /\ c \notin used

\* The held call sees the tap and uses it.
SeeTap(c) ==
    /\ tool[c] = "held" /\ ConfirmedHere(c)
    /\ used' = used \cup {c}
    /\ tool' = [tool EXCEPT ![c] = "cleared"]
    /\ UNCHANGED <<effect, result, made, card, acts, mode, stop, resets>>

\* It was cancelled, or the hold ended: after its last look at the card, or when
\* the Stop made it leave.
EndHold(c) ==
    /\ tool[c] = "held"
    /\ tool' = [tool EXCEPT ![c] = "nothing"]
    /\ UNCHANGED <<effect, result, made, card, used, acts, mode, stop, resets>>

\* The request leaves, the command starts, or the tool's own row is made.
ActNow(c) ==
    /\ tool[c] = "cleared" \/ (tool[c] = "run" /\ Kind[c] # "send")
    /\ IF c \in made
       THEN tool' = [tool EXCEPT ![c] = "already"] /\ UNCHANGED <<acts, made>>
       ELSE /\ tool' = [tool EXCEPT ![c] = "acting"]
            /\ acts' = [acts EXCEPT ![c] = @ + 1]
            /\ made' = IF Kind[c] = "once" THEN made \cup {c} ELSE made
    /\ UNCHANGED <<effect, result, card, used, mode, stop, resets>>

\* It returns, with an answer or an error.
Return(c) ==
    /\ tool[c] = "acting"
    /\ \E t \in {"result", "error"} : tool' = [tool EXCEPT ![c] = t]
    /\ UNCHANGED <<effect, result, made, card, used, acts, mode, stop, resets>>

\* The tool fails because an object it calls was reset, while the turn waits for
\* it: the loop parks the turn, resumeClose takes it for the tool's error.
CalleeReset(c) ==
    /\ tool[c] = "acting" /\ Current(c) /\ ~LeavesTool(c) /\ resets < MaxResets
    /\ resets' = resets + 1
    /\ \/ /\ mode = "calls"
          /\ mode' = "gone" /\ stop' = FALSE
          /\ tool' = [tool EXCEPT ![c] = "idle"]
       \/ /\ mode = "close"
          /\ tool' = [tool EXCEPT ![c] = "error"]
          /\ UNCHANGED <<mode, stop>>
    /\ UNCHANGED <<effect, result, made, card, used, acts>>
----------------------------------------------------------------------------
(* Reset and resumeClose *)

\* The object is reset: its code ends where it stands.
Reset ==
    /\ mode \in {"calls", "close"} /\ resets < MaxResets
    /\ resets' = resets + 1
    /\ mode'   = "gone"
    /\ stop'   = FALSE
    /\ tool'   = [c \in Call |-> "idle"]
    /\ UNCHANGED <<effect, result, made, card, used, acts>>

Resume ==
    /\ mode = "gone"
    /\ mode' = "close"
    /\ UNCHANGED <<effect, result, made, card, used, acts, tool, stop, resets>>

\* Variant: it waits for the journal rows of the calls before it.
OpenInJournal(c) == mode = "close" /\ result[c] = "none" /\ tool[c] = "idle"
                        /\ \A d \in Call : d < c => effect[d] \in Text

\* resumeClose takes the calls without a saved message in their order.
Open(c) == mode = "close" /\ result[c] = "none" /\ tool[c] = "idle"
               /\ \A d \in Call : d < c => result[d] # "none"

\* The journal has its result: it is saved.
CloseDone(c) ==
    /\ Open(c) /\ effect[c] \in Text
    /\ result' = [result EXCEPT ![c] = effect[c]]
    /\ UNCHANGED <<effect, made, card, used, acts, mode, tool, stop, resets>>

\* Variant: whatever has no result is run again.
RunsAgainAny(c) == TRUE

\* It never started, may run again, or its own row tells that nothing was made.
RunsAgain(c) ==
    \/ effect[c] = "none"
    \/ Kind[c] = "read"
    \/ Kind[c] = "once" /\ c \notin made

Rerun(c) ==
    /\ Open(c) /\ effect[c] \in {"none", "started"} /\ RunsAgain(c)
    /\ Journal(c)
    /\ tool' = [tool EXCEPT ![c] = "run"]
    /\ UNCHANGED <<result, made, card, used, acts, mode, stop, resets>>

\* Variant: a card that is no longer pending also counts as "nothing was done".
CloseTextAnyCard(c) == IF card[c] # "none" THEN {"nothing"} ELSE {"maybe"}

\* What the result of a call that may not run again says.  reattach finds a
\* launched command's output, or nothing.
CloseText(c) ==
    IF Kind[c] = "exec" THEN IF acts[c] > 0 THEN {"result", "maybe"} ELSE {"maybe"}
    ELSE IF Kind[c] = "once" THEN {"already"}
    ELSE IF card[c] = "pending" THEN {"nothing"} ELSE {"maybe"}

CloseStarted(c) ==
    /\ Open(c) /\ effect[c] = "started" /\ ~RunsAgain(c)
    /\ \E t \in CloseText(c) : RecordAs(c, t)
    /\ UNCHANGED <<made, card, used, acts, mode, tool, stop, resets>>
----------------------------------------------------------------------------
(* The person *)

\* decideConfirm, from the app or the texted page.
Decide(c) ==
    /\ card[c] = "pending"
    /\ \E d \in {"approved", "denied"} : card' = [card EXCEPT ![c] = d]
    /\ UNCHANGED <<effect, result, made, used, acts, mode, tool, stop, resets>>

\* hardStop
Stop ==
    /\ mode \in {"calls", "close"} /\ ~stop
    /\ stop' = TRUE
    /\ UNCHANGED <<effect, result, made, card, used, acts, mode, tool, resets>>

\* stopJournaled: the turn waits to resume, and ends.
StopGone ==
    /\ mode = "gone"
    /\ mode' = "over"
    /\ UNCHANGED <<effect, result, made, card, used, acts, tool, stop, resets>>
----------------------------------------------------------------------------
CallStep(c) ==
    \/ Begin(c) \/ Skip(c) \/ Record(c) \/ SaveMessage(c) \/ LetGo(c)
    \/ CloseDone(c) \/ Rerun(c) \/ CloseStarted(c)
ToolStep(c) ==
    \/ Refuse(c) \/ AskConfirm(c) \/ SeeTap(c) \/ EndHold(c) \/ ActNow(c)
    \/ Return(c)

Next ==
    \/ \E c \in Call : CallStep(c) \/ ToolStep(c) \/ CalleeReset(c) \/ Decide(c)
    \/ Done \/ Reset \/ Resume \/ Stop \/ StopGone

Spec == Init /\ [][Next]_vars

\* The event loop runs the turn and its tools, each tool call returns (its time
\* limit, or the hold's), and the alarm resumes the turn.
Fairness ==
    /\ \A c \in Call : WF_vars(CallStep(c)) /\ WF_vars(ToolStep(c))
    /\ WF_vars(Done) /\ WF_vars(Resume)

FairSpec == Spec /\ Fairness
----------------------------------------------------------------------------
(* Properties *)

TypeOK ==
    /\ effect \in [Call -> {"none", "started"} \cup Text]
    /\ result \in [Call -> {"none"} \cup Text]
    /\ made \subseteq Call
    /\ card   \in [Call -> {"none", "pending", "approved", "denied"}]
    /\ used \subseteq Call
    /\ acts   \in [Call -> Nat]
    /\ mode   \in {"calls", "close", "gone", "over"}
    /\ tool   \in [Call -> Tool]
    /\ stop   \in BOOLEAN
    /\ resets \in Nat

\* A call that is not a read acts at most once, however often the turn is reset,
\* parked, stopped and resumed around it.
ActsOnce == \A c \in Call : Kind[c] # "read" => acts[c] <= 1

\* What a saved result says is true and stays true: an answer only when the call
\* acted; "nothing was done", or "skipped", only when it did not and never will.
ResultsTrue ==
    \A c \in Call :
        /\ result[c] \in {"result", "already"} => acts[c] > 0
        /\ result[c] \in {"nothing", "skipped"} => acts[c] = 0

\* A send acts only after the person's Confirm on its own card, and each tap is
\* used once.
ConfirmedFirst == \A c \in Call : Kind[c] = "send" /\ acts[c] > 0 =>
                                card[c] = "approved" /\ c \in used

\* The turn gets through its calls: each one ends with a saved result, or the turn
\* is stopped.
CallsEnd == mode = "calls" ~> mode = "over"

\* The results keep what ToolPromise promises to the model.
Told(c) ==
    IF result[c] = "none" THEN "open"
    ELSE IF result[c] \in {"result", "already"} THEN "done"
    ELSE IF result[c] \in {"nothing", "skipped"} THEN "nothing" ELSE "unknown"
P == INSTANCE ToolPromise WITH
        Again <- {c \in Call : Kind[c] = "read"},
        told  <- [c \in Call |-> Told(c)]
KeepsPromise == P!Spec
----------------------------------------------------------------------------
(* The inductive invariant behind them *)

\* The journal is ahead of the tool: a call without a row did nothing.
WriteAhead(c) ==
    /\ effect[c] = "none" => acts[c] = 0 /\ tool[c] = "idle"
    /\ mode = "calls" /\ effect[c] = "started" => tool[c] # "idle"

\* A tool that did not act yet did not act before.
NotYet(c) == Kind[c] # "read" /\ tool[c] \in {"run", "held", "cleared"} => acts[c] = 0

\* The rows that tell afterwards what a call did.
Traces(c) ==
    /\ Kind[c] = "once" /\ acts[c] > 0 => c \in made
    /\ c \in made => acts[c] > 0
    /\ card[c] # "none" => Kind[c] = "send"
    /\ tool[c] \in {"held", "cleared"} => card[c] # "none"
    /\ tool[c] = "cleared" => card[c] = "approved" /\ c \in used

\* What the tool returned, and what the journal and the messages say, is true.
Says(c) ==
    /\ tool[c] \in {"acting", "result", "already"} => acts[c] > 0
    /\ tool[c] = "nothing" => acts[c] = 0
    /\ effect[c] \in {"result", "already"} => acts[c] > 0
    /\ effect[c] = "nothing" => acts[c] = 0
    /\ effect[c] # "skipped"
    /\ effect[c] \in Text /\ tool[c] # "idle" => effect[c] = "stopped"
    /\ result[c] # "none" =>
          result[c] = effect[c] \/ (result[c] = "skipped" /\ effect[c] = "none")

CallInv(c) == WriteAhead(c) /\ NotYet(c) /\ Traces(c) /\ Says(c)
EffectInv  == TypeOK /\ ActsOnce /\ ConfirmedFirst /\ \A c \in Call : CallInv(c)
=============================================================================
