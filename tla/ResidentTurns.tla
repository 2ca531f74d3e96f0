--------------------------- MODULE ResidentTurns ---------------------------
(***************************************************************************)
(* The life of a chat turn in one Resident Durable Object: a card is       *)
(* opened for a message (steerOrOpen), the turns of a task run one after   *)
(* the other (runTurn's sessQ chain), messages that arrive while a turn    *)
(* works join its card as steers, every step is journaled in SQL           *)
(* (turn_runs), and a fresh object after a reset carries the journaled     *)
(* turns on (resume.js).  A person may press Stop at any time (stop.js).   *)
(*                                                                         *)
(* One action is one synchronous block of the code: everything between two *)
(* awaits.  A reset may fall between any two actions; it keeps the SQL     *)
(* variables and loses the others.                                         *)
(*                                                                         *)
(* A definition whose comment begins with "Variant:" is not the code: it   *)
(* is the next definition with one deliberate mistake, kept so that the    *)
(* properties can be seen to notice it.                                    *)
(*                                                                         *)
(* Abstracted: "complete" stands for complete and paused (commitCard), one *)
(* promise check and its one resend stand for every nudge of the loop that *)
(* asks for one more step, and files, texts, charges and labels are left   *)
(* out.  Helper and scheduled turns (other kinds), work notes deferred to  *)
(* a turn of their own (deferWork) and input chooser cards are not         *)
(* modelled here.                                                          *)
(***************************************************************************)
EXTENDS Naturals, FiniteSets

CONSTANTS
    Session,      \* the tasks of the channel
    Msg,          \* what persons and helpers send, each with its own cid
    MaxCards,     \* cards that are ever opened (bound)
    MaxInputs,    \* tracker.js MAX_INPUTS: messages one card takes
    MaxSteps,     \* stepAllowance: model steps of one turn
    MaxLate,      \* answers given after the loop ended (resident.js: 5)
    MaxCalls,     \* tool calls in one model answer (bound)
    ResumeMax,    \* resume.js RESUME_MAX
    MaxResets,    \* resets of the object (bound)
    MaxParks,     \* resets of an object this one calls (bound)
    Routing,      \* TRUE when steerMessage asks the routing model first
    Engine        \* "classic" (runTurnInner) or "pi" (runTurnPi)

Card   == 1 .. MaxCards
NoCard == 0

ASSUME BoundsAssumption ==
    /\ MaxCards \in Nat /\ MaxInputs \in Nat \ {0} /\ MaxSteps \in Nat
    /\ MaxLate \in Nat \ {0} /\ MaxCalls \in Nat \ {0} /\ ResumeMax \in Nat
    /\ MaxResets \in Nat /\ MaxParks \in Nat
ASSUME ModeAssumption ==
    /\ Routing \in BOOLEAN
    /\ Engine \in {"classic", "pi"}

VARIABLES
    \* SQL: survives a reset
    status,    \* cards.status; closed is set exactly with an ending status
    sess,      \* cards.session
    home,      \* the card a message was appended to (card_events), or NoCard
    read,      \* messages with consumed set
    saved,     \* messages whose text a resume rebuilds from (msgs, turn_runs.text)
    journal,   \* turn_runs.status, "none" without a row
    phase,     \* turn_runs.phase
    jstep,     \* turn_runs.step
    resumes,   \* turn_runs.resumes
    open,      \* calls of the last saved answer that have no saved result yet
    row,       \* the card's row in turns: how it ended, "none" without a row
    \* memory: lost by a reset
    pc,        \* where the turn's code is; "none" when no turn of the card lives
    before,    \* live turns of the task this one still waits for (sessQ)
    pend,      \* inputs: the card of a task that takes steers, its unread ones
    taken,     \* steers taken but not saved yet
    abort,     \* cards whose live turn was hard-stopped
    outcome,   \* how the turn ends, once it has committed
    lates,     \* answers given after the loop ended
    stopping,  \* tasks whose Stop waits on nativeCancel
    \* history, read by properties only
    stopReq,   \* cards a Stop reached while their turn lived, uncommitted
    dropped,   \* steers a Stop dropped in this object
    starts,    \* resumes that really started
    resets, parks

sqlVars   == <<status, sess, home, read, saved, journal, phase, jstep, resumes,
               open, row>>
memVars   == <<pc, before, pend, taken, abort, outcome, lates, stopping>>
histVars  == <<stopReq, dropped, starts, resets, parks>>
vars      == <<sqlVars, memVars, histVars>>
----------------------------------------------------------------------------
OpenStatus  == {"queued", "working", "resuming"}
EndStatus   == {"complete", "failed", "stopped", "interrupted"}
NoSession   == "no session"
NoPend      == [card |-> NoCard, unread |-> {}]
Pending     == [card : Card \cup {NoCard}, unread : SUBSET Msg]

\* Before the turn's reply closes the card, and after.
LoopPc    == {"start", "top", "steering", "model", "answered", "tools", "inTool",
              "lateSteering", "late", "report"}
EndPc     == {"committed", "closed", "wrote"}
ActivePc  == LoopPc \cup EndPc
Pc        == {"none", "waiting"} \cup ActivePc

Live(c)        == pc[c] # "none"
Active(c)      == pc[c] \in ActivePc
Committed(c)   == pc[c] \in EndPc
Uncommitted(c) == pc[c] \in {"waiting"} \cup LoopPc
CardsOf(s)     == {c \in Card : status[c] # "none" /\ sess[c] = s}
\* Variant: a new turn waits only for turns that run, not for those that wait.
LiveOfRunning(s) == {c \in CardsOf(s) : Active(c)}
LiveOf(s)      == {c \in CardsOf(s) : Live(c)}
InputsOf(c)    == {m \in Msg : home[m] = c}
Unread(c)      == {m \in InputsOf(c) : m \notin read}
HasSteers(c)   == pend[sess[c]].card = c /\ pend[sess[c]].unread # {}
NextStep(c)    == IF phase[c] = "tools" THEN jstep[c] + 1 ELSE jstep[c]
\* Variant: pi's beforeToolCall without its Stop check.
BlockedBySteers(c) == HasSteers(c)

\* A call of the answer is skipped: a steer came, or (pi) a Stop.
Blocked(c)     == HasSteers(c) \/ (Engine = "pi" /\ c \in abort)
\* Variant: the loop's head does not look at the Stop.
MayAlwaysCallModel(c) == TRUE
MayCallModel(c) == c \notin abort
Row(st)        == IF st = "complete" THEN "reply" ELSE st

\* commitTurn(tc, true): the card takes no more inputs.
CloseInputs(c) ==
    pend' = [pend EXCEPT ![sess[c]] = IF @.card = c THEN NoPend ELSE @]

\* The end of runTurn: the turn leaves active, its journal goes, and the next
\* turn of the task is released.
Leave(C) ==
    /\ pc'      = [c \in Card |-> IF c \in C THEN "none" ELSE pc[c]]
    /\ before'  = [c \in Card |-> IF c \in C THEN {} ELSE before[c] \ C]
    /\ abort'   = abort \ C
    /\ taken'   = [c \in Card |-> IF c \in C THEN {} ELSE taken[c]]
    /\ outcome' = [c \in Card |-> IF c \in C THEN "none" ELSE outcome[c]]
    /\ lates'   = [c \in Card |-> IF c \in C THEN 0 ELSE lates[c]]

\* Variant: the row is marked done instead of deleted.
DropJournalDone(C) ==
    /\ journal' = [c \in Card |-> IF c \in C THEN "done" ELSE journal[c]]
    /\ UNCHANGED <<phase, jstep, resumes>>

\* journalDone: the journal row is deleted.
DropJournal(C) ==
    /\ journal' = [c \in Card |-> IF c \in C THEN "none" ELSE journal[c]]
    /\ phase'   = [c \in Card |-> IF c \in C THEN "model" ELSE phase[c]]
    /\ jstep'   = [c \in Card |-> IF c \in C THEN 0 ELSE jstep[c]]
    /\ resumes' = [c \in Card |-> IF c \in C THEN 0 ELSE resumes[c]]

\* Variant: only cards that work are closed.
EndWorkingCards(C, how) ==
    /\ status' = [c \in Card |-> IF c \in C /\ status[c] = "working"
                                 THEN how ELSE status[c]]
    /\ row'    = [c \in Card |-> IF c \in C /\ row[c] = "none"
                                 THEN how ELSE row[c]]
\* Variant: the row in the history is forgotten.
EndCardsNoRow(C, how) ==
    /\ status' = [c \in Card |-> IF c \in C /\ status[c] \in OpenStatus
                                 THEN how ELSE status[c]]
    /\ UNCHANGED row

\* commitCard and the row a chat card keeps, for cards that end without a reply.
EndCards(C, how) ==
    /\ status' = [c \in Card |-> IF c \in C /\ status[c] \in OpenStatus
                                 THEN how ELSE status[c]]
    /\ row'    = [c \in Card |-> IF c \in C /\ row[c] = "none"
                                 THEN how ELSE row[c]]
----------------------------------------------------------------------------
Init ==
    /\ status  = [c \in Card |-> "none"]
    /\ sess    = [c \in Card |-> NoSession]
    /\ home    = [m \in Msg |-> NoCard]
    /\ read    = {} /\ saved = {}
    /\ journal = [c \in Card |-> "none"]
    /\ phase   = [c \in Card |-> "model"]
    /\ jstep   = [c \in Card |-> 0]
    /\ resumes = [c \in Card |-> 0]
    /\ open    = [c \in Card |-> 0]
    /\ row     = [c \in Card |-> "none"]
    /\ pc      = [c \in Card |-> "none"]
    /\ before  = [c \in Card |-> {}]
    /\ pend    = [s \in Session |-> NoPend]
    /\ taken   = [c \in Card |-> {}]
    /\ abort   = {}
    /\ outcome = [c \in Card |-> "none"]
    /\ lates   = [c \in Card |-> 0]
    /\ stopping = {}
    /\ stopReq = {} /\ dropped = {}
    /\ starts  = [c \in Card |-> 0]
    /\ resets = 0 /\ parks = 0
----------------------------------------------------------------------------
(* Messages *)

\* steerOrOpen: the task's card still takes steers, and has room.
Join(s, m) ==
    LET c == pend[s].card IN
    /\ home[m] = NoCard
    /\ c # NoCard /\ Cardinality(InputsOf(c)) < MaxInputs
    /\ home' = [home EXCEPT ![m] = c]
    /\ pend' = [pend EXCEPT ![s].unread = @ \cup {m}]
    /\ UNCHANGED <<status, sess, read, saved, journal, phase, jstep, resumes, open,
                   row, pc, before, taken, abort, outcome, lates, stopping, histVars>>

\* Variant: every new card takes over the task's messages.
TakerAlwaysNew(s, c) == [card |-> c, unread |-> {}]

\* The card that takes the task's messages from now on when c is opened.
Taker(s, c) == IF pend[s].card = NoCard THEN [card |-> c, unread |-> {}] ELSE pend[s]

\* steerOrOpen's "open", then runTurn up to its first await: the card and its
\* journal row are written, and the turn runs or waits behind the task's others.
\* A full card refuses the message, except one that must never be lost (a text),
\* which opens a card that takes no steers.
Open(s, m, c) ==
    /\ home[m] = NoCard
    /\ \/ pend[s].card = NoCard
       \/ Cardinality(InputsOf(pend[s].card)) >= MaxInputs
    /\ status[c] = "none" /\ \A d \in Card : d < c => status[d] # "none"
    /\ home'    = [home EXCEPT ![m] = c]
    /\ read'    = read \cup {m}
    /\ saved'   = saved \cup {m}
    /\ sess'    = [sess EXCEPT ![c] = s]
    /\ status'  = [status EXCEPT ![c] = IF LiveOf(s) = {} THEN "working" ELSE "queued"]
    /\ journal' = [journal EXCEPT ![c] = IF LiveOf(s) = {} THEN "running" ELSE "queued"]
    /\ pc'      = [pc EXCEPT ![c] = IF LiveOf(s) = {} THEN "start" ELSE "waiting"]
    /\ before'  = [before EXCEPT ![c] = LiveOf(s)]
    /\ pend'    = [pend EXCEPT ![s] = Taker(s, c)]
    /\ UNCHANGED <<phase, jstep, resumes, open, row, taken, abort, outcome, lates, stopping,
                   histVars>>
----------------------------------------------------------------------------
(* One turn *)

\* The turns before this one have ended: runTurn goes on after `await before`.
Start(c) ==
    /\ pc[c] = "waiting" /\ before[c] = {}
    /\ pc'      = [pc EXCEPT ![c] = "start"]
    /\ status'  = [status EXCEPT ![c] = IF @ = "queued" THEN "working" ELSE @]
    /\ journal' = [journal EXCEPT ![c] = IF @ = "queued" THEN "running" ELSE @]
    /\ UNCHANGED <<sess, home, read, saved, phase, jstep, resumes, open, row, before,
                   pend, taken, abort, outcome, lates, stopping, histVars>>

\* A resumed turn first closes each call the reset left open (resumeClose).
CloseOpenCall(c) ==
    /\ pc[c] = "start" /\ open[c] > 0
    /\ open' = [open EXCEPT ![c] = @ - 1]
    /\ UNCHANGED <<status, sess, home, read, saved, journal, phase, jstep, resumes,
                   row, memVars, histVars>>

\* Variant: the save always comes after an await.
WaitsAlways(took) == took # {}

\* steerMessage waits for the routing model before the steers are saved.
Waits(took) == Routing /\ took # {}

\* takeSteers and what follows it up to the next await: with routing the steers
\* are marked read and then wait for the routing model, else they are saved too.
TakeSteers(c, next, wait) ==
    LET took == IF pend[sess[c]].card = c THEN pend[sess[c]].unread ELSE {} IN
    /\ pend' = [pend EXCEPT ![sess[c]] =
                    IF @.card = c THEN [@ EXCEPT !.unread = {}] ELSE @]
    /\ read' = read \cup took
    /\ IF Waits(took)
       THEN /\ taken' = [taken EXCEPT ![c] = took]
            /\ pc'    = [pc EXCEPT ![c] = wait]
            /\ UNCHANGED saved
       ELSE /\ saved' = saved \cup took
            /\ pc'    = [pc EXCEPT ![c] = next]
            /\ UNCHANGED taken

\* One more answer after the loop, without tools, to what was added meanwhile.
AnswerLate(c) ==
    /\ TakeSteers(c, "late", "lateSteering")
    /\ lates' = [lates EXCEPT ![c] = @ + 1]

\* The head of the loop, when there is a step left: journalStep, takeSteers.
NextModelStep(c) ==
    /\ pc[c] \in {"start", "top"} /\ open[c] = 0
    /\ NextStep(c) < MaxSteps /\ MayCallModel(c)
    /\ jstep' = [jstep EXCEPT ![c] = NextStep(c)]
    /\ phase' = [phase EXCEPT ![c] = "model"]
    /\ TakeSteers(c, "model", "steering")
    /\ UNCHANGED <<status, sess, home, journal, resumes, open, row, before, abort,
                   outcome, lates, stopping, histVars>>

\* Out of steps: what was added meanwhile is answered without tools, else a
\* short report is asked for.
OutOfSteps(c) ==
    /\ pc[c] \in {"start", "top"} /\ open[c] = 0
    /\ NextStep(c) >= MaxSteps /\ c \notin abort
    /\ IF HasSteers(c)
       THEN AnswerLate(c)
       ELSE /\ pc' = [pc EXCEPT ![c] = "report"]
            /\ UNCHANGED <<pend, read, saved, taken, lates>>
    /\ UNCHANGED <<status, sess, home, journal, phase, jstep, resumes, open, row,
                   before, abort, outcome, stopping, histVars>>

\* The turn commits, whatever is still unread.
CommitAs(c, how) ==
    /\ pc'      = [pc EXCEPT ![c] = "committed"]
    /\ outcome' = [outcome EXCEPT ![c] = how]
    /\ taken'   = [taken EXCEPT ![c] = {}]
    /\ lates'   = [lates EXCEPT ![c] = 0]
    /\ CloseInputs(c)
    /\ UNCHANGED <<sess, home, read, journal, resumes, row, status, before, abort,
                   stopping, histVars>>

\* The loop's head finds the Stop: the reply is "Stopped.", no model call.
EndStopped(c) ==
    /\ pc[c] \in {"start", "top"} /\ open[c] = 0 /\ c \in abort
    /\ CommitAs(c, "stopped")
    /\ UNCHANGED <<saved, phase, jstep, open>>

\* The routing model answered: the steers' message is saved.  callModel makes no
\* call after a Stop.
SaveSteers(c) ==
    /\ pc[c] = "steering"
    /\ saved' = saved \cup taken[c]
    /\ IF c \in abort
       THEN CommitAs(c, "stopped")
       ELSE /\ pc'    = [pc EXCEPT ![c] = "model"]
            /\ taken' = [taken EXCEPT ![c] = {}]
            /\ UNCHANGED <<sess, home, read, journal, resumes, row, status, before,
                           abort, stopping, pend, outcome, lates, histVars>>
    /\ UNCHANGED <<phase, jstep, open>>

\* The model asked for tools.
AnswerWithCalls(c) ==
    /\ pc[c] = "model"
    /\ \E n \in 1 .. MaxCalls : open' = [open EXCEPT ![c] = n]
    /\ phase' = [phase EXCEPT ![c] = "tools"]
    /\ pc'    = [pc EXCEPT ![c] = "tools"]
    /\ UNCHANGED <<status, sess, home, read, saved, journal, jstep, resumes, row,
                   before, pend, taken, abort, outcome, lates, stopping, histVars>>

\* The model answered without calls.  Something was added meanwhile: one more
\* step reads it; else the answer goes through the promise check.
AnswerFinal(c) ==
    /\ pc[c] = "model"
    /\ phase' = [phase EXCEPT ![c] = "tools"]
    /\ pc'    = [pc EXCEPT ![c] = IF HasSteers(c) THEN "top" ELSE "answered"]
    /\ UNCHANGED <<status, sess, home, read, saved, journal, jstep, resumes, open, row,
                   before, pend, taken, abort, outcome, lates, stopping, histVars>>

\* The promise check is back: the reply closes the card, unless something was
\* added meanwhile (commitTurn refuses, and the turn answers it after the loop;
\* nothing to wait for if a Stop came with it: then the card is stopped).
CommitAnswer(c) ==
    /\ pc[c] = "answered"
    /\ IF ~HasSteers(c)
       THEN CommitAs(c, "complete") /\ UNCHANGED saved
       ELSE IF c \in abort
       THEN CommitAs(c, "stopped") /\ UNCHANGED saved
       ELSE /\ AnswerLate(c)
            /\ UNCHANGED <<sess, home, journal, resumes, row, status, before, abort,
                           stopping, outcome, histVars>>
    /\ UNCHANGED <<phase, jstep, open>>

\* The promise check found work the answer only promised: one more step.
AnswerUnfinished(c) ==
    /\ pc[c] = "answered" /\ c \notin abort /\ ~HasSteers(c)
    /\ NextStep(c) < MaxSteps
    /\ pc' = [pc EXCEPT ![c] = "top"]
    /\ UNCHANGED <<sqlVars, before, pend, taken, abort, outcome, lates, stopping, histVars>>

\* The next call of the answer.  A steer that came first makes every call left
\* skipped; the pi engine also blocks every call after a Stop.
SkipCalls(c) ==
    /\ pc[c] = "tools" /\ open[c] > 0
    /\ Blocked(c)
    /\ open' = [open EXCEPT ![c] = 0]
    /\ UNCHANGED <<status, sess, home, read, saved, journal, phase, jstep, resumes,
                   row, memVars, histVars>>

StartTool(c) ==
    /\ pc[c] = "tools" /\ open[c] > 0
    /\ ~Blocked(c)
    /\ pc' = [pc EXCEPT ![c] = "inTool"]
    /\ UNCHANGED <<sqlVars, before, pend, taken, abort, outcome, lates, stopping, histVars>>

ToolDone(c) ==
    /\ pc[c] = "inTool"
    /\ open' = [open EXCEPT ![c] = @ - 1]
    /\ pc'   = [pc EXCEPT ![c] = "tools"]
    /\ UNCHANGED <<status, sess, home, read, saved, journal, phase, jstep, resumes, row,
                   before, pend, taken, abort, outcome, lates, stopping, histVars>>

ToolsDone(c) ==
    /\ pc[c] = "tools" /\ open[c] = 0
    /\ pc' = [pc EXCEPT ![c] = "top"]
    /\ UNCHANGED <<sqlVars, before, pend, taken, abort, outcome, lates, stopping, histVars>>

\* The turn handed the work on or asked the person (classic engine): found at the
\* head of the loop, or done by a tool, whose answer's other calls are skipped.  The
\* card closes without another model call, whatever is unread.
HandOn(c) ==
    /\ Engine = "classic"
    /\ \/ pc[c] \in {"start", "top"} /\ open[c] = 0 /\ c \notin abort
       \/ pc[c] = "inTool"
    /\ open' = [open EXCEPT ![c] = 0]
    /\ \E how \in {"complete", "failed"} : CommitAs(c, how)
    /\ UNCHANGED <<saved, phase, jstep>>

\* A model call or a tool failed, or the Stop cut the model call off.
LoopError(c) ==
    /\ pc[c] \in {"steering", "model", "inTool"}
    /\ CommitAs(c, IF c \in abort THEN "stopped" ELSE "failed")
    /\ UNCHANGED <<saved, phase, jstep, open>>
----------------------------------------------------------------------------
(* After the loop *)

SaveLateSteers(c) ==
    /\ pc[c] = "lateSteering"
    /\ saved' = saved \cup taken[c]
    /\ taken' = [taken EXCEPT ![c] = {}]
    /\ pc'    = [pc EXCEPT ![c] = "late"]
    /\ UNCHANGED <<status, sess, home, read, journal, phase, jstep, resumes, open, row,
                   before, pend, abort, outcome, lates, stopping, histVars>>

\* The tools-off answer is back; it repeats while more was added meanwhile, up to
\* MaxLate times.
LateAnswer(c) ==
    /\ pc[c] = "late"
    /\ IF HasSteers(c) /\ c \notin abort /\ lates[c] < MaxLate
       THEN /\ AnswerLate(c)
            /\ UNCHANGED <<sess, home, journal, resumes, row, status, before, abort,
                           stopping, outcome, histVars>>
       ELSE CommitAs(c, "complete") /\ UNCHANGED saved
    /\ UNCHANGED <<phase, jstep, open>>

\* It failed, or a Stop cut it off: both end the card as failed.
LateError(c) ==
    /\ pc[c] \in {"late", "lateSteering"}
    /\ CommitAs(c, "failed")
    /\ UNCHANGED <<saved, phase, jstep, open>>

\* The step-limit report, or its plain replacement when the call failed.
Report(c) ==
    /\ pc[c] = "report"
    /\ CommitAs(c, "complete")
    /\ UNCHANGED <<saved, phase, jstep, open>>

\* commitCard: the card is closed before the labels, the hand-off notes and the
\* computer's save are waited for.
CloseCard(c) ==
    /\ pc[c] = "committed"
    /\ status' = [status EXCEPT ![c] = IF @ \in OpenStatus THEN outcome[c] ELSE @]
    /\ pc'     = [pc EXCEPT ![c] = "closed"]
    /\ UNCHANGED <<sess, home, read, saved, journal, phase, jstep, resumes, open, row,
                   before, pend, taken, abort, outcome, lates, stopping, histVars>>

\* INSERT INTO turns: the reply enters the task's history.
WriteRow(c) ==
    /\ pc[c] = "closed"
    /\ row' = [row EXCEPT ![c] = Row(outcome[c])]
    /\ pc'  = [pc EXCEPT ![c] = "wrote"]
    /\ UNCHANGED <<status, sess, home, read, saved, journal, phase, jstep, resumes, open,
                   before, pend, taken, abort, outcome, lates, stopping, histVars>>

\* runTurn's finally block.
Finish(c) ==
    /\ pc[c] = "wrote"
    /\ Leave({c}) /\ DropJournal({c})
    /\ UNCHANGED <<status, sess, home, read, saved, open, row, pend, stopping, histVars>>

\* An error outside the loop (no payment, a deleted task, the setup of the turn).
FailTurn(c) ==
    /\ pc[c] = "start"
    /\ EndCards({c}, "failed") /\ CloseInputs(c)
    /\ Leave({c}) /\ DropJournal({c})
    /\ UNCHANGED <<sess, home, read, saved, open, stopping, histVars>>

\* An object this one calls was reset under the turn: parkForResume.  The turn
\* leaves, its card still takes steers, the journal is due.
Park(c) ==
    /\ parks < MaxParks
    /\ pc[c] \in LoopPc \ {"top", "tools", "answered"}
    /\ parks'   = parks + 1
    /\ journal' = [journal EXCEPT ![c] = "resuming"]
    /\ status'  = [status EXCEPT ![c] = IF @ \in OpenStatus THEN "resuming" ELSE @]
    /\ Leave({c})
    /\ UNCHANGED <<sess, home, read, saved, phase, jstep, resumes, open, row, pend,
                   stopping, stopReq, dropped, starts, resets>>
----------------------------------------------------------------------------
(* Resets and resumes *)

Journaled(st)   == {c \in Card : journal[c] \in st}
\* Variant: turns that live in this object are not left out.
ResumableLiveToo(s) == {c \in CardsOf(s) : journal[c] \in {"resuming", "queued"}}
\* Variant: queued rows are left out.
ResumableNotQueued(s) == {c \in CardsOf(s) : ~Live(c) /\ journal[c] = "resuming"}

\* resumeDue's rows: resuming or queued, and no turn of the card in active or queuedTc.
Resumable(s)    == {c \in CardsOf(s) : ~Live(c) /\ journal[c] \in {"resuming", "queued"}}

\* Variant: one resume too many.
UsedUpLate(c)   == resumes[c] > ResumeMax

\* As many resumes as RESUME_MAX allows.
UsedUp(c)       == resumes[c] >= ResumeMax
First(C)        == CHOOSE c \in C : \A d \in C : c <= d

\* Variant: the card takes steers again, without the ones it has.
PendOfEmpty(c) == [card |-> c, unread |-> {}]

\* pendOf: the inputs of a card that were not read yet.
PendOf(c) == [card |-> c, unread |-> Unread(c)]

\* The turns recoverTurns gives up: resumed too often, or in a crash loop.
GiveUp(loops) == {c \in Journaled({"running", "resuming"}) :
                      status[c] \in OpenStatus /\ (UsedUp(c) \/ c \in loops)}

\* Variant: the status of the card is not looked at.
CarryOnClosed(loops) == Journaled({"running", "resuming"}) \ GiveUp(loops)

\* The turns the new object resumes, and the journal rows it keeps.
CarryOn(loops) == {c \in Journaled({"running", "resuming"}) :
                      status[c] \in OpenStatus} \ GiveUp(loops)
Kept(loops)   == CarryOn(loops) \cup
                 {c \in Journaled({"queued"}) : status[c] \in OpenStatus}

\* The object is reset and a fresh one is constructed: recoverTurns, then
\* recoverCards for every open card it does not carry on.  loops: the turns that
\* were resumed less than a minute ago by the same code.
Reset(loops) ==
    /\ resets < MaxResets
    /\ loops \subseteq {c \in Journaled({"running", "resuming"}) : resumes[c] > 0}
    /\ resets' = resets + 1
    /\ LET keep == Kept(loops)
           carry == CarryOn(loops)
           lost  == {c \in Card : status[c] \in OpenStatus} \ keep
       IN
       /\ status'  = [c \in Card |-> IF c \in lost THEN "interrupted"
                                     ELSE IF c \in carry THEN "resuming" ELSE status[c]]
       /\ row'     = [c \in Card |-> IF c \in lost /\ row[c] = "none"
                                     THEN "interrupted" ELSE row[c]]
       /\ journal' = [c \in Card |-> IF c \in carry THEN "resuming"
                                     ELSE IF c \in keep THEN journal[c] ELSE "none"]
       /\ phase'   = [c \in Card |-> IF c \in keep THEN phase[c] ELSE "model"]
       /\ jstep'   = [c \in Card |-> IF c \in keep THEN jstep[c] ELSE 0]
       /\ resumes' = [c \in Card |-> IF c \in keep THEN resumes[c] ELSE 0]
       /\ pend'    = [s \in Session |-> IF carry \cap CardsOf(s) = {} THEN NoPend
                                        ELSE PendOf(First(carry \cap CardsOf(s)))]
    /\ pc'       = [c \in Card |-> "none"]
    /\ before'   = [c \in Card |-> {}]
    /\ taken'    = [c \in Card |-> {}]
    /\ abort'    = {}
    /\ outcome'  = [c \in Card |-> "none"]
    /\ lates'    = [c \in Card |-> 0]
    /\ stopping' = {}
    /\ dropped'  = {}
    /\ UNCHANGED <<sess, home, read, saved, open, stopReq, starts, parks>>

\* resumeDue: the turns D of a task are due; each is resumed, started (it was
\* only queued) or given up, in their order.  Behind a live turn they wait.
\* A queued turn was made due together with the first turn the reset cut off.
Due(s, D) ==
    /\ D # {} /\ D \subseteq Resumable(s)
    /\ (\E q \in D : journal[q] = "queued")
         => \A c \in Resumable(s) : journal[c] = "resuming" => c \in D

ResumeDue(s, D) ==
    LET used   == {c \in D : journal[c] = "resuming" /\ UsedUp(c)}
        again  == {c \in D : journal[c] = "resuming"} \ used
        go     == D \ used
        ahead(c) == LiveOf(s) \cup {d \in go : d < c}
        free   == {c \in again : \/ pend[s].card = NoCard
                                 \/ pend[s].card \in used /\ pend[s].card < c}
    IN
    /\ Due(s, D)
    /\ status'  = [c \in Card |->
                     IF c \in used THEN "interrupted"
                     ELSE IF c \in again \/ (c \in go /\ ahead(c) = {}) THEN "working"
                     ELSE IF c \in go THEN "queued" ELSE status[c]]
    /\ row'     = [c \in Card |-> IF c \in used /\ row[c] = "none"
                                  THEN "interrupted" ELSE row[c]]
    /\ journal' = [c \in Card |->
                     IF c \in used THEN "none"
                     ELSE IF c \in again \/ (c \in go /\ ahead(c) = {}) THEN "running"
                     ELSE journal[c]]
    /\ phase'   = [c \in Card |-> IF c \in used THEN "model" ELSE phase[c]]
    /\ jstep'   = [c \in Card |-> IF c \in used THEN 0 ELSE jstep[c]]
    /\ resumes' = [c \in Card |-> IF c \in used THEN 0
                                  ELSE IF c \in again THEN resumes[c] + 1 ELSE resumes[c]]
    /\ starts'  = [c \in Card |-> IF c \in again THEN starts[c] + 1 ELSE starts[c]]
    /\ pc'      = [c \in Card |-> IF c \notin go THEN pc[c]
                                  ELSE IF ahead(c) = {} THEN "start" ELSE "waiting"]
    /\ before'  = [c \in Card |-> IF c \in go THEN ahead(c) ELSE before[c]]
    /\ pend'    = [pend EXCEPT ![s] = IF free # {} THEN PendOf(First(free))
                                      ELSE IF @.card \in used THEN NoPend ELSE @]
    /\ UNCHANGED <<sess, home, read, saved, open, taken, abort, outcome, lates, stopping,
                   stopReq, dropped, resets, parks>>

\* resumeDue's other half: a running row that has not beaten for BEAT_MS and whose
\* turn is not in active is made due.  A resumed turn that waits behind another
\* one is in queuedTc, not in active, and does not beat.
MissedBeat(c) ==
    /\ journal[c] = "running" /\ ~Active(c)
    /\ journal' = [journal EXCEPT ![c] = "resuming"]
    /\ UNCHANGED <<status, sess, home, read, saved, phase, jstep, resumes, open, row,
                   memVars, histVars>>
----------------------------------------------------------------------------
(* Stop *)

\* stopRuns before its first await: every live turn of the task is hard-stopped.
StopLive(s) ==
    LET hit == {c \in CardsOf(s) : Uncommitted(c)} IN
    /\ s \notin stopping
    /\ Resumable(s) \cup hit # {}
    /\ stopping' = stopping \cup {s}
    /\ abort'    = abort \cup hit
    /\ stopReq'  = stopReq \cup hit
    /\ pend'     = [pend EXCEPT ![s] = IF @.card \in hit THEN [@ EXCEPT !.unread = {}]
                                       ELSE @]
    /\ dropped'  = dropped \cup (IF pend[s].card \in hit THEN pend[s].unread ELSE {})
    /\ UNCHANGED <<sqlVars, pc, before, taken, outcome, lates, starts, resets, parks>>

\* stopJournaled, after nativeCancel: turns that wait to resume end stopped.
StopJournaled(s) ==
    /\ s \in stopping
    /\ stopping' = stopping \ {s}
    /\ EndCards(Resumable(s), "stopped") /\ DropJournal(Resumable(s))
    /\ pend' = [pend EXCEPT ![s] = IF @.card \in Resumable(s) THEN NoPend ELSE @]
    /\ UNCHANGED <<sess, home, read, saved, open, pc, before, taken, abort, outcome, lates,
                   histVars>>
----------------------------------------------------------------------------
TurnStep(c) ==
    \/ Start(c) \/ CloseOpenCall(c) \/ NextModelStep(c) \/ OutOfSteps(c)
    \/ EndStopped(c) \/ SaveSteers(c) \/ AnswerWithCalls(c) \/ AnswerFinal(c)
    \/ CommitAnswer(c) \/ AnswerUnfinished(c) \/ SkipCalls(c) \/ StartTool(c)
    \/ ToolDone(c) \/ ToolsDone(c) \/ HandOn(c) \/ LoopError(c) \/ SaveLateSteers(c)
    \/ LateAnswer(c) \/ LateError(c) \/ Report(c) \/ CloseCard(c) \/ WriteRow(c)
    \/ Finish(c) \/ FailTurn(c)

Next ==
    \/ \E s \in Session, m \in Msg : Join(s, m)
    \/ \E s \in Session, m \in Msg, c \in Card : Open(s, m, c)
    \/ \E c \in Card : TurnStep(c)
    \/ \E c \in Card : Park(c)
    \/ \E c \in Card : MissedBeat(c)
    \/ \E loops \in SUBSET Card : Reset(loops)
    \/ \E s \in Session, D \in SUBSET Card : ResumeDue(s, D)
    \/ \E s \in Session : StopLive(s)
    \/ \E s \in Session : StopJournaled(s)

Spec == Init /\ [][Next]_vars

\* The event loop runs every turn whose await is over, and an alarm is always
\* armed while a turn is journaled (armBeat, armBackstop, recoverTurns, armNow).
Fairness ==
    /\ \A c \in Card : WF_vars(TurnStep(c))
    /\ \A s \in Session : WF_vars(\E D \in SUBSET Card : ResumeDue(s, D))
    /\ \A s \in Session : WF_vars(StopJournaled(s))

FairSpec == Spec /\ Fairness
----------------------------------------------------------------------------
(* Properties *)

\* Every variable keeps its type.
TypeOK ==
    /\ status  \in [Card -> {"none"} \cup OpenStatus \cup EndStatus]
    /\ sess    \in [Card -> Session \cup {NoSession}]
    /\ home    \in [Msg -> Card \cup {NoCard}]
    /\ read \subseteq Msg /\ saved \subseteq Msg
    /\ journal \in [Card -> {"none", "queued", "running", "resuming"}]
    /\ phase   \in [Card -> {"model", "tools"}]
    /\ jstep   \in [Card -> Nat]
    /\ resumes \in [Card -> Nat]
    /\ open    \in [Card -> Nat]
    /\ row     \in [Card -> {"none", "reply"} \cup EndStatus]
    /\ pc      \in [Card -> Pc]
    /\ before  \in [Card -> SUBSET Card]
    /\ pend    \in [Session -> Pending]
    /\ taken   \in [Card -> SUBSET Msg]
    /\ abort \subseteq Card
    /\ outcome \in [Card -> {"none"} \cup EndStatus]
    /\ lates   \in [Card -> Nat]
    /\ stopping \subseteq Session
    /\ stopReq \subseteq Card /\ dropped \subseteq Msg
    /\ starts  \in [Card -> Nat]
    /\ resets \in Nat /\ parks \in Nat

\* Two turns of one task never run at the same time, whatever order messages,
\* ends, stops, parks and resumes come in (runTurn's sessQ chain).
OneTurnPerTask ==
    \A c, d \in Card : Active(c) /\ Active(d) /\ sess[c] = sess[d] => c = d

\* A card that is shown as open has a turn that lives in this object, or a journal
\* row from which a turn will be started: no task hangs on "working" forever.
NoLostTask ==
    \A c \in Card : status[c] \in OpenStatus /\ ~Live(c)
                      => journal[c] \in {"queued", "resuming"}

\* A turn that still works shows as working: no Stop, reset, give-up or missed
\* heartbeat closes the card of a turn that goes on.
LiveIsWorking ==
    \A c \in Card : pc[c] \in LoopPc => status[c] = "working"

\* A message marked as read is in what a resume rebuilds the turn from, or in the
\* hands of the turn that took it.
ReadIsSaved ==
    \A m \in read : m \in saved \/ m \in taken[home[m]]

\* When a turn that is carried on takes the messages of its task, those that were
\* unread at the reset are among what it will read, except those a Stop dropped.
ResumedKeepsSteers ==
    \A s \in Session :
        LET c == pend[s].card IN
        c # NoCard => Unread(c) = pend[s].unread \cup (dropped \cap Unread(c))

\* A turn really starts again at most RESUME_MAX times after a reset or a park, and
\* never does more model steps than its allowance: both counters survive resets.
ResumesBounded ==
    \A c \in Card : starts[c] <= ResumeMax /\ jstep[c] <= MaxSteps

\* The row in the task's history and the card tell the same ending.
RowMatchesCard ==
    \A c \in Card : row[c] # "none" =>
        row[c] = status[c] \/ (row[c] = "reply" /\ status[c] = "complete")

\* A closed card stays as it was closed, and no turn works for it again.
KeepsClosed ==
    \A c \in Card :
        status[c] \in EndStatus =>
            status'[c] = status[c] /\ (pc'[c] \in LoopPc => pc[c] \in LoopPc)
ClosedStaysClosed == [][KeepsClosed]_vars

\* A turn never leaves a message of its card behind: while it works, each one is
\* read, or waits in the list the turn reads from, or was dropped by a Stop.
SteersReach ==
    \A c \in Card : pc[c] \in LoopPc =>
        Unread(c) \subseteq dropped \cup
            (IF pend[sess[c]].card = c THEN pend[sess[c]].unread ELSE {})

\* The turns of a task run in the order of their cards.
InOrder ==
    [][\A c \in Card :
         ~Active(c) /\ Active(c)' =>
             \A d \in CardsOf(sess[c])' : d < c => ~(status[d] \in OpenStatus)']_vars

\* A card that ended leaves its ending in the task's history.
EndedHasRow ==
    \A c \in Card : status[c] \in EndStatus /\ ~Live(c) => row[c] # "none"

\* After a Stop the turn makes no further model call: not after the step it was in,
\* and not after a resume.
NoModelCallAfterStop == \A c \in stopReq : pc[c] # "model" => pc'[c] # "model"
StopIsFinal == [][NoModelCallAfterStop]_vars

\* After a Stop the turn starts no further tool.
NoToolStartAfterStop == \A c \in stopReq : pc[c] # "inTool" => pc'[c] # "inTool"
NoToolAfterStop == [][NoToolStartAfterStop]_vars

\* Every card that is opened ends, through resets, parks, stops and errors.
EveryCardEnds ==
    \A c \in Card : status[c] \in OpenStatus ~> status[c] \in EndStatus
----------------------------------------------------------------------------
(* The inductive invariant behind the safety properties *)

\* A tool runs only for a call that is still open, so the count of open calls
\* never goes below zero.
ToolOpen == \A c \in Card : pc[c] = "inTool" => open[c] > 0

\* A turn that lives works for an opened card of a task.
Opened == \A c \in Card : Live(c) => sess[c] \in Session /\ status[c] # "none"

\* A turn that has committed knows how it ends.
EndKnown == \A c \in Card : Committed(c) => outcome[c] # "none"

\* Of two live turns of a task one waits for the other, and a turn that runs waits
\* for none.
QueueInv ==
    /\ \A c, d \in Card : Live(c) /\ Live(d) /\ sess[c] = sess[d] /\ c # d
                            => c \in before[d] \/ d \in before[c]
    /\ \A c \in Card : Active(c) => before[c] = {}

\* Where a turn is in its code tells what its card shows.
StatusInv ==
    \A c \in Card :
        /\ pc[c] = "waiting" => status[c] \in {"queued", "working"}
        /\ pc[c] \in LoopPc \cup {"committed"} => status[c] = "working"
        /\ pc[c] \in {"closed", "wrote"} => status[c] = outcome[c]

\* A journal row that no live turn owns belongs to an open card.
JournalOpen ==
    \A c \in Card : ~Live(c) /\ journal[c] # "none" => status[c] \in OpenStatus

\* The journal counts every resume of an open card.
ResumesCounted ==
    \A c \in Card :
        /\ status[c] \in OpenStatus => starts[c] = resumes[c]
        /\ status[c] = "none" => starts[c] = 0 /\ resumes[c] = 0

\* Without resets, of the object or under a call of it: every journal row has its
\* live turn, and the Stop of a live turn is not forgotten.
StopInv ==
    /\ resets = 0 /\ parks = 0
    /\ \A c \in Card : ~Live(c) => journal[c] = "none"
    /\ \A c \in stopReq : status[c] # "none" /\ (Live(c) => c \in abort)

\* The card that takes a task's messages is an opened card of that task, and a
\* message is read only after it was put on an opened card.
TakerInv ==
    /\ \A s \in Session : pend[s].card # NoCard =>
           sess[pend[s].card] = s /\ status[pend[s].card] # "none"
    /\ \A m \in Msg : home[m] # NoCard => status[home[m]] # "none"
    /\ \A m \in read : home[m] # NoCard

\* Without resets of the object: an open card that does not take its task's
\* messages has none left to read, except what a Stop dropped.
SteerInv ==
    \A c \in Card :
        /\ status[c] # "none" => sess[c] \in Session
        /\ status[c] \in OpenStatus /\ ~Committed(c) /\ pend[sess[c]].card # c
              => Unread(c) \subseteq dropped

\* Without resets of the object: the row is there before the turn leaves.
RowInv == EndedHasRow /\ \A c \in Card : pc[c] = "wrote" => row[c] # "none"

\* Without resets, of the object or under a call of it: cards are opened in their
\* order, and a live turn still waits for every live turn of its task opened earlier.
OrderInv ==
    /\ \A c, d \in Card : status[d] # "none" /\ c < d => status[c] # "none"
    /\ \A c, d \in Card : Live(c) /\ Live(d) /\ sess[c] = sess[d] /\ d < c
                            => d \in before[c]

TypeInv == TypeOK /\ ToolOpen /\ Opened /\ EndKnown
LifeInv == StatusInv /\ JournalOpen /\ NoLostTask /\ RowMatchesCard
               /\ ResumesCounted /\ ResumesBounded
Inv     == TypeInv /\ QueueInv /\ LifeInv
=============================================================================
