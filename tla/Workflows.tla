---------------------------- MODULE Workflows ----------------------------
(***************************************************************************)
(* A Resident's scheduled work: the `workflows` table (recurring jobs, with *)
(* or without a gate, follow-ups, and jobs that run on an app event), the  *)
(* `app_events` queue, the one alarm of the object, its D1 registry row    *)
(* and the watchdog that reads it.                                         *)
(*                                                                         *)
(* The alarm's handler runs alone: it resumes turns a reset cut off, then  *)
(* runs one waiting app event and one due workflow, waiting for each turn, *)
(* and arms the alarm again.  Resumed turns, the person's pauses and       *)
(* resumes, incoming events, the chain of arm() calls and resets of the    *)
(* object interleave with it; an action is the code between two awaits.    *)
(* A turn's inside is ResidentTurns; here it is live, then its card is     *)
(* closed and it saves its work, then its row goes and its run is booked;  *)
(* or it is parked, or cut off before (cut) or after (shut) its card closed.*)
(*                                                                         *)
(* Time is what it makes true: a next_run that has come (due), a lease     *)
(* that ran out (lapsed), a resume whose delay is over (due).  Which of    *)
(* several due workflows goes first, the hourly limits on events and the   *)
(* duplicate check of the webhook are left out.                            *)
(*                                                                         *)
(* A definition whose comment begins with "Variant:" is a plausible        *)
(* mistake next to the definition it varies; nothing else uses it.         *)
(***************************************************************************)
EXTENDS Naturals

CONSTANTS
    Timed,      \* workflows with a schedule: recurring jobs and follow-ups
    OnEvent,    \* workflows that run when an app event happens
    Event,      \* rows of app_events
    Turn,       \* journal rows (turn_runs) of workflow turns
    Limits,     \* values of max_runs (0: no limit)
    FailPause,  \* failed runs in a row that turn a workflow off
    EventTries, \* runs one event may start
    ResumeMax,  \* resumes of one turn
    MaxTicks,   \* bound: times a next_run comes
    MaxAsks,    \* bound: status changes from outside
    MaxFaults,  \* bound: resets, parked turns, thrown errors, skipped runs
    MaxUpsets   \* bound: all three together

Wf == Timed \cup OnEvent

ASSUME KindsAssumption ==
    /\ Timed \cap OnEvent = {}
    /\ "none" \notin Wf \cup Event \cup Turn
ASSUME NumbersAssumption ==
    /\ Limits \subseteq Nat
    /\ {FailPause, EventTries, ResumeMax} \subseteq Nat \ {0}
    /\ {MaxTicks, MaxAsks, MaxFaults, MaxUpsets} \subseteq Nat

VARIABLES
    job,        \* the workflows table
    row,        \* the app_events table
    turn,       \* the journal's rows of workflow turns
    hand,       \* the alarm's handler: where it is, and the run it is on
    up,         \* the object is in memory
    alarm,      \* an alarm is stored
    reg,        \* the registry row in D1 names a next run
    armq,       \* a call of arm() waits in the chain
    arming,     \* the armNow in progress: what it read ("on": something to wake for)
    ask,        \* a status change of an event workflow that waits for Composio
    wish,       \* history: the last status a person asked for
    owed,       \* history: gates whose news no finished run was given yet
    done,       \* history: how many runs of each event came to their end (their card closed)
    forgot,     \* history: how many of those a reset hit before they were booked
    stranded,   \* history: work was left with neither alarm nor registry row, by a
                \* reset or by an armNow that had read that there was none
    ticks, asks, faults

sched == <<job, row, turn, hand>>
wakes == <<up, alarm, reg, armq, arming, stranded>>
person == <<ask, wish, ticks, asks>>
ends == <<owed, done, forgot>>
vars == <<job, row, turn, hand, up, alarm, reg, armq, arming, ask, wish,
          owed, done, forgot, stranded, ticks, asks, faults>>

NoOne == "none"
Kinds == {"job", "gated", "followup"}
Jobs == [kind : Kinds, max : Nat,
         st : {"absent", "active", "paused", "complete", "failed"},
         due : BOOLEAN,                         \* next_run has come
         lease : {"free", "held", "lapsed"},    \* lease_until: 0, ahead, past
         count : Nat, fails : Nat,
         pend : BOOLEAN]                        \* gate_pending is set
Events == [st : {"none", "checked", "waiting", "started", "deleted"},
           of : OnEvent \cup {NoOne}, tries : Nat]
Runs == [of : Wf \cup {NoOne}, event : Event \cup {NoOne},
         last : BOOLEAN,                        \* wfRun.next is null
         fails : Nat,                           \* wfRun.fails0
         told : BOOLEAN]                        \* its message carries gate news
Turns == [st : {"free", "live", "closed", "parked", "due", "cut", "shut"}, run : Runs, resumes : Nat]
Hands == [pc : {"idle", "woke", "events", "evlimits", "evaccess", "timed",
                "access", "gate", "limits", "run", "arm"},
          run : Runs, turn : Turn \cup {NoOne}]

NoRun == [of |-> NoOne, event |-> NoOne, last |-> FALSE, fails |-> 0, told |-> FALSE]
NoTurn == [st |-> "free", run |-> NoRun, resumes |-> 0]
Idle == [pc |-> "idle", run |-> NoRun, turn |-> NoOne]
At(pc) == [Idle EXCEPT !.pc = pc]

Active(w) == job[w].st = "active"
IsLast(j) == j.max > 0 /\ j.count + 1 >= j.max
Journaled(w) == \E t \in Turn : turn[t].st # "free" /\ turn[t].run.of = w
Live(w) == \E t \in Turn : turn[t].st \in {"live", "closed"} /\ turn[t].run.of = w
Queued(e) == row[e].st \in {"waiting", "started"}
Closing(t, e) == turn[t].st = "closed" /\ turn[t].run.event = e     \* its run of e is not booked yet
NoAsk == [of |-> NoOne, st |-> "none"]
Statuses == {"active", "paused", "complete"}

TypeOK ==
    /\ job \in [Wf -> Jobs]
    /\ row \in [Event -> Events]
    /\ turn \in [Turn -> Turns]
    /\ hand \in Hands
    /\ up \in BOOLEAN /\ alarm \in BOOLEAN /\ reg \in BOOLEAN
    /\ armq \in BOOLEAN /\ arming \in {"idle", "on", "off"}
    /\ ask \in {NoAsk} \cup [of : OnEvent, st : Statuses]
    /\ wish \in [Wf -> Statuses]
    /\ owed \in [Wf -> BOOLEAN]
    /\ done \in [Event -> Nat] /\ forgot \in [Event -> Nat]
    /\ stranded \in BOOLEAN
    /\ ticks \in Nat /\ asks \in Nat /\ faults \in Nat

NewJob == [kind |-> "job", max |-> 0, st |-> "absent", due |-> FALSE, lease |-> "free", count |-> 0,
           fails |-> 0, pend |-> FALSE]

Init ==
    /\ job = [w \in Wf |-> NewJob]
    /\ row = [e \in Event |-> [st |-> "none", of |-> NoOne, tries |-> 0]]
    /\ turn = [t \in Turn |-> NoTurn]
    /\ hand = Idle
    /\ up = TRUE /\ alarm = FALSE /\ reg = FALSE /\ armq = FALSE /\ arming = "idle"
    /\ ask = NoAsk
    /\ wish = [w \in Wf |-> "active"]
    /\ owed = [w \in Wf |-> FALSE]
    /\ done = [e \in Event |-> 0] /\ forgot = done
    /\ stranded = FALSE
    /\ ticks = 0 /\ asks = 0 /\ faults = 0

Budget == ticks + asks + faults < MaxUpsets
Fault == faults < MaxFaults /\ Budget /\ faults' = faults + 1
NoFault == faults' = faults

(***************************************************************************)
(* The alarm, its arm() chain and the registry.                            *)
(***************************************************************************)

\* Variant: only workflows whose time has already come are counted.
NeedDueOnly ==
    \/ \E w \in Timed : Active(w) /\ job[w].due
    \/ \E e \in Event : Queued(e) /\ Active(row[e].of)
    \/ \E t \in Turn : turn[t].st # "free"

\* What armNow computes over the tables: is there anything to wake for?  (A
\* next_run, a waiting event of an active workflow, a journaled turn.)
Need ==
    \/ \E w \in Timed : Active(w)
    \/ \E e \in Event : Queued(e) /\ Active(row[e].of)
    \/ \E t \in Turn : turn[t].st # "free"

\* armNow, up to its first await: the tables are read.
ArmRead ==
    /\ up /\ armq /\ arming = "idle"
    /\ arming' = IF Need THEN "on" ELSE "off"
    /\ armq' = FALSE
    /\ UNCHANGED <<sched, person, up, alarm, reg, ends, stranded, faults>>

\* ... and after it: the registry row (a failed D1 write is only logged), then
\* the alarm is set or deleted by what was read.
ArmSet ==
    /\ up /\ arming # "idle"
    /\ \/ reg' = (arming = "on") /\ NoFault
       \/ reg' = reg /\ Fault
    /\ alarm' = (arming = "on")
    /\ arming' = "idle"
    /\ stranded' = (arming = "off" /\ Need /\ ~armq)
    /\ UNCHANGED <<sched, person, up, armq, ends>>

\* The platform's cron: an overdue registry row gets ensure(), which arms.
Watchdog ==
    /\ up /\ reg /\ ~alarm /\ ~armq /\ arming = "idle"
    /\ armq' = TRUE
    /\ UNCHANGED <<sched, person, up, alarm, reg, arming, ends, stranded, faults>>

\* A reset of the object (a deploy, an eviction): memory and whatever was
\* waiting in an await is gone, tables, alarm and registry stay.
Reset ==
    /\ up /\ Fault
    /\ up' = FALSE
    /\ hand' = Idle
    /\ armq' = FALSE /\ arming' = "idle"
    /\ ask' = NoAsk
    /\ turn' = [t \in Turn |-> IF turn[t].st = "live" THEN [turn[t] EXCEPT !.st = "cut"]
                              ELSE IF turn[t].st = "closed" THEN [turn[t] EXCEPT !.st = "shut"]
                              ELSE turn[t]]
    /\ forgot' = [e \in Event |-> IF \E t \in Turn : Closing(t, e) THEN forgot[e] + 1 ELSE forgot[e]]
    /\ row' = [e \in Event |-> IF row[e].st = "checked" THEN [row[e] EXCEPT !.st = "none"] ELSE row[e]]
    /\ stranded' = (stranded \/ (Need /\ ~alarm /\ ~reg))
    /\ UNCHANGED <<job, alarm, reg, wish, owed, done, ticks, asks>>

\* The constructor, recoverTurns: the row of a turn whose card is closed goes,
\* and nobody books its run; so does that of one resumed too often, or in a crash
\* loop, which is given up.  Their workflows' leases stay.  The other journaled
\* turns wait for their resume, and the alarm is set for them.
RecoverTurns ==
    /\ ~up
    /\ up' = TRUE
    /\ \E quit \in SUBSET {t \in Turn : turn[t].st = "shut" \/ turn[t].resumes > 0} :
         /\ \A t \in Turn : turn[t].st = "shut" \/ turn[t].resumes >= ResumeMax => t \in quit
         /\ turn' = [t \in Turn |-> IF t \in quit THEN NoTurn
                                    ELSE IF turn[t].st = "free" THEN turn[t]
                                    ELSE [turn[t] EXCEPT !.st = "parked"]]
    /\ alarm' = (alarm \/ \E t \in Turn : turn'[t].st # "free")
    /\ UNCHANGED <<job, row, hand, reg, armq, arming, stranded, person, ends, faults>>

(***************************************************************************)
(* Time.                                                                   *)
(***************************************************************************)

NextRunComes(w) ==
    /\ ticks < MaxTicks /\ Budget /\ job[w].st # "absent" /\ ~job[w].due
    /\ job' = [job EXCEPT ![w].due = TRUE]
    /\ ticks' = ticks + 1
    /\ UNCHANGED <<row, turn, hand, wakes, ask, wish, asks, ends, faults>>

\* The lease of a turn is renewed at every beat until it ends (journalBeat).
LeaseLapses(w) ==
    /\ job[w].lease = "held" /\ ~(up /\ Live(w))
    /\ job' = [job EXCEPT ![w].lease = "lapsed"]
    /\ UNCHANGED <<row, turn, hand, wakes, person, ends, faults>>

ResumeComes(t) ==
    /\ turn[t].st = "parked"
    /\ turn' = [turn EXCEPT ![t].st = "due"]
    /\ UNCHANGED <<job, row, hand, wakes, person, ends, faults>>

(***************************************************************************)
(* The bookkeeping after a run.                                            *)
(***************************************************************************)

\* Variant: the run's end decides the status, whatever it is by then.
FinishedStatus0(j, run, how) ==
    [j EXCEPT !.count = IF how = "skipped" THEN @ ELSE @ + 1, !.due = run.last,
              !.lease = "free", !.pend = @ /\ how = "skipped",
              !.st = IF run.last /\ how # "skipped" THEN "complete" ELSE "active"]

\* Variant: a good run takes one failure off.
FinishedForgives(j, run, how) ==
    [j EXCEPT !.count = IF how = "skipped" THEN @ ELSE @ + 1, !.due = run.last,
              !.lease = "free", !.pend = @ /\ how = "skipped",
              !.fails = IF how = "err" THEN run.fails + 1 ELSE run.fails - 1]

\* workflowFinish: how is "ok", "err" or "skipped".
Finished(j, run, how) ==
    LET fails == IF how = "err" THEN run.fails + 1 ELSE 0
    IN  [j EXCEPT !.count = IF how = "skipped" THEN @ ELSE @ + 1,
                  !.due = run.last,     \* next_run = next, or the old one
                  !.lease = "free",
                  !.fails = fails,
                  !.pend = @ /\ how = "skipped",
                  !.st = IF @ # "active" THEN @
                         ELSE IF run.last /\ how # "skipped" THEN "complete"
                         ELSE IF fails >= FailPause THEN "failed" ELSE @]

\* eventFinish: the same for a run on an app event.
EventFinished(j, how) ==
    LET fails == IF how = "err" THEN j.fails + 1 ELSE 0
    IN  [j EXCEPT !.count = IF how = "skipped" THEN @ ELSE @ + 1,
                  !.lease = "free",
                  !.fails = fails,
                  !.st = IF @ # "active" THEN @
                         ELSE IF fails >= FailPause THEN "failed"
                         ELSE IF how = "ok" /\ IsLast(j) THEN "complete" ELSE @]

Deleted(r) == [r EXCEPT !.st = "deleted"]

\* Variant: the run's own row is deleted only with the workflow's other rows.
RowsAfterKept(run, how) ==
    [e \in Event |-> IF EventFinished(job[run.of], how).st # job[run.of].st
                        /\ Queued(e) /\ row[e].of = run.of
                     THEN Deleted(row[e]) ELSE row[e]]

\* Which rows eventFinish deletes: the run's own, and every other of a
\* workflow whose status it changes (eventStatus).
RowsAfter(run, how) ==
    LET w == run.of
        changed == EventFinished(job[w], how).st # job[w].st
    IN  [e \in Event |-> IF e = run.event \/ (changed /\ Queued(e) /\ row[e].of = w)
                         THEN Deleted(row[e]) ELSE row[e]]

\* The end of a run, whichever kind it is.
Finish(run, how) ==
    LET w == run.of
    IN  IF run.event # NoOne
        THEN /\ job' = [job EXCEPT ![w] = EventFinished(@, how)]
             /\ row' = RowsAfter(run, how)
             /\ owed' = owed
        ELSE /\ job' = [job EXCEPT ![w] = Finished(@, run, how)]
             /\ row' = row
             /\ owed' = [owed EXCEPT ![w] = @ /\ (how = "skipped" \/ ~run.told)]

(***************************************************************************)
(* The alarm's handler.                                                    *)
(***************************************************************************)

Fire ==
    /\ up /\ alarm /\ hand.pc = "idle"
    /\ alarm' = FALSE
    /\ hand' = At("woke")
    /\ UNCHANGED <<job, row, turn, up, reg, armq, arming, stranded, person, ends, faults>>

\* armBackstop, then resumeDue: resumes whose time has come start (or are
\* abandoned after ResumeMax); the handler does not wait for them.
Resumes(t) == turn[t].st = "due" /\ turn[t].resumes < ResumeMax

Woke ==
    /\ up /\ hand.pc = "woke"
    /\ alarm' = TRUE
    /\ turn' = [t \in Turn |-> IF turn[t].st # "due" THEN turn[t]
                               ELSE IF Resumes(t) THEN [turn[t] EXCEPT !.st = "live", !.resumes = @ + 1]
                               ELSE NoTurn]
    /\ job' = [w \in Wf |-> IF job[w].lease # "free" /\ \E t \in Turn : Resumes(t) /\ turn[t].run.of = w
                            THEN [job[w] EXCEPT !.lease = "held"] ELSE job[w]]
    /\ hand' = At("events")
    /\ UNCHANGED <<row, up, reg, armq, arming, stranded, person, ends, faults>>

\* Variant: a turn that waits for its resume does not count.
FreeUnlessLive(w) == Active(w) /\ job[w].lease # "held" /\ ~Live(w)

\* A workflow no run of which is leased or journaled.
Free(w) == Active(w) /\ job[w].lease # "held" /\ ~Journaled(w)

\* appEventsDue: events of workflows that are not active are dropped, a run
\* that was cut off too often too; then the first free event is taken, one
\* that already started before the waiting ones.
Dropped == {e \in Event : Queued(e) /\ ~Active(row[e].of)}
Spent == {e \in Event : row[e].st = "started" /\ Free(row[e].of) /\ row[e].tries >= EventTries}
Ready == {e \in Event : Queued(e) /\ Free(row[e].of)} \ Spent

Purged == [e \in Event |-> IF e \in Dropped \cup Spent THEN Deleted(row[e]) ELSE row[e]]

AppEventsDue ==
    /\ up /\ hand.pc = "events"
    /\ \/ /\ Ready = {}
          /\ row' = Purged
          /\ hand' = At("timed")
       \/ \E e \in Ready :
            /\ row[e].st = "started" \/ \A x \in Ready : row[x].st # "started"
            /\ row' = [Purged EXCEPT ![e].st = "started", ![e].tries = @ + 1]
            /\ hand' = [At("evlimits") EXCEPT !.run = [NoRun EXCEPT !.of = row[e].of, !.event = e]]
    /\ UNCHANGED <<job, turn, wakes, person, ends, faults>>

\* runEventWorkflow, after the limits are read: the lease.
EventLease ==
    /\ up /\ hand.pc = "evlimits"
    /\ job' = [job EXCEPT ![hand.run.of].lease = "held"]
    /\ hand' = [hand EXCEPT !.pc = "evaccess"]
    /\ UNCHANGED <<row, turn, wakes, person, ends, faults>>

\* runTurn: the turn is journaled before anything runs, and the alarm covers it.
NewTurn == CHOOSE t \in Turn : turn[t].st = "free"

StartTurn ==
    LET t == NewTurn
    IN /\ \E u \in Turn : turn[u].st = "free"
       /\ turn' = [turn EXCEPT ![t] = [st |-> "live", run |-> hand.run, resumes |-> 0]]
       /\ hand' = [hand EXCEPT !.pc = "run", !.turn = t]
       /\ alarm' = TRUE

\* ... and the account: the turn starts, or the run is skipped.
EventRun ==
    /\ up /\ hand.pc = "evaccess"
    /\ \/ /\ StartTurn /\ NoFault
          /\ UNCHANGED <<job, row, owed, armq>>
       \/ /\ Fault /\ Finish(hand.run, "skipped")
          /\ hand' = At("timed") /\ armq' = TRUE
          /\ UNCHANGED <<turn, alarm>>
    /\ UNCHANGED <<up, reg, arming, stranded, person, done, forgot>>

\* alarmInner's pick, and the first line of runWorkflow: the lease.
TimedDue ==
    /\ up /\ hand.pc = "timed"
    /\ \/ /\ \A w \in Timed : ~(job[w].due /\ Free(w))
          /\ hand' = At("arm") /\ armq' = TRUE /\ job' = job
       \/ \E w \in Timed :
            /\ job[w].due /\ Free(w)
            /\ job' = [job EXCEPT ![w].lease = "held"]
            /\ hand' = [At("access") EXCEPT !.run =
                          [NoRun EXCEPT !.of = w, !.last = IsLast(job[w]), !.fails = job[w].fails]]
            /\ armq' = armq
    /\ UNCHANGED <<row, turn, up, alarm, reg, arming, stranded, person, ends, faults>>

\* runWorkflow, after the account is read: skipped; or a follow-up whose task still
\* exists is handed to it; or the run goes on, with saved gate news or to the gate.
Skip ==
    /\ Fault /\ Finish(hand.run, "skipped")
    /\ hand' = At("arm") /\ armq' = TRUE

HandedOff(j) == [j EXCEPT !.count = @ + 1, !.lease = "free", !.fails = 0,
                          !.st = IF @ = "active" THEN "complete" ELSE @]

HandOff ==
    /\ job[hand.run.of].kind = "followup"
    /\ job' = [job EXCEPT ![hand.run.of] = HandedOff(@)]
    /\ hand' = At("arm") /\ armq' = TRUE
    /\ UNCHANGED <<row, owed>> /\ NoFault

\* Variant: the gate runs again though its news is still pending.
GoOnGatesAgain ==
    /\ hand' = [hand EXCEPT !.pc = IF job[hand.run.of].kind = "gated" THEN "gate" ELSE "limits"]
    /\ UNCHANGED <<job, row, owed, armq>> /\ NoFault

GoOn ==
    /\ hand' = IF job[hand.run.of].kind # "gated" THEN [hand EXCEPT !.pc = "limits"]
               ELSE IF job[hand.run.of].pend THEN [hand EXCEPT !.pc = "limits", !.run.told = TRUE]
               ELSE [hand EXCEPT !.pc = "gate"]
    /\ UNCHANGED <<job, row, owed, armq>> /\ NoFault

Access ==
    /\ up /\ hand.pc = "access"
    /\ Skip \/ HandOff \/ GoOn
    /\ UNCHANGED <<turn, up, alarm, reg, arming, stranded, person, done, forgot>>

\* The gate's command ended: quiet, with news that is saved until a run given
\* it finishes, or broken.
Quiet(j, run) ==
    [j EXCEPT !.count = @ + 1, !.due = run.last, !.lease = "free", !.fails = 0,
              !.st = IF @ = "active" /\ run.last THEN "complete" ELSE @]

Gate ==
    /\ up /\ hand.pc = "gate"
    /\ LET w == hand.run.of
       IN  \/ /\ job' = [job EXCEPT ![w] = Quiet(@, hand.run)]
              /\ hand' = At("arm") /\ armq' = TRUE /\ owed' = owed
           \/ /\ job' = [job EXCEPT ![w].pend = TRUE]
              /\ owed' = [owed EXCEPT ![w] = TRUE]
              /\ hand' = [hand EXCEPT !.pc = "limits", !.run.told = TRUE]
              /\ armq' = armq
           \/ /\ hand' = [hand EXCEPT !.pc = "limits"]
              /\ UNCHANGED <<job, owed, armq>>
    /\ UNCHANGED <<row, turn, up, alarm, reg, arming, stranded, person, done, forgot, faults>>

\* The limits are read, then the turn starts.
RunTurn ==
    /\ up /\ hand.pc = "limits"
    /\ StartTurn
    /\ UNCHANGED <<job, row, up, reg, armq, arming, stranded, person, ends, faults>>

\* The handler's own arm() ended.
HandlerEnds ==
    /\ up /\ hand.pc = "arm" /\ ~armq /\ arming = "idle"
    /\ hand' = Idle
    /\ UNCHANGED <<job, row, turn, wakes, person, ends, faults>>

(***************************************************************************)
(* A turn ends, in the handler that waits for it or by itself (resumed).   *)
(***************************************************************************)
WaitedFor(t) == hand.pc = "run" /\ hand.turn = t
AfterRun(run) == IF run.event # NoOne THEN At("timed") ELSE At("arm")
Ended(run) == IF run.event = NoOne THEN done ELSE [done EXCEPT ![run.event] = @ + 1]

\* commitCard: the card is closed, however the turn came out.  Awaits follow
\* (hand-off notes, the computer's save, the history row, askAfterTurn).
CardCloses(t) ==
    /\ up /\ turn[t].st = "live"
    /\ turn' = [turn EXCEPT ![t].st = "closed"]
    /\ done' = Ended(turn[t].run)
    /\ UNCHANGED <<job, row, hand, wakes, person, owed, forgot, faults>>

\* Then its journal row goes and its bookkeeping follows with no await between.
TurnEnds(t) ==
    /\ up /\ turn[t].st = "closed"
    /\ \E how \in {"ok", "err"} : Finish(turn[t].run, how)
    /\ turn' = [turn EXCEPT ![t] = NoTurn]
    /\ hand' = IF WaitedFor(t) THEN AfterRun(turn[t].run) ELSE hand
    /\ armq' = TRUE
    /\ UNCHANGED <<up, alarm, reg, arming, stranded, person, done, forgot, faults>>

\* runTurn throws: the turn failed outside its loop (its card is closed as failed
\* now), or what follows the card's close did.  A scheduled run's error goes on
\* through the handler, which ends there, and the lease stays; runEventWorkflow and
\* a resumed run take it for a failed run.
TurnThrows(t) ==
    /\ up /\ turn[t].st \in {"live", "closed"} /\ Fault
    /\ turn' = [turn EXCEPT ![t] = NoTurn]
    /\ done' = IF turn[t].st = "live" THEN Ended(turn[t].run) ELSE done
    /\ IF WaitedFor(t) /\ turn[t].run.event = NoOne
       THEN /\ hand' = Idle
            /\ UNCHANGED <<job, row, owed, armq>>
       ELSE /\ Finish(turn[t].run, "err")
            /\ hand' = IF WaitedFor(t) THEN At("timed") ELSE hand
            /\ armq' = TRUE
    /\ UNCHANGED <<up, alarm, reg, arming, stranded, person, forgot>>

\* A reset of the Ledger or the computer hits the turn: it is parked for a
\* resume.  A scheduled one throws through the handler; runEventWorkflow takes
\* the error for a failed run and does its bookkeeping now.
TurnParks(t) ==
    /\ up /\ turn[t].st = "live" /\ Fault
    /\ turn' = [turn EXCEPT ![t].st = "parked"]
    /\ alarm' = TRUE
    /\ IF WaitedFor(t) /\ turn[t].run.event # NoOne
       THEN /\ Finish(turn[t].run, "err")
            /\ hand' = At("timed") /\ armq' = TRUE
       ELSE /\ hand' = IF WaitedFor(t) THEN Idle ELSE hand
            /\ UNCHANGED <<job, row, owed, armq>>
    /\ UNCHANGED <<up, reg, arming, stranded, person, done, forgot>>

(***************************************************************************)
(* The person, the helper's tools and the app's webhook.                   *)
(***************************************************************************)
Outside == asks < MaxAsks /\ Budget /\ asks' = asks + 1

\* schedule_workflow, schedule_followup, createEventWorkflow.
AddWorkflow(w, kind, max) ==
    /\ up /\ job[w].st = "absent"
    /\ w \in OnEvent => kind = "job"
    /\ job' = [job EXCEPT ![w] = [NewJob EXCEPT !.kind = kind, !.st = "active",
                                    !.max = IF kind = "followup" THEN 1 ELSE max]]
    /\ armq' = (armq \/ w \in Timed)
    /\ UNCHANGED <<row, turn, hand, up, alarm, reg, arming, stranded, person, ends, faults>>

\* Variant: a status change does not arm.
StatusSetUnarmed(w, s) ==
    /\ job' = [job EXCEPT ![w].st = s, ![w].fails = 0,
                          ![w].due = @ /\ (s # "active" \/ w \in OnEvent)]
    /\ wish' = [wish EXCEPT ![w] = s]
    /\ armq' = armq

\* The UPDATE of setWorkflowStatus, and its arm().
StatusSet(w, s) ==
    /\ job' = [job EXCEPT ![w].st = s, ![w].fails = 0,
                          ![w].due = @ /\ (s # "active" \/ w \in OnEvent)]
    /\ wish' = [wish EXCEPT ![w] = s]
    /\ armq' = TRUE

SetWorkflowStatus(w, s) ==
    /\ up /\ job[w].st # "absent"
    /\ w \in Timed \/ job[w].st = s
    /\ Outside
    /\ StatusSet(w, s)
    /\ UNCHANGED <<row, turn, hand, up, alarm, reg, arming, ask, ticks, stranded, ends, faults>>

\* An event workflow's trigger is changed at Composio first: its waiting events
\* go at once unless it is resumed, the status follows the answer.
EventStatus(w, s) ==
    /\ up /\ ask = NoAsk /\ job[w].st \notin {"absent", s}
    /\ Outside
    /\ ask' = [of |-> w, st |-> s]
    /\ row' = [e \in Event |-> IF s # "active" /\ Queued(e) /\ row[e].of = w
                               THEN Deleted(row[e]) ELSE row[e]]
    /\ UNCHANGED <<job, turn, hand, wakes, wish, ticks, ends, faults>>

\* A resume that Composio refuses (always, once the trigger is deleted) changes nothing.
ComposioAnswers ==
    /\ up /\ ask # NoAsk
    /\ ask' = NoAsk
    /\ \/ /\ ask.st = "active"
          /\ UNCHANGED <<job, wish, armq>>
       \/ /\ ask.st = "active" => job[ask.of].st # "complete"
          /\ StatusSet(ask.of, ask.st)
    /\ UNCHANGED <<row, turn, hand, up, alarm, reg, arming, ticks, asks, stranded, ends, faults>>

\* appEvent: the webhook's event for an active workflow, before and after its await.
AppEvent(e, w) ==
    /\ up /\ row[e].st = "none" /\ Active(w)
    /\ row' = [row EXCEPT ![e].st = "checked", ![e].of = w]
    /\ UNCHANGED <<job, turn, hand, wakes, person, ends, faults>>

AppEventQueued(e) ==
    /\ up /\ row[e].st = "checked"
    /\ row' = [row EXCEPT ![e].st = "waiting"]
    /\ armq' = TRUE
    /\ UNCHANGED <<job, turn, hand, up, alarm, reg, arming, stranded, person, ends, faults>>

\* triggerGone and triggerDisabled: the trigger went away at Composio, or was
\* turned off there.
TriggerLost(w, gone) ==
    /\ up /\ job[w].st # "absent" /\ Outside
    /\ row' = [e \in Event |-> IF Queued(e) /\ row[e].of = w THEN Deleted(row[e]) ELSE row[e]]
    /\ job' = IF gone THEN [job EXCEPT ![w].st = "complete", ![w].lease = "free"]
              ELSE [job EXCEPT ![w].st = IF @ = "active" THEN "paused" ELSE @]
    /\ armq' = TRUE
    /\ UNCHANGED <<turn, hand, up, alarm, reg, arming, ask, wish, ticks, stranded, ends, faults>>

Handler ==
    \/ Fire \/ Woke \/ AppEventsDue \/ EventLease \/ EventRun
    \/ TimedDue \/ Access \/ Gate \/ RunTurn \/ HandlerEnds

Next ==
    \/ ArmRead \/ ArmSet \/ Watchdog \/ Reset \/ RecoverTurns
    \/ Handler
    \/ ComposioAnswers
    \/ \E t \in Turn : ResumeComes(t) \/ CardCloses(t) \/ TurnEnds(t) \/ TurnThrows(t) \/ TurnParks(t)
    \/ \E w \in Wf : LeaseLapses(w)
    \/ \E w \in Wf, kind \in Kinds, max \in Limits : AddWorkflow(w, kind, max)
    \/ \E w \in Timed : NextRunComes(w)
    \/ \E w \in Wf, s \in Statuses : SetWorkflowStatus(w, s)
    \/ \E w \in OnEvent, s \in Statuses : EventStatus(w, s)
    \/ \E e \in Event : AppEventQueued(e) \/ \E w \in OnEvent : AppEvent(e, w)
    \/ \E w \in OnEvent, gone \in BOOLEAN : TriggerLost(w, gone)

\* What happens without a person, an app or a fault.
System ==
    \/ Handler \/ ArmRead \/ ArmSet \/ ComposioAnswers \/ Watchdog
    \/ (alarm \/ reg) /\ RecoverTurns

TurnsAndTime ==
    \/ \E t \in Turn : CardCloses(t) \/ TurnEnds(t) \/ ResumeComes(t)
    \/ \E w \in Wf : LeaseLapses(w)

\* The object's event loop never stops while it has something to do, a stored
\* alarm fires and the cron runs the watchdog; turns end (they have step and time
\* limits) and time passes.  Nothing says that the person or an app comes back: an
\* object with neither alarm nor registry row may stay away.
Fairness ==
    /\ WF_vars(System)
    /\ WF_vars(TurnsAndTime)

Spec == Init /\ [][Next]_vars
FairSpec == Spec /\ Fairness

(***************************************************************************)
(* Properties.                                                             *)
(***************************************************************************)

\* One run of a workflow at a time: never a second turn of it in the journal,
\* and none while the handler is about to start one; over expired leases,
\* resets, parked turns and resumes (journaledWorkflows: "never started a second
\* time while that run can still resume", resume.js:226).
Picked == {"evlimits", "evaccess", "access", "gate", "limits"}
Starting(w) == hand.pc \in Picked /\ hand.run.of = w

RunAlone ==
    /\ \A t, u \in Turn :
         turn[t].st # "free" /\ turn[u].st # "free" /\ turn[t].run.of = turn[u].run.of => t = u
    /\ \A w \in Wf : Starting(w) => ~Journaled(w)

\* News a gate reported is kept until a run that was told of it has finished: a
\* crash, a reset, an abandoned or a skipped run does not lose it (the gate may
\* have recorded those items as seen and would answer "quiet").
NewsKept == \A w \in Wf : owed[w] => job[w].pend

\* A workflow its person paused or stopped, even in the middle of a run of it,
\* is not made active again by that run's end, however late it comes.
PauseStays == \A w \in Wf : wish[w] # "active" => job[w].st # "active"

\* An event is run again only when its run did not come to its end, or when a reset
\* came between that end (its card closed) and its bookkeeping (recoverTurns drops
\* the journal row of a closed card, resume.js:249; nothing else knows the run is
\* over): no other order of cut off, parked, resumed and failed runs, leases and
\* status changes repeats one.  And it starts EventTries runs at most.  The code
\* does not keep the stronger "each event once" (app-events.js:100):
\* MCWorkflows!EachEventOnce.
EventOnce ==
    \A e \in Event :
      /\ done[e] <= forgot[e] + 1
      /\ done[e] = forgot[e] + 1 =>
            /\ Queued(e) => \E t \in Turn : Closing(t, e)
            /\ \A t \in Turn : turn[t].st # "free" /\ turn[t].run.event = e => Closing(t, e)
      /\ done[e] <= row[e].tries /\ row[e].tries <= EventTries

\* While there is work, something stored or on its way comes back to it: an
\* alarm, the registry row the watchdog reads, an arm(), or a handler that just
\* woke.  Two things leave none (stranded): a reset between a change and its
\* arm(), and an armNow that read "nothing to wake for" and deletes the alarm of
\* a turn that was journaled while it waited for D1.
WorkWatched ==
    Need => alarm \/ reg \/ armq \/ arming = "on" \/ hand.pc = "woke" \/ stranded

\* An active workflow whose time has come is run, or skipped until its time comes
\* again, whatever resets, thrown errors and lapsed leases come between.
DueRuns ==
    \A w \in Timed : (Active(w) /\ job[w].due) ~> (~Active(w) \/ ~job[w].due \/ stranded)

(***************************************************************************)
(* What the invariants rest on: an inductive strengthening of them.        *)
(***************************************************************************)
Carries(run, e) == run.event = e /\ e # NoOne

\* The handler's run is one of a workflow that exists, of the kind its place says.
HandInv ==
    /\ hand.pc \in Picked => hand.run.of \in Wf
    /\ hand.pc \in {"evlimits", "evaccess"} => hand.run.event \in Event
    /\ hand.pc \in {"access", "gate", "limits"} => hand.run.event = NoOne
    /\ hand.pc = "gate" => job[hand.run.of].kind = "gated"
    /\ \A w \in Wf : hand.run.of = w => job[w].st # "absent"
    /\ \A t \in Turn : turn[t].st # "free" => turn[t].run.of \in Wf

\* Only a gate owes news, only an added workflow does anything, and a run that
\* was not told of news is a run of a workflow that owes none.
NewsInv ==
    /\ \A w \in Wf : job[w].st = "absent" => wish[w] = "active" /\ ~owed[w]
    /\ \A w \in Wf : owed[w] => job[w].kind = "gated"
    /\ \A t \in Turn : turn[t].st # "free" /\ turn[t].run.event = NoOne /\ ~turn[t].run.told
                         => ~owed[turn[t].run.of]
    /\ hand.pc \in {"gate", "limits"} /\ ~hand.run.told => ~owed[hand.run.of]

\* An event that a run carries was taken from the queue, for its own workflow.
RowsInv ==
    /\ \A e \in Event : row[e].st # "none" => row[e].of \in OnEvent /\ job[row[e].of].st # "absent"
    /\ \A e \in Event : row[e].st \in {"none", "checked", "waiting"} => row[e].tries = 0
    /\ \A t \in Turn, e \in Event : turn[t].st # "free" /\ Carries(turn[t].run, e)
         => row[e].st \in {"started", "deleted"} /\ turn[t].run.of = row[e].of
    /\ \A e \in Event : hand.pc \in Picked /\ Carries(hand.run, e)
         => row[e].st \in {"started", "deleted"} /\ hand.run.of = row[e].of

\* Until the card of its run closes, an event has more tries than ended runs and all
\* of these were lost; one more ended while the closed turn is not booked yet, and
\* after that the event is out of the queue.
CountsInv ==
    /\ ~up => \A t \in Turn : turn[t].st # "closed"
    /\ \A e \in Event : /\ forgot[e] <= done[e] /\ done[e] <= forgot[e] + 1
                         /\ done[e] <= row[e].tries /\ row[e].tries <= EventTries
    /\ \A t \in Turn, e \in Event : turn[t].st # "free" /\ Carries(turn[t].run, e)
         => IF turn[t].st = "closed" THEN done[e] = forgot[e] + 1
            ELSE done[e] = forgot[e] /\ (turn[t].st # "shut" => done[e] < row[e].tries)
    /\ \A e \in Event : hand.pc \in Picked /\ Carries(hand.run, e)
         => done[e] = forgot[e] /\ done[e] < row[e].tries
    /\ \A e \in Event : done[e] = forgot[e] + 1 /\ Queued(e) => \E t \in Turn : Closing(t, e)

WorkflowInv == HandInv /\ NewsInv /\ RowsInv /\ CountsInv
==========================================================================
