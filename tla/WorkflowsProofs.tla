------------------------- MODULE WorkflowsProofs -------------------------
(***************************************************************************)
(* Proofs about Workflows, for any workflows, events, turns, limits and    *)
(* bounds: the inductive invariant Ind, and the safety properties it holds.*)
(***************************************************************************)
EXTENDS Workflows, TLAPS

Ind ==
    /\ TypeOK /\ WorkflowInv /\ RunAlone /\ NewsKept /\ PauseStays /\ WorkWatched

\* A turn between its start and the close of its card.
Pending == {"live", "parked", "due", "cut"}

\* "none" is no workflow, event or turn.
LEMMA NoOneApart == NoOne \notin Wf /\ NoOne \notin Event /\ NoOne \notin Turn
BY KindsAssumption DEF NoOne

\* The empty run, turn and handler have their types.
LEMMA NothingTyped ==
    /\ NoRun \in Runs /\ NoTurn \in Turns /\ NoTurn.st = "free"
    /\ NoRun.of = NoOne /\ NoRun.event = NoOne
    /\ \A pc : At(pc).pc = pc /\ At(pc).run = NoRun /\ At(pc).turn = NoOne
    /\ \A pc \in {"idle", "woke", "events", "timed", "arm"} : At(pc) \in Hands
    /\ Idle.pc = "idle" /\ Idle.run = NoRun /\ Idle.turn = NoOne /\ Idle \in Hands
    /\ NewJob \in Jobs /\ NewJob.st = "absent"
BY DEF NoRun, NoTurn, Runs, Turns, At, Idle, Hands, NewJob, Jobs, Kinds, NoOne

\* The invariant holds at the start.
LEMMA InitInd == Init => Ind
<1>1. SUFFICES ASSUME Init PROVE Ind
  OBVIOUS
<1>2. TypeOK
  BY <1>1, NothingTyped, NumbersAssumption DEF Init, TypeOK, Statuses, Events, Turns, Runs
<1>3. HandInv /\ NewsInv /\ RowsInv
  BY <1>1, NothingTyped, NoOneApart DEF Init, HandInv, NewsInv, RowsInv, Picked, Carries
<1>6. CountsInv
  <2>1. EventTries \in Nat
    BY NumbersAssumption
  <2>. QED
    BY <1>1, <2>1, NothingTyped DEF Init, CountsInv, Picked, Queued
<1>4. RunAlone /\ NewsKept /\ PauseStays
  BY <1>1, NothingTyped DEF Init, RunAlone, NewsKept, PauseStays, Starting, Picked, Journaled
<1>5. WorkWatched
  BY <1>1, NothingTyped DEF Init, WorkWatched, Need, Active, Queued, Wf
<1>. QED
  BY <1>2, <1>3, <1>4, <1>5, <1>6 DEF Ind, WorkflowInv

---------------------------------------------------------------------------
(* What one workflow, one event or one turn becomes                        *)

Fields == {"kind", "max", "st", "due", "lease", "count", "fails", "pend"}

\* The record of a workflow after a run or a gate: of the same kind, never new, never
\* active again.
LEMMA JobAfter ==
    ASSUME NEW j \in Jobs, NEW run \in Runs, NEW how \in {"ok", "err", "skipped"}
    PROVE  \A x \in {Finished(j, run, how), EventFinished(j, how), Quiet(j, run)} :
             /\ x \in Jobs /\ x.kind = j.kind
             /\ x.st = "absent" <=> j.st = "absent"
             /\ x.st = "active" => j.st = "active"
<1>1. ASSUME NEW x, x = Finished(j, run, how)
      PROVE  /\ x \in Jobs /\ x.kind = j.kind
             /\ x.st = "absent" <=> j.st = "absent"
             /\ x.st = "active" => j.st = "active"
  <2>1. x = [y \in Fields |-> x[y]]
    BY <1>1 DEF Finished, Jobs, Fields
  <2>2. /\ x.kind = j.kind /\ x.max = j.max /\ x.due = run.last /\ x.lease = "free"
        /\ x.fails \in {run.fails + 1, 0} /\ x.count \in {j.count, j.count + 1}
        /\ x.pend \in {j.pend, FALSE}
    BY <1>1 DEF Finished, Jobs, Runs
  <2>3. IF j.st # "active" THEN x.st = j.st ELSE x.st \in {"active", "complete", "failed"}
    BY <1>1 DEF Finished, Jobs
  <2>4. x.kind \in Kinds /\ x.max \in Nat /\ x.due \in BOOLEAN /\ x.pend \in BOOLEAN
    BY <2>2 DEF Jobs, Runs
  <2>7. x.fails \in Nat /\ x.count \in Nat
    BY <2>2 DEF Jobs, Runs
  <2>5. x.st \in {"absent", "active", "paused", "complete", "failed"}
    BY <2>3 DEF Jobs
  <2>6. x \in Jobs
    BY <2>1, <2>2, <2>4, <2>5, <2>7 DEF Jobs, Fields
  <2>. QED
    BY <2>2, <2>3, <2>6
<1>2. ASSUME NEW x, x = EventFinished(j, how)
      PROVE  /\ x \in Jobs /\ x.kind = j.kind
             /\ x.st = "absent" <=> j.st = "absent"
             /\ x.st = "active" => j.st = "active"
  <2>1. x = [y \in Fields |-> x[y]]
    BY <1>2 DEF EventFinished, Jobs, Fields
  <2>2. /\ x.kind = j.kind /\ x.max = j.max /\ x.due = j.due /\ x.lease = "free"
        /\ x.fails \in {j.fails + 1, 0} /\ x.count \in {j.count, j.count + 1}
        /\ x.pend = j.pend
    BY <1>2 DEF EventFinished, Jobs
  <2>3. IF j.st # "active" THEN x.st = j.st ELSE x.st \in {"active", "complete", "failed"}
    BY <1>2 DEF EventFinished, Jobs
  <2>. QED
    BY <2>1, <2>2, <2>3 DEF Jobs, Fields
<1>3. ASSUME NEW x, x = Quiet(j, run)
      PROVE  /\ x \in Jobs /\ x.kind = j.kind
             /\ x.st = "absent" <=> j.st = "absent"
             /\ x.st = "active" => j.st = "active"
  <2>1. x = [y \in Fields |-> x[y]]
    BY <1>3 DEF Quiet, Jobs, Fields
  <2>2. /\ x.kind = j.kind /\ x.max = j.max /\ x.due = run.last /\ x.lease = "free"
        /\ x.fails = 0 /\ x.count = j.count + 1 /\ x.pend = j.pend
    BY <1>3 DEF Quiet, Jobs
  <2>3. IF j.st # "active" THEN x.st = j.st ELSE x.st \in {"active", "complete"}
    BY <1>3 DEF Quiet, Jobs
  <2>. QED
    BY <2>1, <2>2, <2>3 DEF Jobs, Runs, Fields
<1>. QED
  BY <1>1, <1>2, <1>3

\* Saved gate news survives the end of an event run, a quiet gate and a skipped run.
LEMMA PendAfter ==
    ASSUME NEW j \in Jobs, NEW run \in Runs, NEW how \in {"ok", "err", "skipped"}
    PROVE  /\ EventFinished(j, how).pend = j.pend
           /\ Quiet(j, run).pend = j.pend
           /\ how = "skipped" => Finished(j, run, how).pend = j.pend
BY DEF Finished, EventFinished, Quiet, Jobs, Runs

\* What else is done to a workflow's, an event's or a turn's record.
LEMMA JobChanged ==
    ASSUME NEW j \in Jobs
    PROVE  /\ [j EXCEPT !.due = TRUE] \in Jobs
           /\ \A l \in {"free", "held", "lapsed"} : [j EXCEPT !.lease = l] \in Jobs
           /\ [j EXCEPT !.pend = TRUE] \in Jobs
           /\ \A s \in Statuses, b \in BOOLEAN :
                [j EXCEPT !.st = s, !.fails = 0, !.due = b] \in Jobs
           /\ \A s \in Statuses : [j EXCEPT !.st = s] \in Jobs
           /\ [j EXCEPT !.st = "complete", !.lease = "free"] \in Jobs
BY DEF Jobs, Statuses

\* A follow-up handed to its task keeps its type and is no longer active.
LEMMA OffTyped ==
    ASSUME NEW j \in Jobs
    PROVE  LET x == HandedOff(j)
           IN  /\ x \in Jobs /\ x.kind = j.kind /\ x.pend = j.pend /\ x.st # "active"
               /\ x.st = "absent" <=> j.st = "absent"
<1>. DEFINE x == HandedOff(j)
<1>1. x = [y \in Fields |-> x[y]]
  BY DEF Jobs, Fields, HandedOff
<1>2. /\ x.kind = j.kind /\ x.max = j.max /\ x.due = j.due /\ x.lease = "free"
      /\ x.fails = 0 /\ x.count = j.count + 1 /\ x.pend = j.pend
  BY DEF Jobs, HandedOff
<1>3. IF j.st # "active" THEN x.st = j.st ELSE x.st = "complete"
  BY DEF Jobs, HandedOff
<1>4. /\ x.kind \in Kinds /\ x.max \in Nat /\ x.due \in BOOLEAN /\ x.lease = "free"
      /\ x.fails \in Nat /\ x.count \in Nat /\ x.pend \in BOOLEAN
  BY <1>2 DEF Jobs
<1>5. x.st \in {"absent", "active", "paused", "complete", "failed"}
  BY <1>3 DEF Jobs
<1>6. x \in Jobs
  BY <1>1, <1>4, <1>5 DEF Jobs, Fields
<1>. QED
  BY <1>2, <1>3, <1>6

\* What happens to a row of app_events keeps its type and workflow.
LEMMA RowChanged ==
    ASSUME NEW r \in Events
    PROVE  /\ Deleted(r) \in Events /\ Deleted(r).of = r.of /\ Deleted(r).tries = r.tries
           /\ Deleted(r).st = "deleted"
           /\ [r EXCEPT !.st = "none"] \in Events
           /\ [r EXCEPT !.st = "waiting"] \in Events
           /\ \A w \in OnEvent : [r EXCEPT !.st = "checked", !.of = w] \in Events
           /\ \A n \in Nat : [r EXCEPT !.st = "started", !.tries = n] \in Events
BY DEF Events, Deleted

\* Counters stay natural numbers.
LEMMA OneMore == \A n \in Nat : n + 1 \in Nat
OBVIOUS

\* One run more of its event, if it has one, came to its end.
LEMMA EndedTyped ==
    ASSUME done \in [Event -> Nat], NEW run \in Runs
    PROVE  /\ Ended(run) \in [Event -> Nat]
           /\ \A e \in Event : Ended(run)[e] = IF Carries(run, e) THEN done[e] + 1 ELSE done[e]
<1>1. CASE run.event = NoOne
  BY <1>1, NoOneApart DEF Ended, Carries
<1>2. CASE run.event # NoOne
  <2>1. run.event \in Event /\ Ended(run) = [done EXCEPT ![run.event] = done[run.event] + 1]
    BY <1>2, Zenon DEF Ended, Runs
  <2>2. done[run.event] + 1 \in Nat
    BY <2>1
  <2>. QED
    BY <1>2, <2>1, <2>2, NoOneApart DEF Carries
<1>. QED
  BY <1>1, <1>2

\* What happens to a journal row keeps its type and run.
LEMMA TurnChanged ==
    ASSUME NEW x \in Turns
    PROVE  /\ x.resumes \in Nat
           /\ \A s \in {"live", "closed", "parked", "due", "cut", "shut"} :
                /\ [x EXCEPT !.st = s] \in Turns /\ [x EXCEPT !.st = s].run = x.run
                /\ [x EXCEPT !.st = s].st = s
           /\ \A n \in Nat : /\ [x EXCEPT !.st = "live", !.resumes = n] \in Turns
                              /\ [x EXCEPT !.st = "live", !.resumes = n].run = x.run
                              /\ [x EXCEPT !.st = "live", !.resumes = n].st = "live"
BY DEF Turns

---------------------------------------------------------------------------
(* Calm steps: no run, turn, event or status begins                        *)

JobsCalm ==
    \A w \in Wf :
        /\ job'[w].kind = job[w].kind
        /\ job'[w].st = "absent" <=> job[w].st = "absent"
        /\ job'[w].st = "active" => job[w].st = "active"
        /\ owed'[w] => owed[w] /\ job'[w].pend

RowsCalm ==
    \A e \in Event :
        /\ row'[e].of = row[e].of /\ row'[e].tries = row[e].tries
        /\ \/ row'[e].st = row[e].st
           \/ row[e].st # "none" /\ row'[e].st = "deleted"
           \/ row[e].st = "checked" /\ row'[e].st = "none"

TurnsCalm ==
    \A t \in Turn : turn'[t].st # "free" => turn[t].st # "free" /\ turn'[t].run = turn[t].run

HandCalm == hand' = hand \/ (hand'.pc \notin Picked /\ hand'.run = NoRun)

\* No card closes, no reset comes, and the event of a closed turn that is booked leaves
\* the queue.
DoneCalm ==
    /\ done' = done /\ forgot' = forgot /\ (up => up')
    /\ \A t \in Turn : \/ turn'[t].st \in {"free", turn[t].st}
                       \/ turn[t].st \in Pending /\ turn'[t].st \in Pending
    /\ \A t \in Turn, e \in Event : Closing(t, e) => turn'[t] = turn[t] \/ row'[e].st = "deleted"

Calm == JobsCalm /\ RowsCalm /\ TurnsCalm /\ HandCalm /\ DoneCalm /\ wish' = wish

\* A step that starts no run and changes the tables only so keeps the invariants, but for
\* the counts of ended runs.
LEMMA TablesKeep ==
    ASSUME Ind, TypeOK', JobsCalm, RowsCalm, TurnsCalm, HandCalm, wish' = wish
    PROVE  HandInv' /\ NewsInv' /\ RowsInv' /\ RunAlone' /\ NewsKept' /\ PauseStays'
<1>. USE DEF Ind, WorkflowInv
<1>1. HandInv'
  BY NothingTyped, NoOneApart DEF HandInv, JobsCalm, TurnsCalm, HandCalm, Picked
<1>2. NewsInv'
  BY DEF NewsInv, HandInv, JobsCalm, TurnsCalm, HandCalm, Picked
<1>3. RowsInv'
  BY NothingTyped, NoOneApart DEF RowsInv, JobsCalm, RowsCalm, TurnsCalm, HandCalm, Picked, HandInv, Wf, Carries
<1>4. RunAlone'
  BY DEF RunAlone, Starting, Journaled, TurnsCalm, HandCalm, Picked
<1>5. NewsKept' /\ PauseStays'
  BY DEF NewsKept, PauseStays, JobsCalm
<1>. QED
  BY <1>1, <1>2, <1>3, <1>4, <1>5

\* The counts of ended runs agree with the tables after a step that closes no card, takes
\* no event from the queue and starts no turn.
LEMMA CountsKeep ==
    ASSUME Ind, TypeOK', TurnsCalm, DoneCalm,
           \A e \in Event : row'[e].tries = row[e].tries,
           \A e \in Event : row'[e].st \in {"waiting", "started"} => Queued(e) \/ row[e].st = "checked",
           \A e \in Event : hand'.pc \in Picked /\ Carries(hand'.run, e)
                                 => hand.pc \in Picked /\ Carries(hand.run, e)
    PROVE  CountsInv'
<1>. USE DEF Ind, WorkflowInv
<1>1. \A e \in Event : done[e] \in Nat /\ forgot[e] \in Nat /\ row[e].tries \in Nat
  BY DEF TypeOK, Events
<1>2. ~up' => \A t \in Turn : turn'[t].st # "closed"
  BY DEF CountsInv, DoneCalm, Pending
<1>3. \A e \in Event : /\ forgot'[e] <= done'[e] /\ done'[e] <= forgot'[e] + 1
                       /\ done'[e] <= row'[e].tries /\ row'[e].tries <= EventTries
  BY DEF CountsInv, DoneCalm
<1>4. ASSUME NEW t \in Turn, NEW e \in Event, turn'[t].st # "free", Carries(turn'[t].run, e)
      PROVE  IF turn'[t].st = "closed" THEN done'[e] = forgot'[e] + 1
             ELSE done'[e] = forgot'[e] /\ (turn'[t].st # "shut" => done'[e] < row'[e].tries)
  <2>1. turn[t].st # "free" /\ Carries(turn[t].run, e)
    BY <1>4 DEF TurnsCalm
  <2>2. \/ turn'[t].st = turn[t].st
        \/ turn[t].st \notin {"closed", "shut"} /\ turn'[t].st \notin {"closed", "shut"}
    BY <1>4 DEF DoneCalm, Pending
  <2>3. IF turn[t].st = "closed" THEN done[e] = forgot[e] + 1
        ELSE done[e] = forgot[e] /\ (turn[t].st # "shut" => done[e] < row[e].tries)
    BY <2>1 DEF CountsInv
  <2>. QED
    BY <2>2, <2>3 DEF DoneCalm
<1>5. \A e \in Event : hand'.pc \in Picked /\ Carries(hand'.run, e)
        => done'[e] = forgot'[e] /\ done'[e] < row'[e].tries
  BY DEF CountsInv, DoneCalm
<1>6. ASSUME NEW e \in Event, done'[e] = forgot'[e] + 1, row'[e].st \in {"waiting", "started"}
      PROVE  \E t \in Turn : turn'[t].st = "closed" /\ turn'[t].run.event = e
  <2>1. done[e] = forgot[e] + 1
    BY <1>6 DEF DoneCalm
  <2>2. row[e].st # "checked"
    <3>1. SUFFICES ASSUME row[e].st = "checked" PROVE FALSE
      OBVIOUS
    <3>2. done[e] <= 0
      BY <3>1 DEF CountsInv, RowsInv
    <3>. QED
      BY <1>1, <2>1, <3>2
  <2>3. PICK t \in Turn : Closing(t, e)
    BY <1>6, <2>1, <2>2 DEF CountsInv
  <2>4. turn'[t] = turn[t]
    BY <1>6, <2>3 DEF DoneCalm
  <2>. QED
    BY <2>3, <2>4 DEF Closing
<1>. QED
  BY <1>2, <1>3, <1>4, <1>5, <1>6 DEF CountsInv, Queued, Closing

\* A calm step keeps all of them.
LEMMA CalmKeeps ==
    ASSUME Ind, TypeOK', Calm
    PROVE  WorkflowInv' /\ RunAlone' /\ NewsKept' /\ PauseStays'
<1>1. HandInv' /\ NewsInv' /\ RowsInv' /\ RunAlone' /\ NewsKept' /\ PauseStays'
  BY TablesKeep DEF Calm
<1>2. \A e \in Event : row'[e].st \in {"waiting", "started"} => Queued(e)
  BY DEF Calm, RowsCalm, Queued
<1>3. \A e \in Event : hand'.pc \in Picked /\ Carries(hand'.run, e)
                            => hand.pc \in Picked /\ Carries(hand.run, e)
  BY DEF Calm, HandCalm
<1>4. CountsInv'
  BY <1>2, <1>3, CountsKeep DEF Calm, RowsCalm
<1>. QED
  BY <1>1, <1>4 DEF WorkflowInv

\* Nothing else carries the event of a journaled turn's run.
LEMMA OneCarrier ==
    ASSUME Ind, NEW t \in Turn, NEW e \in Event, turn[t].st # "free", Carries(turn[t].run, e)
    PROVE  /\ \A u \in Turn : turn[u].st # "free" /\ Carries(turn[u].run, e) => u = t
           /\ ~(hand.pc \in Picked /\ Carries(hand.run, e))
<1>1. row[e].of = turn[t].run.of
  BY DEF Ind, WorkflowInv, RowsInv
<1>2. \A u \in Turn : turn[u].st # "free" /\ Carries(turn[u].run, e) => u = t
  BY <1>1 DEF Ind, WorkflowInv, RowsInv, RunAlone
<1>3. ~(hand.pc \in Picked /\ Carries(hand.run, e))
  <2>1. Journaled(turn[t].run.of) /\ turn[t].run.of \in Wf
    BY DEF Journaled, Ind, WorkflowInv, HandInv
  <2>. QED
    BY <1>1, <2>1 DEF Ind, WorkflowInv, RowsInv, RunAlone, Starting
<1>. QED
  BY <1>2, <1>3

\* The counts bound the ended runs of an event.
LEMMA CountsBound ==
    ASSUME TypeOK, CountsInv
    PROVE  EventOnce
<1>1. SUFFICES ASSUME NEW e \in Event
      PROVE  /\ done[e] = forgot[e] + 1 =>
                   \A t \in Turn : turn[t].st # "free" /\ turn[t].run.event = e => Closing(t, e)
  BY DEF CountsInv, EventOnce
<1>2. SUFFICES ASSUME done[e] = forgot[e] + 1,
                      NEW t \in Turn, turn[t].st # "free", turn[t].run.event = e
      PROVE  turn[t].st = "closed"
  BY <1>1 DEF Closing
<1>3. Carries(turn[t].run, e)
  BY <1>2, NoOneApart DEF Carries
<1>4. done[e] # forgot[e]
  BY <1>2 DEF TypeOK
<1>. QED
  BY <1>2, <1>3, <1>4 DEF CountsInv

\* Less work than before.
LEMMA LessWork ==
    ASSUME Ind, TypeOK', JobsCalm, RowsCalm, TurnsCalm, Need'
    PROVE  Need
<1>1. ASSUME NEW w \in Timed, Active(w)' PROVE Active(w)
  BY <1>1 DEF Active, JobsCalm, Wf
<1>2. ASSUME NEW e \in Event, Queued(e)', job'[row'[e].of].st = "active"
      PROVE  Queued(e) /\ Active(row[e].of)
  <2>1. row[e].st \in {"waiting", "started"} /\ row'[e].of = row[e].of
    BY <1>2 DEF Queued, RowsCalm
  <2>2. row[e].of \in Wf
    BY <2>1 DEF Ind, WorkflowInv, RowsInv, Wf
  <2>3. job'[row[e].of].st = "active"
    BY <1>2, <2>1 DEF Active
  <2>. QED
    BY <2>1, <2>2, <2>3 DEF Active, JobsCalm, Queued
<1>3. ASSUME NEW t \in Turn, turn'[t].st # "free" PROVE turn[t].st # "free"
  BY <1>3 DEF TurnsCalm
<1>4. \/ \E w \in Timed : Active(w)'
      \/ \E e \in Event : Queued(e)' /\ job'[row'[e].of].st = "active"
      \/ \E t \in Turn : turn'[t].st # "free"
  BY DEF Need, Active
<1>. QED
  BY <1>1, <1>2, <1>3, <1>4 DEF Need

\* The end of a run is calm, but for the news it was told of and its event.
LEMMA FinishCalm ==
    ASSUME Ind, NEW run \in Runs, run.of \in Wf, NEW how \in {"ok", "err", "skipped"},
           Finish(run, how),
           run.event = NoOne /\ ~run.told /\ how # "skipped" => ~owed[run.of],
           \A e \in Event : Carries(run, e) => row[e].st \in {"started", "deleted"}
    PROVE  /\ job' \in [Wf -> Jobs] /\ row' \in [Event -> Events] /\ owed' \in [Wf -> BOOLEAN]
           /\ JobsCalm /\ RowsCalm
           /\ \A e \in Event : Carries(run, e) => row'[e].st = "deleted"
<1>. DEFINE w == run.of
<1>1. job[w] \in Jobs
  BY DEF Ind, TypeOK
<1>2. CASE run.event # NoOne
  <2>. DEFINE j == EventFinished(job[w], how)
  <2>1. job' = [job EXCEPT ![w] = j] /\ row' = RowsAfter(run, how) /\ owed' = owed
    BY <1>2, Zenon DEF Finish
  <2>2. /\ j \in Jobs /\ j.kind = job[w].kind
        /\ j.st = "absent" <=> job[w].st = "absent"
        /\ j.st = "active" => job[w].st = "active"
        /\ j.pend = job[w].pend
    BY <1>1, JobAfter, PendAfter
  <2>3. job' \in [Wf -> Jobs] /\ JobsCalm
    <3>. HIDE DEF j
    <3>. QED
      BY <2>1, <2>2 DEF Ind, TypeOK, JobsCalm, NewsKept
  <2>4. /\ row' \in [Event -> Events] /\ RowsCalm
        /\ \A e \in Event : Carries(run, e) => row'[e].st = "deleted"
    <3>1. ASSUME NEW e \in Event
          PROVE  /\ row'[e] = row[e] \/ (row'[e] = Deleted(row[e]) /\ row[e].st # "none")
                 /\ Carries(run, e) => row'[e] = Deleted(row[e])
      <4>1. row'[e] = row[e] \/ (row'[e] = Deleted(row[e]) /\ (e = run.event \/ Queued(e)))
        BY <2>1 DEF RowsAfter
      <4>2. e = run.event => row[e].st # "none" /\ row'[e] = Deleted(row[e])
        BY <1>2, <2>1 DEF RowsAfter, Carries
      <4>. QED
        BY <4>1, <4>2 DEF Queued, Carries
    <3>2. DOMAIN row' = Event /\ row' = [e \in Event |-> row'[e]]
      BY <2>1 DEF RowsAfter
    <3>3. ASSUME NEW e \in Event
          PROVE  row'[e] \in Events
      <4>1. row[e] \in Events
        BY DEF Ind, TypeOK
      <4>. QED
        BY <3>1, <4>1, RowChanged
    <3>4. RowsCalm
      <4>1. \A e \in Event : Deleted(row[e]).of = row[e].of /\ Deleted(row[e]).tries = row[e].tries
                             /\ Deleted(row[e]).st = "deleted"
        BY RowChanged DEF Ind, TypeOK
      <4>. QED
        BY <3>1, <4>1 DEF RowsCalm
    <3>5. row' \in [Event -> Events]
      BY <3>2, <3>3
    <3>6. \A e \in Event : Carries(run, e) => row'[e].st = "deleted"
      <4>1. \A e \in Event : Deleted(row[e]).st = "deleted"
        BY RowChanged DEF Ind, TypeOK
      <4>. QED
        BY <3>1, <4>1
    <3>. QED
      BY <3>4, <3>5, <3>6
  <2>. QED
    BY <2>1, <2>3, <2>4 DEF Ind, TypeOK
<1>3. CASE run.event = NoOne
  <2>. DEFINE j == Finished(job[w], run, how)
  <2>1. /\ job' = [job EXCEPT ![w] = j] /\ row' = row
        /\ owed' = [owed EXCEPT ![w] = @ /\ (how = "skipped" \/ ~run.told)]
    BY <1>3, Zenon DEF Finish
  <2>2. /\ j \in Jobs /\ j.kind = job[w].kind
        /\ j.st = "absent" <=> job[w].st = "absent"
        /\ j.st = "active" => job[w].st = "active"
        /\ how = "skipped" => j.pend = job[w].pend
    BY <1>1, JobAfter, PendAfter
  <2>3. owed' \in [Wf -> BOOLEAN]
    BY <2>1 DEF Ind, TypeOK
  <2>4. \A v \in Wf : owed'[v] => owed[v] /\ (v = w => how = "skipped")
    BY <1>3, <2>1 DEF Ind, TypeOK
  <2>5. job' \in [Wf -> Jobs] /\ JobsCalm
    <3>. HIDE DEF j
    <3>. QED
      BY <2>1, <2>2, <2>4 DEF Ind, TypeOK, JobsCalm, NewsKept
  <2>. QED
    BY <1>3, <2>1, <2>3, <2>5, NoOneApart DEF Ind, TypeOK, RowsCalm, Carries
<1>. QED
  BY <1>2, <1>3

---------------------------------------------------------------------------
(* The alarm and its chain                                                 *)

\* armNow reads: if there is work, it will set the alarm.
LEMMA ArmReadKeeps ==
    ASSUME Ind, ArmRead
    PROVE  Ind'
<1>. USE DEF ArmRead, sched, wakes, person, ends
<1>1. TypeOK'
  BY DEF Ind, TypeOK
<1>2. Calm
  BY NothingTyped DEF Ind, NewsKept, Calm, JobsCalm, RowsCalm, TurnsCalm, HandCalm, DoneCalm, Picked
<1>3. WorkWatched'
  BY <1>1, <1>2, LessWork DEF Ind, WorkWatched, Calm
<1>. QED
  BY <1>1, <1>2, <1>3, CalmKeeps DEF Ind

\* armNow sets or deletes the alarm; if it deletes one that is needed, it strands.
LEMMA ArmSetKeeps ==
    ASSUME Ind, ArmSet
    PROVE  Ind'
<1>. USE DEF ArmSet, NoFault, Fault, sched, wakes, person, ends
<1>1. TypeOK'
  <2>1. alarm' \in BOOLEAN /\ stranded' \in BOOLEAN
    BY Zenon
  <2>2. reg' \in BOOLEAN
    BY Zenon DEF Ind, TypeOK
  <2>. QED
    BY <2>1, <2>2 DEF Ind, TypeOK
<1>2. Calm
  BY NothingTyped DEF Ind, NewsKept, Calm, JobsCalm, RowsCalm, TurnsCalm, HandCalm, DoneCalm, Picked
<1>3. WorkWatched'
  <2>1. SUFFICES ASSUME Need' PROVE alarm' \/ armq' \/ stranded'
    BY DEF WorkWatched
  <2>2. Need
    BY <1>1, <1>2, <2>1, LessWork DEF Calm
  <2>3. arming # "on" => arming = "off"
    BY DEF Ind, TypeOK
  <2>. QED
    BY <2>2, <2>3, Zenon
<1>. QED
  BY <1>1, <1>2, <1>3, CalmKeeps DEF Ind

\* The watchdog arms.
LEMMA WatchdogKeeps ==
    ASSUME Ind, Watchdog
    PROVE  Ind'
<1>. USE DEF Watchdog, sched, wakes, person, ends
<1>1. TypeOK'
  BY DEF Ind, TypeOK
<1>2. Calm
  BY NothingTyped DEF Ind, NewsKept, Calm, JobsCalm, RowsCalm, TurnsCalm, HandCalm, DoneCalm, Picked
<1>3. WorkWatched'
  BY <1>1, <1>2, LessWork DEF Ind, WorkWatched, Calm
<1>. QED
  BY <1>1, <1>2, <1>3, CalmKeeps DEF Ind

\* A reset takes nothing from the tables but the checked event, and strands work that nothing covers.
LEMMA ResetKeeps ==
    ASSUME Ind, Reset
    PROVE  Ind'
<1>. USE DEF Reset, Fault, sched, wakes, person, ends
<1>1. TypeOK'
  <2>1. turn' \in [Turn -> Turns]
    BY TurnChanged DEF Ind, TypeOK
  <2>2. row' \in [Event -> Events]
    BY RowChanged DEF Ind, TypeOK
  <2>3. stranded' \in BOOLEAN
    BY Zenon
  <2>4. hand' \in Hands /\ ask' = NoAsk /\ faults' \in Nat
    BY NothingTyped DEF Ind, TypeOK
  <2>5. forgot' \in [Event -> Nat]
    BY DEF Ind, TypeOK
  <2>. QED
    BY <2>1, <2>2, <2>3, <2>4, <2>5 DEF Ind, TypeOK
<1>2. JobsCalm /\ RowsCalm /\ TurnsCalm /\ HandCalm
  <2>1. RowsCalm
    BY DEF Ind, TypeOK, RowsCalm, Events
  <2>2. TurnsCalm
    BY TurnChanged DEF Ind, TypeOK, TurnsCalm
  <2>. QED
    BY <2>1, <2>2, NothingTyped DEF Ind, NewsKept, JobsCalm, HandCalm, Picked
<1>3. WorkWatched'
  BY <1>1, <1>2, LessWork DEF Ind, WorkWatched
<1>4. \A t \in Turn : /\ turn[t].st = "live" => turn'[t].st = "cut"
                      /\ turn[t].st = "closed" => turn'[t].st = "shut"
                      /\ turn[t].st \notin {"live", "closed"} => turn'[t].st = turn[t].st
  BY TurnChanged DEF Ind, TypeOK
<1>5. CountsInv'
  <2>1. \A e \in Event : done[e] \in Nat /\ forgot[e] \in Nat
    BY DEF Ind, TypeOK
  <2>2. \A e \in Event : (\E t \in Turn : Closing(t, e)) => done[e] = forgot[e] + 1
    BY NoOneApart DEF Ind, WorkflowInv, CountsInv, Closing, Carries
  <2>3. \A e \in Event : forgot'[e] = IF \E t \in Turn : Closing(t, e) THEN done[e] ELSE forgot[e]
    BY <2>2 DEF Ind, TypeOK
  <2>4. \A e \in Event : /\ forgot'[e] <= done'[e] /\ done'[e] <= forgot'[e] + 1
                         /\ done'[e] <= row'[e].tries /\ row'[e].tries <= EventTries
    BY <1>2, <2>1, <2>3 DEF Ind, WorkflowInv, CountsInv, RowsCalm
  <2>5. ASSUME NEW t \in Turn, NEW e \in Event, turn'[t].st # "free", Carries(turn'[t].run, e)
        PROVE  /\ turn'[t].st # "closed" /\ done'[e] = forgot'[e]
               /\ turn'[t].st # "shut" => done'[e] < row'[e].tries
    <3>1. turn[t].st # "free" /\ Carries(turn[t].run, e)
      BY <1>2, <2>5 DEF TurnsCalm
    <3>2. CASE turn[t].st = "closed"
      <4>1. Closing(t, e)
        BY <3>1, <3>2 DEF Closing, Carries
      <4>. QED
        BY <1>4, <2>3, <3>2, <4>1
    <3>3. CASE turn[t].st # "closed"
      <4>1. done[e] = forgot[e] /\ (turn[t].st # "shut" => done[e] < row[e].tries)
        BY <3>1, <3>3 DEF Ind, WorkflowInv, CountsInv
      <4>2. ~\E u \in Turn : Closing(u, e)
        BY <2>1, <2>2, <4>1
      <4>. QED
        BY <1>2, <1>4, <2>3, <3>3, <4>1, <4>2 DEF RowsCalm
    <3>. QED
      BY <3>2, <3>3
  <2>6. ASSUME NEW e \in Event, done'[e] = forgot'[e] + 1 PROVE row'[e].st \notin {"waiting", "started"}
    <3>1. done[e] = forgot[e] + 1 /\ ~\E t \in Turn : Closing(t, e)
      BY <2>1, <2>3, <2>6
    <3>2. ~Queued(e)
      BY <3>1 DEF Ind, WorkflowInv, CountsInv
    <3>. QED
      BY <1>2, <3>2 DEF RowsCalm, Queued
  <2>7. hand'.pc \notin Picked
    BY NothingTyped DEF Picked
  <2>8. \A t \in Turn : turn'[t].st # "closed"
    BY <1>4
  <2>. QED
    BY <2>4, <2>5, <2>6, <2>7, <2>8 DEF CountsInv, Queued
<1>. QED
  BY <1>1, <1>2, <1>3, <1>5, TablesKeep DEF Ind, WorkflowInv

\* The fresh object parks the turns it finds, or drops them: none of them is closed.
LEMMA RecoverKeeps ==
    ASSUME Ind, RecoverTurns
    PROVE  Ind'
<1>. USE DEF RecoverTurns, sched, wakes, person, ends
<1>1. TypeOK'
  <2>1. turn' \in [Turn -> Turns]
    <3>1. \A t \in Turn : [turn[t] EXCEPT !.st = "parked"] \in Turns /\ turn[t] \in Turns
      BY TurnChanged DEF Ind, TypeOK
    <3>2. PICK quit : turn' = [t \in Turn |-> IF t \in quit THEN NoTurn
                                    ELSE IF turn[t].st = "free" THEN turn[t]
                                    ELSE [turn[t] EXCEPT !.st = "parked"]]
      OBVIOUS
    <3>. QED
      BY <3>1, <3>2, NothingTyped
  <2>2. alarm' \in BOOLEAN
    BY DEF Ind, TypeOK
  <2>. QED
    BY <2>1, <2>2 DEF Ind, TypeOK
<1>2. Calm
  <2>1. \A t \in Turn : /\ [turn[t] EXCEPT !.st = "parked"].run = turn[t].run
                        /\ [turn[t] EXCEPT !.st = "parked"].st = "parked"
    BY TurnChanged DEF Ind, TypeOK
  <2>2. PICK quit : /\ turn' = [t \in Turn |-> IF t \in quit THEN NoTurn
                                    ELSE IF turn[t].st = "free" THEN turn[t]
                                    ELSE [turn[t] EXCEPT !.st = "parked"]]
                    /\ \A t \in Turn : turn[t].st = "shut" => t \in quit
    OBVIOUS
  <2>3. \A t \in Turn : turn[t].st # "closed"
    BY DEF Ind, WorkflowInv, CountsInv
  <2>4. TurnsCalm
    BY <2>1, <2>2, NothingTyped DEF TurnsCalm
  <2>5. DoneCalm
    <3>1. \A t \in Turn : turn[t].st \in {"free", "live", "closed", "parked", "due", "cut", "shut"}
      BY DEF Ind, TypeOK, Turns
    <3>2. \A t \in Turn : \/ turn'[t].st \in {"free", turn[t].st}
                          \/ turn[t].st \in Pending /\ turn'[t].st \in Pending
      BY <2>1, <2>2, <2>3, <3>1, NothingTyped DEF Pending
    <3>. QED
      BY <2>3, <3>2 DEF DoneCalm, Closing
  <2>. QED
    BY <2>4, <2>5 DEF Ind, NewsKept, Calm, JobsCalm, RowsCalm, HandCalm
<1>3. WorkWatched'
  BY <1>1, <1>2, LessWork DEF Ind, WorkWatched, Calm
<1>. QED
  BY <1>1, <1>2, <1>3, CalmKeeps DEF Ind

\* A next_run comes.
LEMMA NextRunKeeps ==
    ASSUME Ind, NEW w \in Timed, NextRunComes(w)
    PROVE  Ind'
<1>. USE DEF NextRunComes, Wf, sched, wakes, person, ends
<1>1. TypeOK'
  <2>1. job' = [job EXCEPT ![w] = [job[w] EXCEPT !.due = TRUE]]
    BY Zenon
  <2>2. [job[w] EXCEPT !.due = TRUE] \in Jobs
    BY JobChanged DEF Ind, TypeOK
  <2>. QED
    BY <2>1, <2>2 DEF Ind, TypeOK
<1>2. Calm
  BY DEF Ind, TypeOK, NewsKept, Jobs, Calm, JobsCalm, RowsCalm, TurnsCalm, HandCalm, DoneCalm, Picked
<1>3. WorkWatched'
  BY <1>1, <1>2, LessWork DEF Ind, WorkWatched, Calm
<1>. QED
  BY <1>1, <1>2, <1>3, CalmKeeps DEF Ind

\* A lease runs out.
LEMMA LapseKeeps ==
    ASSUME Ind, NEW w \in Wf, LeaseLapses(w)
    PROVE  Ind'
<1>. USE DEF LeaseLapses, sched, wakes, person, ends
<1>1. TypeOK'
  <2>1. job' = [job EXCEPT ![w] = [job[w] EXCEPT !.lease = "lapsed"]]
    BY Zenon
  <2>2. [job[w] EXCEPT !.lease = "lapsed"] \in Jobs
    BY JobChanged DEF Ind, TypeOK
  <2>. QED
    BY <2>1, <2>2 DEF Ind, TypeOK
<1>2. Calm
  BY DEF Ind, TypeOK, NewsKept, Jobs, Calm, JobsCalm, RowsCalm, TurnsCalm, HandCalm, DoneCalm, Picked
<1>3. WorkWatched'
  BY <1>1, <1>2, LessWork DEF Ind, WorkWatched, Calm
<1>. QED
  BY <1>1, <1>2, <1>3, CalmKeeps DEF Ind

\* A turn's delay is over.
LEMMA ResumeKeeps ==
    ASSUME Ind, NEW t \in Turn, ResumeComes(t)
    PROVE  Ind'
<1>. USE DEF ResumeComes, sched, wakes, person, ends
<1>1. TypeOK'
  <2>1. turn' = [turn EXCEPT ![t] = [turn[t] EXCEPT !.st = "due"]]
    BY Zenon
  <2>2. [turn[t] EXCEPT !.st = "due"] \in Turns
    BY TurnChanged DEF Ind, TypeOK
  <2>. QED
    BY <2>1, <2>2 DEF Ind, TypeOK
<1>2. Calm
  BY DEF Ind, TypeOK, NewsKept, Turns, Calm, JobsCalm, RowsCalm, TurnsCalm, HandCalm, DoneCalm, Picked,
     Pending, Closing
<1>3. WorkWatched'
  BY <1>1, <1>2, LessWork DEF Ind, WorkWatched, Calm
<1>. QED
  BY <1>1, <1>2, <1>3, CalmKeeps DEF Ind

---------------------------------------------------------------------------
(* The handler                                                             *)

\* The alarm that fires is gone, but its handler is awake.
LEMMA FireKeeps ==
    ASSUME Ind, Fire
    PROVE  Ind'
<1>. USE DEF Fire, sched, wakes, person, ends
<1>1. TypeOK'
  BY NothingTyped DEF Ind, TypeOK
<1>2. Calm
  BY NothingTyped DEF Ind, NewsKept, Calm, JobsCalm, RowsCalm, TurnsCalm, HandCalm, DoneCalm, Picked
<1>3. WorkWatched'
  BY <1>1, <1>2, LessWork, NothingTyped DEF Ind, WorkWatched, Calm
<1>. QED
  BY <1>1, <1>2, <1>3, CalmKeeps DEF Ind

\* armBackstop sets the alarm again; resumed turns keep their run and its lease.
LEMMA WokeKeeps ==
    ASSUME Ind, Woke
    PROVE  Ind'
<1>. USE DEF Woke, Resumes, sched, wakes, person, ends
<1>1. TypeOK'
  <2>1. turn' \in [Turn -> Turns]
    <3>1. ASSUME NEW t \in Turn PROVE [turn[t] EXCEPT !.st = "live", !.resumes = @ + 1] \in Turns
      <4>1. turn[t] \in Turns
        BY DEF Ind, TypeOK
      <4>2. turn[t].resumes \in Nat
        BY <4>1, TurnChanged
      <4>4. [turn[t] EXCEPT !.st = "live", !.resumes = turn[t].resumes + 1] \in Turns
        BY <4>1, <4>2, OneMore, TurnChanged
      <4>. QED
        BY <4>4, Zenon
    <3>. QED
      BY <3>1, NothingTyped DEF Ind, TypeOK
  <2>2. job' \in [Wf -> Jobs]
    BY JobChanged DEF Ind, TypeOK
  <2>. QED
    BY <2>1, <2>2, NothingTyped DEF Ind, TypeOK
<1>2. Calm
  <2>1. TurnsCalm
    BY NothingTyped DEF Ind, TypeOK, Turns, TurnsCalm
  <2>3. DoneCalm
    BY NothingTyped DEF Ind, TypeOK, Turns, DoneCalm, Pending, Closing
  <2>2. JobsCalm
    <3>1. \A w \in Wf : LET x == [job[w] EXCEPT !.lease = "held"]
                        IN  x.kind = job[w].kind /\ x.st = job[w].st /\ x.pend = job[w].pend
      BY DEF Ind, TypeOK, Jobs
    <3>2. \A w \in Wf : job'[w] \in {job[w], [job[w] EXCEPT !.lease = "held"]}
      BY Zenon
    <3>. QED
      BY <3>1, <3>2 DEF Ind, JobsCalm, NewsKept
  <2>. QED
    BY <2>1, <2>2, <2>3, NothingTyped DEF Ind, Calm, RowsCalm, HandCalm, Picked
<1>3. WorkWatched'
  BY <1>1, <1>2, LessWork DEF Ind, WorkWatched, Calm
<1>. QED
  BY <1>1, <1>2, <1>3, CalmKeeps DEF Ind

\* The handler ends.
LEMMA HandlerEndsKeeps ==
    ASSUME Ind, HandlerEnds
    PROVE  Ind'
<1>. USE DEF HandlerEnds, sched, wakes, person, ends
<1>1. TypeOK'
  BY NothingTyped DEF Ind, TypeOK
<1>2. Calm
  BY NothingTyped DEF Ind, NewsKept, Calm, JobsCalm, RowsCalm, TurnsCalm, HandCalm, DoneCalm, Picked
<1>3. WorkWatched'
  BY <1>1, <1>2, LessWork, NothingTyped DEF Ind, WorkWatched, Calm
<1>. QED
  BY <1>1, <1>2, <1>3, CalmKeeps DEF Ind

\* The next event: the rows of inactive workflows and of runs cut off too often go,
\* and the event that is taken is free, queued and not spent.
LEMMA EventsKeep ==
    ASSUME Ind, AppEventsDue
    PROVE  Ind'
<1>. USE DEF sched, wakes, person, ends
<1>0. hand.pc = "events" /\ UNCHANGED <<job, turn, wakes, person, owed, done, forgot, faults>>
  BY DEF AppEventsDue
<1>1. /\ Purged \in [Event -> Events]
      /\ \A x \in Event : Purged[x].of = row[x].of /\ Purged[x].tries = row[x].tries
      /\ \A x \in Event : Purged[x].st = row[x].st \/ (Queued(x) /\ Purged[x].st = "deleted")
      /\ \A x \in Event : x \notin Dropped \cup Spent => Purged[x] = row[x]
  <2>1. \A x \in Event : Purged[x] = row[x] \/ (Queued(x) /\ Purged[x] = Deleted(row[x]))
    BY DEF Purged, Dropped, Spent, Queued
  <2>2. \A x \in Event : row[x] \in Events
    BY DEF Ind, TypeOK
  <2>. QED
    BY <2>1, <2>2, RowChanged DEF Purged
<1>2. CASE Ready = {} /\ row' = Purged /\ hand' = At("timed")
  <2>1. TypeOK'
    BY <1>0, <1>1, <1>2, NothingTyped DEF Ind, TypeOK
  <2>2. Calm
    BY <1>0, <1>1, <1>2, NothingTyped DEF Ind, NewsKept, Calm, JobsCalm, RowsCalm, TurnsCalm, HandCalm,
       DoneCalm, Picked, Queued
  <2>3. WorkWatched'
    BY <1>0, <1>2, <2>1, <2>2, LessWork, NothingTyped DEF Ind, WorkWatched, Calm
  <2>. QED
    BY <2>1, <2>2, <2>3, CalmKeeps DEF Ind
<1>3. ASSUME NEW e \in Ready,
             row' = [Purged EXCEPT ![e].st = "started", ![e].tries = @ + 1],
             hand' = [At("evlimits") EXCEPT !.run = [NoRun EXCEPT !.of = row[e].of, !.event = e]]
      PROVE  Ind'
  <2>. DEFINE w == row[e].of
  <2>1. /\ e \in Event /\ Queued(e) /\ Free(w) /\ e \notin Spent
        /\ w \in OnEvent /\ w \in Wf /\ w # NoOne /\ e # NoOne /\ row[e] \in Events
    BY NoOneApart DEF Ready, Ind, WorkflowInv, TypeOK, RowsInv, Queued, Wf
  <2>2. e \notin Dropped /\ Purged[e] = row[e]
    BY <1>1, <2>1 DEF Dropped, Free
  <2>3. /\ row' \in [Event -> Events]
        /\ row'[e].st = "started" /\ row'[e].of = w /\ row'[e].tries = row[e].tries + 1
        /\ \A x \in Event \ {e} : row'[x] = Purged[x]
    <3>1. row' = [Purged EXCEPT ![e] = [row[e] EXCEPT !.st = "started", !.tries = row[e].tries + 1]]
      BY <1>3, <2>2, Zenon
    <3>2. row[e].tries \in Nat
      BY <2>1 DEF Events
    <3>3. /\ [row[e] EXCEPT !.st = "started", !.tries = row[e].tries + 1] \in Events
          /\ [row[e] EXCEPT !.st = "started", !.tries = row[e].tries + 1].st = "started"
          /\ [row[e] EXCEPT !.st = "started", !.tries = row[e].tries + 1].of = w
          /\ [row[e] EXCEPT !.st = "started", !.tries = row[e].tries + 1].tries = row[e].tries + 1
      <4>1. row[e].tries + 1 \in Nat
        BY <3>2
      <4>. QED
        BY <2>1, <4>1, RowChanged DEF Events
    <3>. QED
      BY <1>1, <2>1, <3>1, <3>3
  <2>4. /\ hand' \in Hands /\ hand'.pc = "evlimits"
        /\ hand'.run.of = w /\ hand'.run.event = e
    BY <1>3, <2>1 DEF At, Idle, NoRun, Hands, Runs, Wf
  <2>5. row[e].tries + 1 \in Nat /\ row[e].tries + 1 <= EventTries
    <3>1. CASE row[e].st = "waiting"
      <4>1. row[e].tries = 0
        BY <2>1, <3>1 DEF Ind, WorkflowInv, RowsInv
      <4>. QED
        BY <4>1, NumbersAssumption
    <3>2. CASE row[e].st = "started"
      <4>1. row[e].tries \in Nat /\ ~(row[e].tries >= EventTries)
        BY <2>1, <3>2 DEF Spent, Events
      <4>. QED
        BY <4>1, NumbersAssumption
    <3>. QED
      BY <2>1, <3>1, <3>2 DEF Queued
  <2>6. done[e] = forgot[e] /\ done[e] < row[e].tries + 1
    <3>1. /\ done[e] \in Nat /\ forgot[e] \in Nat /\ row[e].tries \in Nat
          /\ forgot[e] <= done[e] /\ done[e] <= forgot[e] + 1 /\ done[e] <= row[e].tries
      BY <2>1 DEF Ind, WorkflowInv, TypeOK, CountsInv, Events
    <3>2. ~\E t \in Turn : Closing(t, e)
      BY <2>1 DEF Free, Journaled, Closing, Ind, WorkflowInv, RowsInv, Carries
    <3>3. done[e] # forgot[e] + 1
      BY <2>1, <3>2 DEF Ind, WorkflowInv, CountsInv
    <3>. QED
      BY <3>1, <3>3
  <2>7. UNCHANGED <<job, turn, wish, owed, done, forgot, up>>
    BY <1>0
  <2>8. TypeOK'
    BY <1>0, <2>3, <2>4 DEF Ind, TypeOK
  <2>9. HandInv' /\ NewsInv'
    BY <2>1, <2>4, <2>7 DEF Ind, WorkflowInv, HandInv, NewsInv, Picked, Free, Active
  <2>10. RowsInv'
    BY <1>1, <2>1, <2>3, <2>4, <2>7 DEF Ind, WorkflowInv, RowsInv, Picked, Carries, Queued
  <2>11. RunAlone'
    BY <2>1, <2>4, <2>7 DEF Ind, RunAlone, Starting, Journaled, Free
  <2>12. NewsKept' /\ PauseStays'
    BY <2>7 DEF Ind, NewsKept, PauseStays
  <2>13. CountsInv'
    <3>1. ASSUME NEW x \in Event, x # e
          PROVE  /\ row'[x].tries = row[x].tries
                 /\ row'[x].st \in {"waiting", "started"} => Queued(x)
      BY <1>1, <2>3, <3>1 DEF Queued
    <3>2. \A t \in Turn : turn[t].st # "free" => ~Carries(turn[t].run, e)
      BY <2>1 DEF Free, Journaled, Ind, WorkflowInv, RowsInv
    <3>3. \A x \in Event : /\ forgot[x] <= done[x] /\ done[x] <= forgot[x] + 1
                           /\ done[x] <= row'[x].tries /\ row'[x].tries <= EventTries
      <4>1. /\ done[e] \in Nat /\ forgot[e] \in Nat /\ row[e].tries \in Nat
            /\ forgot[e] <= done[e] /\ done[e] <= forgot[e] + 1 /\ done[e] <= row[e].tries
        BY <2>1 DEF Ind, WorkflowInv, TypeOK, CountsInv, Events
      <4>2. /\ done[e] <= row'[e].tries /\ row'[e].tries <= EventTries
        BY <2>3, <2>5, <4>1
      <4>. QED
        BY <3>1, <4>1, <4>2 DEF Ind, WorkflowInv, CountsInv
    <3>4. \A x \in Event : hand'.pc \in Picked /\ Carries(hand'.run, x)
            => done[x] = forgot[x] /\ done[x] < row'[x].tries
      BY <2>3, <2>4, <2>6 DEF Carries
    <3>5. \A x \in Event : done[x] = forgot[x] + 1 /\ row'[x].st \in {"waiting", "started"}
            => \E t \in Turn : Closing(t, x)
      <4>1. done[e] # forgot[e] + 1
        BY <2>1, <2>6 DEF Ind, TypeOK
      <4>. QED
        BY <3>1, <4>1 DEF Ind, WorkflowInv, CountsInv
    <3>6. \A t \in Turn, x \in Event : turn[t].st # "free" /\ Carries(turn[t].run, x)
            => IF turn[t].st = "closed" THEN done[x] = forgot[x] + 1
               ELSE done[x] = forgot[x] /\ (turn[t].st # "shut" => done[x] < row'[x].tries)
      BY <3>1, <3>2 DEF Ind, WorkflowInv, CountsInv
    <3>7. ~up => \A t \in Turn : turn[t].st # "closed"
      BY DEF Ind, WorkflowInv, CountsInv
    <3>. QED
      BY <2>7, <3>3, <3>4, <3>5, <3>6, <3>7 DEF CountsInv, Queued, Closing
  <2>14. WorkWatched'
    <3>1. Need' => Need
      BY <1>1, <2>1, <2>3, <2>7 DEF Need, Active, Queued
    <3>. QED
      BY <1>0, <1>3, <2>4, <3>1 DEF Ind, WorkWatched
  <2>. QED
    BY <2>8, <2>9, <2>10, <2>11, <2>12, <2>13, <2>14 DEF Ind, WorkflowInv
<1>. QED
  BY <1>2, <1>3 DEF AppEventsDue

\* The lease of an event's workflow.
LEMMA LeaseKeeps ==
    ASSUME Ind, EventLease
    PROVE  Ind'
<1>. USE DEF EventLease, sched, wakes, person, ends
<1>. DEFINE w == hand.run.of
<1>1. w \in Wf /\ hand.run.event \in Event /\ job[w] \in Jobs
  BY DEF Ind, WorkflowInv, TypeOK, HandInv, Picked
<1>2. job' \in [Wf -> Jobs] /\ JobsCalm
  <2>1. job' = [job EXCEPT ![w] = [job[w] EXCEPT !.lease = "held"]]
    BY Zenon
  <2>2. LET x == [job[w] EXCEPT !.lease = "held"]
        IN  x \in Jobs /\ x.kind = job[w].kind /\ x.st = job[w].st /\ x.pend = job[w].pend
    <3>1. [job[w] EXCEPT !.lease = "held"] \in Jobs
      BY <1>1, JobChanged
    <3>. QED
      BY <1>1, <3>1 DEF Jobs
  <2>. QED
    BY <1>1, <2>1, <2>2 DEF Ind, TypeOK, JobsCalm, NewsKept
<1>3. hand' \in Hands /\ hand'.pc = "evaccess" /\ hand'.run = hand.run
  BY DEF Ind, TypeOK, Hands
<1>4. TypeOK'
  BY <1>2, <1>3 DEF Ind, TypeOK
<1>5. HandInv' /\ NewsInv'
  BY <1>1, <1>2, <1>3 DEF Ind, WorkflowInv, HandInv, NewsInv, Picked, JobsCalm
<1>6. RowsInv' /\ RunAlone'
  <2>1. \A e \in Event : row[e].st # "none" => row[e].of \in Wf
    BY DEF Ind, WorkflowInv, RowsInv, Wf
  <2>. QED
    BY <1>2, <1>3, <2>1 DEF Ind, WorkflowInv, RowsInv, RunAlone, Starting, Journaled, Picked, JobsCalm
<1>9. CountsInv'
  BY <1>3, <1>4, CountsKeep DEF TurnsCalm, DoneCalm, Queued, Picked
<1>7. NewsKept' /\ PauseStays'
  BY <1>2 DEF Ind, NewsKept, PauseStays, JobsCalm
<1>8. WorkWatched'
  BY <1>2, <1>3, <1>4, LessWork DEF Ind, WorkWatched, RowsCalm, TurnsCalm
<1>. QED
  BY <1>4, <1>5, <1>6, <1>7, <1>8, <1>9 DEF Ind, WorkflowInv

\* A turn starts: its workflow has no other in the journal.
LEMMA StartKeeps ==
    ASSUME Ind, StartTurn, hand.pc \in {"evaccess", "limits"},
           UNCHANGED <<job, row, up, reg, armq, arming, stranded, ask, wish, ticks, asks, owed, done, forgot>>,
           faults' = faults
    PROVE  Ind'
<1>1. PICK t \in Turn :
        /\ turn[t].st = "free"
        /\ turn' = [turn EXCEPT ![t] = [st |-> "live", run |-> hand.run, resumes |-> 0]]
        /\ hand' = [hand EXCEPT !.pc = "run", !.turn = t]
  BY DEF StartTurn, NewTurn
<1>2. /\ turn' \in [Turn -> Turns]
      /\ turn'[t].st = "live" /\ turn'[t].run = hand.run
      /\ \A u \in Turn \ {t} : turn'[u] = turn[u]
  BY <1>1 DEF Ind, TypeOK, Turns, Hands
<1>3. hand' \in Hands /\ hand'.pc = "run" /\ hand'.run = hand.run
  BY <1>1 DEF Ind, TypeOK, Hands
<1>4. hand.run.of \in Wf /\ ~Journaled(hand.run.of)
  BY DEF Ind, WorkflowInv, HandInv, RunAlone, Starting, Picked
<1>5. TypeOK'
  BY <1>2, <1>3 DEF Ind, TypeOK, StartTurn
<1>6. HandInv'
  BY <1>2, <1>3, <1>4 DEF Ind, WorkflowInv, HandInv, Picked
<1>7. NewsInv'
  <2>1. hand.run.event = NoOne => hand.pc = "limits"
    BY NoOneApart DEF Ind, WorkflowInv, HandInv
  <2>. QED
    BY <1>2, <1>3, <2>1 DEF Ind, WorkflowInv, NewsInv
<1>8. RowsInv'
  BY <1>2, <1>3 DEF Ind, WorkflowInv, RowsInv, Picked
<1>9. RunAlone'
  BY <1>2, <1>3, <1>4 DEF Ind, RunAlone, Starting, Journaled, Picked
<1>10. NewsKept' /\ PauseStays'
  BY DEF Ind, NewsKept, PauseStays
<1>11. CountsInv'
  <2>1. \A e \in Event : Carries(hand.run, e) => done[e] = forgot[e] /\ done[e] < row[e].tries
    BY DEF Ind, WorkflowInv, CountsInv, Picked
  <2>2. \A u \in Turn, e \in Event : turn'[u].st # "free" /\ Carries(turn'[u].run, e)
          => IF turn'[u].st = "closed" THEN done[e] = forgot[e] + 1
             ELSE done[e] = forgot[e] /\ (turn'[u].st # "shut" => done[e] < row[e].tries)
    BY <1>2, <2>1 DEF Ind, WorkflowInv, CountsInv
  <2>3. \A u \in Turn, e \in Event : Closing(u, e) => turn'[u].st = "closed" /\ turn'[u].run.event = e
    BY <1>1, <1>2 DEF Closing
  <2>4. \A e \in Event : done[e] = forgot[e] + 1 /\ Queued(e)
          => \E u \in Turn : turn'[u].st = "closed" /\ turn'[u].run.event = e
    BY <2>3 DEF Ind, WorkflowInv, CountsInv
  <2>5. \A u \in Turn : turn'[u].st = "closed" => turn[u].st = "closed"
    BY <1>2
  <2>6. hand'.pc \notin Picked
    BY <1>3 DEF Picked
  <2>. QED
    BY <2>2, <2>4, <2>5, <2>6 DEF Ind, WorkflowInv, CountsInv, Closing, Queued
<1>12. WorkWatched'
  BY DEF StartTurn, WorkWatched
<1>. QED
  BY <1>5, <1>6, <1>7, <1>8, <1>9, <1>10, <1>11, <1>12 DEF Ind, WorkflowInv

\* Starting or skipping the run of an event keeps the invariant.
LEMMA EventRunKeeps ==
    ASSUME Ind, EventRun
    PROVE  Ind'
<1>1. CASE StartTurn /\ NoFault /\ UNCHANGED <<job, row, owed, armq>>
  BY <1>1, StartKeeps DEF EventRun, NoFault, person
<1>2. CASE /\ Fault /\ Finish(hand.run, "skipped") /\ hand' = At("timed") /\ armq' = TRUE
           /\ UNCHANGED <<turn, alarm>>
  <2>1. /\ hand.run \in Runs /\ hand.run.of \in Wf
        /\ UNCHANGED <<up, reg, arming, stranded, person, done, forgot>>
    BY DEF EventRun, Ind, WorkflowInv, TypeOK, HandInv, Hands, Picked
  <2>2. \A e \in Event : Carries(hand.run, e) => row[e].st \in {"started", "deleted"}
    BY DEF EventRun, Ind, WorkflowInv, RowsInv, Picked
  <2>3. /\ job' \in [Wf -> Jobs] /\ row' \in [Event -> Events] /\ owed' \in [Wf -> BOOLEAN]
        /\ JobsCalm /\ RowsCalm
    BY <1>2, <2>1, <2>2, FinishCalm
  <2>4. TypeOK'
    BY <1>2, <2>1, <2>3, NothingTyped DEF Ind, TypeOK, Fault, person
  <2>5. Calm
    BY <1>2, <2>1, <2>3, NothingTyped DEF Calm, TurnsCalm, HandCalm, DoneCalm, Picked, person
  <2>6. WorkWatched'
    BY <1>2 DEF WorkWatched
  <2>. QED
    BY <2>4, <2>5, <2>6, CalmKeeps DEF Ind
<1>. QED
  BY <1>1, <1>2 DEF EventRun

\* A due workflow is picked: it has no lease and no journaled run.
LEMMA TimedKeeps ==
    ASSUME Ind, TimedDue
    PROVE  Ind'
<1>. USE DEF sched, wakes, person, ends
<1>0. /\ hand.pc = "timed"
      /\ UNCHANGED <<row, turn, up, alarm, reg, arming, stranded, person, owed, done, forgot, faults>>
  BY DEF TimedDue
<1>1. CASE hand' = At("arm") /\ armq' = TRUE /\ job' = job
  <2>1. TypeOK'
    BY <1>0, <1>1, NothingTyped DEF Ind, TypeOK
  <2>2. Calm
    BY <1>0, <1>1, NothingTyped DEF Ind, NewsKept, Calm, JobsCalm, RowsCalm, TurnsCalm, HandCalm,
       DoneCalm, Picked
  <2>3. WorkWatched'
    BY <1>1 DEF WorkWatched
  <2>. QED
    BY <2>1, <2>2, <2>3, CalmKeeps DEF Ind
<1>2. ASSUME NEW w \in Timed, Free(w), armq' = armq,
             job' = [job EXCEPT ![w].lease = "held"],
             hand' = [At("access") EXCEPT !.run =
                        [NoRun EXCEPT !.of = w, !.last = IsLast(job[w]), !.fails = job[w].fails]]
      PROVE  Ind'
  <2>1. w \in Wf /\ w # NoOne /\ job[w] \in Jobs /\ job[w].st = "active" /\ ~Journaled(w)
    BY <1>2, NoOneApart DEF Wf, Ind, TypeOK, Free, Active
  <2>2. job' \in [Wf -> Jobs] /\ JobsCalm
    <3>1. job' = [job EXCEPT ![w] = [job[w] EXCEPT !.lease = "held"]]
      BY <1>2, Zenon
    <3>2. [job[w] EXCEPT !.lease = "held"] \in Jobs
      BY <2>1, JobChanged
    <3>3. LET x == [job[w] EXCEPT !.lease = "held"]
          IN  x.kind = job[w].kind /\ x.st = job[w].st /\ x.pend = job[w].pend
      BY <2>1 DEF Jobs
    <3>. QED
      BY <1>0, <2>1, <3>1, <3>2, <3>3 DEF Ind, TypeOK, JobsCalm, NewsKept
  <2>3. /\ hand' \in Hands /\ hand'.pc = "access"
        /\ hand'.run.of = w /\ hand'.run.event = NoOne
    <3>1. IsLast(job[w]) \in BOOLEAN /\ job[w].fails \in Nat
      BY <2>1 DEF IsLast, Jobs
    <3>. QED
      BY <1>2, <2>1, <3>1 DEF At, Idle, NoRun, Hands, Runs
  <2>4. TypeOK'
    BY <1>0, <1>2, <2>2, <2>3 DEF Ind, TypeOK
  <2>5. HandInv' /\ NewsInv'
    BY <1>0, <2>1, <2>2, <2>3 DEF Ind, WorkflowInv, HandInv, NewsInv, Picked, JobsCalm
  <2>6. RowsInv'
    <3>1. \A e \in Event : row[e].st # "none" => row[e].of \in Wf
      BY DEF Ind, WorkflowInv, RowsInv, Wf
    <3>. QED
      BY <1>0, <2>2, <2>3, <3>1 DEF Ind, WorkflowInv, RowsInv, Picked, JobsCalm, Carries
  <2>7. RunAlone'
    BY <1>0, <2>1, <2>3 DEF Ind, RunAlone, Starting, Journaled
  <2>10. CountsInv'
    BY <1>0, <2>3, <2>4, CountsKeep DEF TurnsCalm, DoneCalm, Queued, Carries
  <2>8. NewsKept' /\ PauseStays'
    BY <1>0, <2>2 DEF Ind, NewsKept, PauseStays, JobsCalm
  <2>9. WorkWatched'
    BY <1>0, <1>2, <2>2, <2>4, LessWork DEF Ind, WorkWatched, RowsCalm, TurnsCalm
  <2>. QED
    BY <2>4, <2>5, <2>6, <2>7, <2>8, <2>9, <2>10 DEF Ind, WorkflowInv
<1>. QED
  BY <1>1, <1>2 DEF TimedDue

\* The account is read: the run is skipped, handed off, or goes on.
LEMMA AccessKeeps ==
    ASSUME Ind, Access
    PROVE  Ind'
<1>. DEFINE w == hand.run.of
<1>. USE DEF person
<1>0. /\ UNCHANGED <<turn, up, alarm, reg, arming, stranded, person, done, forgot>>
      /\ hand.pc = "access" /\ hand.run \in Runs /\ w \in Wf /\ hand.run.event = NoOne
      /\ job[w] \in Jobs
  BY DEF Access, Ind, WorkflowInv, TypeOK, HandInv, Hands, Picked
<1>1. ASSUME job' \in [Wf -> Jobs], row' \in [Event -> Events], owed' \in [Wf -> BOOLEAN],
             JobsCalm, RowsCalm, hand' = At("arm"), armq' = TRUE, faults' \in Nat
      PROVE  Ind'
  <2>1. TypeOK'
    BY <1>0, <1>1, NothingTyped DEF Ind, TypeOK
  <2>2. Calm
    BY <1>0, <1>1, NothingTyped DEF Calm, TurnsCalm, HandCalm, DoneCalm, Picked
  <2>3. WorkWatched'
    BY <1>1 DEF WorkWatched
  <2>. QED
    BY <2>1, <2>2, <2>3, CalmKeeps DEF Ind
<1>2. CASE Skip
  <2>1. /\ job' \in [Wf -> Jobs] /\ row' \in [Event -> Events] /\ owed' \in [Wf -> BOOLEAN]
        /\ JobsCalm /\ RowsCalm
    BY <1>0, <1>2, FinishCalm, NoOneApart DEF Skip, Carries
  <2>. QED
    BY <1>1, <1>2, <2>1 DEF Skip, Fault, Ind, TypeOK
<1>3. CASE HandOff
  <2>. DEFINE x == HandedOff(job[w])
  <2>1. job' = [job EXCEPT ![w] = x]
    BY <1>3 DEF HandOff
  <2>5. UNCHANGED <<row, owed, faults>>
    BY <1>3 DEF HandOff, NoFault
  <2>2. /\ x \in Jobs /\ x.kind = job[w].kind /\ x.pend = job[w].pend /\ x.st # "active"
        /\ x.st = "absent" <=> job[w].st = "absent"
    BY <1>0, OffTyped
  <2>3. job' \in [Wf -> Jobs] /\ JobsCalm
    <3>. HIDE DEF x
    <3>. QED
      BY <1>0, <2>1, <2>2, <2>5 DEF Ind, TypeOK, JobsCalm, NewsKept
  <2>4. row' \in [Event -> Events] /\ owed' \in [Wf -> BOOLEAN] /\ RowsCalm /\ faults' \in Nat
    BY <2>5 DEF Ind, TypeOK, RowsCalm
  <2>. QED
    BY <1>1, <1>3, <2>3, <2>4 DEF HandOff
<1>4. CASE GoOn
  <2>1. UNCHANGED <<job, row, turn, up, alarm, reg, arming, armq, stranded, person, owed, done, forgot, faults>>
    BY <1>0, <1>4 DEF GoOn, NoFault
  <2>2. /\ hand' \in Hands /\ hand'.pc \in {"gate", "limits"} /\ hand'.run.of = w
        /\ hand'.run.event = NoOne
        /\ job[w].kind = "gated" /\ ~hand'.run.told => ~job[w].pend
        /\ hand'.pc = "gate" => job[w].kind = "gated"
    <3>1. hand \in Hands
      BY DEF Ind, TypeOK
    <3>2. [hand EXCEPT !.pc = "limits", !.run.told = TRUE] =
            [hand EXCEPT !.pc = "limits", !.run = [hand.run EXCEPT !.told = TRUE]]
      BY <3>1 DEF Hands
    <3>3. [hand.run EXCEPT !.told = TRUE] \in Runs
      BY <1>0 DEF Runs
    <3>. QED
      BY <1>0, <1>4, <3>1, <3>2, <3>3 DEF GoOn, Hands, Runs
  <2>3. TypeOK'
    BY <2>1, <2>2 DEF Ind, TypeOK
  <2>4. HandInv'
    BY <1>0, <2>1, <2>2 DEF Ind, WorkflowInv, HandInv, Picked
  <2>5. NewsInv'
    BY <1>0, <2>1, <2>2 DEF Ind, WorkflowInv, NewsInv, NewsKept
  <2>6. RowsInv' /\ RunAlone'
    BY <1>0, <2>1, <2>2, NoOneApart DEF Ind, WorkflowInv, RowsInv, RunAlone, Starting, Journaled, Picked, Carries
  <2>9. CountsInv'
    BY <2>1, <2>2, <2>3, CountsKeep DEF TurnsCalm, DoneCalm, Queued, Carries
  <2>7. NewsKept' /\ PauseStays'
    BY <2>1 DEF Ind, NewsKept, PauseStays
  <2>8. WorkWatched'
    BY <1>0, <2>1, <2>2 DEF Ind, WorkWatched, Need, Active, Queued
  <2>. QED
    BY <2>3, <2>4, <2>5, <2>6, <2>7, <2>8, <2>9 DEF Ind, WorkflowInv
<1>. QED
  BY <1>2, <1>3, <1>4 DEF Access

\* The gate was quiet, has news, or broke.
LEMMA GateKeeps ==
    ASSUME Ind, Gate
    PROVE  Ind'
<1>. DEFINE w == hand.run.of
<1>. USE DEF person
<1>0. /\ UNCHANGED <<row, turn, up, alarm, reg, arming, stranded, person, done, forgot, faults>>
      /\ hand.pc = "gate" /\ hand \in Hands /\ hand.run \in Runs /\ w \in Wf
      /\ hand.run.event = NoOne /\ job[w] \in Jobs /\ job[w].kind = "gated"
  BY DEF Gate, Ind, WorkflowInv, TypeOK, HandInv, Hands, Picked
<1>1. CASE job' = [job EXCEPT ![w] = Quiet(@, hand.run)] /\ hand' = At("arm") /\ armq' = TRUE
           /\ owed' = owed
  <2>. DEFINE x == Quiet(job[w], hand.run)
  <2>1. /\ x \in Jobs /\ x.kind = job[w].kind /\ x.pend = job[w].pend
        /\ x.st = "absent" <=> job[w].st = "absent"
        /\ x.st = "active" => job[w].st = "active"
    BY <1>0, JobAfter, PendAfter
  <2>2. job' \in [Wf -> Jobs] /\ JobsCalm
    <3>1. job' = [job EXCEPT ![w] = x]
      BY <1>1
    <3>. HIDE DEF x
    <3>. QED
      BY <1>0, <1>1, <2>1, <3>1 DEF Ind, TypeOK, JobsCalm, NewsKept
  <2>3. TypeOK'
    BY <1>0, <1>1, <2>2, NothingTyped DEF Ind, TypeOK
  <2>4. Calm
    BY <1>0, <1>1, <2>2, NothingTyped DEF Calm, RowsCalm, TurnsCalm, HandCalm, DoneCalm, Picked
  <2>5. WorkWatched'
    BY <1>1 DEF WorkWatched
  <2>. QED
    BY <2>3, <2>4, <2>5, CalmKeeps DEF Ind
<1>2. ASSUME armq' = armq,
             hand' \in Hands, hand'.pc = "limits", hand'.run.of = w, hand'.run.event = NoOne,
             job' \in [Wf -> Jobs], owed' \in [Wf -> BOOLEAN],
             \A v \in Wf : job'[v].kind = job[v].kind /\ job'[v].st = job[v].st,
             \A v \in Wf : owed'[v] => job'[v].pend /\ job'[v].kind = "gated",
             \A v \in Wf : owed'[v] => owed[v] \/ (v = w /\ hand'.run.told),
             hand.run.told => hand'.run.told
      PROVE  Ind'
  <2>1. ~Journaled(w)
    BY <1>0 DEF Ind, RunAlone, Starting, Picked
  <2>3. TypeOK'
    BY <1>0, <1>2 DEF Ind, TypeOK
  <2>4. HandInv'
    BY <1>0, <1>2 DEF Ind, WorkflowInv, HandInv, Picked
  <2>5. NewsInv'
    <3>1. \A v \in Wf : job'[v].st = "absent" => wish'[v] = "active" /\ ~owed'[v]
      BY <1>0, <1>2 DEF Ind, WorkflowInv, NewsInv, HandInv
    <3>2. \A t \in Turn : turn[t].st # "free" => turn[t].run.of \in Wf /\ turn[t].run.of # w
      BY <2>1 DEF Ind, WorkflowInv, HandInv, Journaled
    <3>3. \A t \in Turn : turn[t].st # "free" /\ turn[t].run.event = NoOne /\ ~turn[t].run.told
            => ~owed'[turn[t].run.of]
      BY <1>2, <3>2 DEF Ind, WorkflowInv, NewsInv
    <3>4. ~hand'.run.told => ~owed'[w]
      BY <1>0, <1>2 DEF Ind, WorkflowInv, NewsInv
    <3>. QED
      BY <1>0, <1>2, <3>1, <3>3, <3>4 DEF NewsInv
  <2>6. RowsInv' /\ RunAlone'
    <3>1. \A e \in Event : row[e].st # "none" => row[e].of \in Wf
      BY DEF Ind, WorkflowInv, RowsInv, Wf
    <3>. QED
      BY <1>0, <1>2, <2>1, <3>1, NoOneApart
      DEF Ind, WorkflowInv, RowsInv, RunAlone, Starting, Journaled, Picked, Carries
  <2>9. CountsInv'
    BY <1>0, <1>2, <2>3, CountsKeep DEF TurnsCalm, DoneCalm, Queued, Carries
  <2>7. NewsKept' /\ PauseStays'
    BY <1>0, <1>2 DEF Ind, NewsKept, PauseStays
  <2>8. WorkWatched'
    <3>1. \A e \in Event : Queued(e) => row[e].of \in Wf
      BY DEF Ind, WorkflowInv, RowsInv, Wf, Queued
    <3>2. Need' => Need
      BY <1>0, <1>2, <3>1 DEF Need, Active, Queued, Wf
    <3>. QED
      BY <1>0, <1>2, <3>2 DEF Ind, WorkWatched
  <2>. QED
    BY <2>3, <2>4, <2>5, <2>6, <2>7, <2>8, <2>9 DEF Ind, WorkflowInv
<1>3. CASE /\ job' = [job EXCEPT ![w].pend = TRUE] /\ owed' = [owed EXCEPT ![w] = TRUE]
           /\ hand' = [hand EXCEPT !.pc = "limits", !.run.told = TRUE] /\ armq' = armq
  <2>1. /\ hand' \in Hands /\ hand'.pc = "limits" /\ hand'.run.of = w
        /\ hand'.run.event = NoOne /\ hand'.run.told
    <3>1. [hand EXCEPT !.pc = "limits", !.run.told = TRUE] =
            [hand EXCEPT !.pc = "limits", !.run = [hand.run EXCEPT !.told = TRUE]]
      BY <1>0 DEF Hands
    <3>2. /\ [hand.run EXCEPT !.told = TRUE] \in Runs
          /\ [hand.run EXCEPT !.told = TRUE].of = w /\ [hand.run EXCEPT !.told = TRUE].told
          /\ [hand.run EXCEPT !.told = TRUE].event = NoOne
      BY <1>0 DEF Runs
    <3>. QED
      BY <1>0, <1>3, <3>1, <3>2 DEF Hands
  <2>2. /\ job' \in [Wf -> Jobs] /\ job'[w].pend
        /\ \A v \in Wf : job'[v].kind = job[v].kind /\ job'[v].st = job[v].st
        /\ \A v \in Wf : v # w => job'[v] = job[v]
    <3>1. job' = [job EXCEPT ![w] = [job[w] EXCEPT !.pend = TRUE]]
      BY <1>3, Zenon
    <3>2. [job[w] EXCEPT !.pend = TRUE] \in Jobs
      BY <1>0, JobChanged
    <3>3. LET x == [job[w] EXCEPT !.pend = TRUE]
          IN  x.kind = job[w].kind /\ x.st = job[w].st /\ x.pend
      BY <1>0 DEF Jobs
    <3>. QED
      BY <1>0, <3>1, <3>2, <3>3 DEF Ind, TypeOK
  <2>3. /\ owed' \in [Wf -> BOOLEAN]
        /\ \A v \in Wf : v # w => owed'[v] = owed[v]
    BY <1>3 DEF Ind, TypeOK
  <2>4. \A v \in Wf : owed'[v] => job'[v].pend /\ job'[v].kind = "gated"
    BY <1>0, <2>2, <2>3 DEF Ind, WorkflowInv, NewsInv, NewsKept
  <2>. QED
    BY <1>2, <1>3, <2>1, <2>2, <2>3, <2>4
<1>4. CASE hand' = [hand EXCEPT !.pc = "limits"] /\ UNCHANGED <<job, owed, armq>>
  <2>1. /\ hand' \in Hands /\ hand'.pc = "limits" /\ hand'.run = hand.run
    BY <1>0, <1>4 DEF Hands
  <2>. QED
    BY <1>0, <1>2, <1>4, <2>1 DEF Ind, WorkflowInv, TypeOK, NewsInv, NewsKept
<1>. QED
  BY <1>1, <1>3, <1>4 DEF Gate

\* Starting the turn of a scheduled run keeps the invariant.
LEMMA RunKeeps ==
    ASSUME Ind, RunTurn
    PROVE  Ind'
BY StartKeeps DEF RunTurn, person, ends

---------------------------------------------------------------------------
(* The turns                                                               *)

\* What the end of a turn's run needs and does.
LEMMA TurnFinishes ==
    ASSUME Ind, NEW t \in Turn, turn[t].st # "free", NEW how \in {"ok", "err"},
           Finish(turn[t].run, how)
    PROVE  /\ job' \in [Wf -> Jobs] /\ row' \in [Event -> Events] /\ owed' \in [Wf -> BOOLEAN]
           /\ JobsCalm /\ RowsCalm
           /\ \A e \in Event : Carries(turn[t].run, e) => row'[e].st = "deleted"
<1>. DEFINE run == turn[t].run
<1>1. run \in Runs /\ run.of \in Wf
  BY DEF Ind, WorkflowInv, TypeOK, HandInv, Turns
<1>2. run.event = NoOne /\ ~run.told => ~owed[run.of]
  BY DEF Ind, WorkflowInv, NewsInv
<1>3. \A e \in Event : Carries(run, e) => row[e].st \in {"started", "deleted"}
  BY DEF Ind, WorkflowInv, RowsInv
<1>. HIDE DEF run
<1>4. /\ job' \in [Wf -> Jobs] /\ row' \in [Event -> Events] /\ owed' \in [Wf -> BOOLEAN]
      /\ JobsCalm /\ RowsCalm
      /\ \A e \in Event : Carries(run, e) => row'[e].st = "deleted"
  BY <1>1, <1>2, <1>3, FinishCalm DEF run
<1>. QED
  BY <1>4 DEF run

\* A turn whose run is booked goes.
LEMMA BookedKeeps ==
    ASSUME Ind, NEW t \in Turn, turn[t].st # "free", NEW how \in {"ok", "err"},
           Finish(turn[t].run, how), turn' = [turn EXCEPT ![t] = NoTurn],
           hand' = IF WaitedFor(t) THEN AfterRun(turn[t].run) ELSE hand,
           armq' = TRUE, UNCHANGED <<up, alarm, reg, arming, stranded, person>>,
           done' \in [Event -> Nat], forgot' \in [Event -> Nat], faults' \in Nat
    PROVE  /\ TypeOK' /\ JobsCalm /\ RowsCalm /\ TurnsCalm /\ HandCalm /\ WorkWatched'
           /\ turn'[t].st = "free" /\ \A u \in Turn \ {t} : turn'[u] = turn[u]
           /\ \A e \in Event : Carries(turn[t].run, e) => row'[e].st = "deleted"
<1>. USE DEF person
<1>1. /\ job' \in [Wf -> Jobs] /\ row' \in [Event -> Events] /\ owed' \in [Wf -> BOOLEAN]
      /\ JobsCalm /\ RowsCalm
      /\ \A e \in Event : Carries(turn[t].run, e) => row'[e].st = "deleted"
  BY TurnFinishes
<1>2. /\ turn' \in [Turn -> Turns] /\ turn'[t].st = "free"
      /\ \A u \in Turn \ {t} : turn'[u] = turn[u]
  BY NothingTyped DEF Ind, TypeOK
<1>3. hand' \in Hands /\ HandCalm
  BY NothingTyped DEF Ind, TypeOK, AfterRun, HandCalm, Picked
<1>4. TypeOK'
  BY <1>1, <1>2, <1>3 DEF Ind, TypeOK
<1>5. TurnsCalm
  BY <1>2 DEF TurnsCalm
<1>6. WorkWatched'
  BY DEF WorkWatched
<1>. QED
  BY <1>1, <1>2, <1>3, <1>4, <1>5, <1>6

\* A turn ends after its card closed: its event leaves the queue.
LEMMA TurnEndsKeeps ==
    ASSUME Ind, NEW t \in Turn, TurnEnds(t)
    PROVE  Ind'
<1>1. /\ turn[t].st = "closed" /\ UNCHANGED <<up, person, done, forgot, faults>>
      /\ done' \in [Event -> Nat] /\ forgot' \in [Event -> Nat] /\ faults' \in Nat
  BY DEF TurnEnds, Ind, TypeOK
<1>2. /\ TypeOK' /\ JobsCalm /\ RowsCalm /\ TurnsCalm /\ HandCalm /\ WorkWatched'
      /\ turn'[t].st = "free" /\ \A u \in Turn \ {t} : turn'[u] = turn[u]
      /\ \A e \in Event : Carries(turn[t].run, e) => row'[e].st = "deleted"
  BY <1>1, BookedKeeps DEF TurnEnds
<1>3. Calm
  BY <1>1, <1>2, NoOneApart DEF Calm, DoneCalm, Closing, Carries, person
<1>. QED
  BY <1>2, <1>3, CalmKeeps DEF Ind

\* A card closes: its run has come to its end, and waits for its bookkeeping.
LEMMA CardClosesKeeps ==
    ASSUME Ind, NEW t \in Turn, CardCloses(t)
    PROVE  Ind'
<1>. USE DEF wakes, person
<1>1. /\ up /\ turn[t].st = "live" /\ turn[t] \in Turns
      /\ done' = Ended(turn[t].run)
      /\ UNCHANGED <<job, row, hand, wakes, person, owed, forgot, faults>>
  BY DEF CardCloses, Ind, TypeOK
<1>2. /\ turn' \in [Turn -> Turns]
      /\ turn'[t].st = "closed" /\ turn'[t].run = turn[t].run
      /\ \A u \in Turn \ {t} : turn'[u] = turn[u]
  <2>1. turn' = [turn EXCEPT ![t] = [turn[t] EXCEPT !.st = "closed"]]
    BY Zenon DEF CardCloses
  <2>2. LET x == [turn[t] EXCEPT !.st = "closed"]
        IN  x \in Turns /\ x.st = "closed" /\ x.run = turn[t].run
    BY <1>1, TurnChanged
  <2>. QED
    BY <2>1, <2>2 DEF Ind, TypeOK
<1>3. \A e \in Event : done'[e] = IF Carries(turn[t].run, e) THEN done[e] + 1 ELSE done[e]
  BY <1>1, EndedTyped DEF Ind, TypeOK, Turns
<1>4. done' \in [Event -> Nat]
  BY <1>1, EndedTyped DEF Ind, TypeOK, Turns
<1>5. TypeOK'
  BY <1>1, <1>2, <1>4 DEF Ind, TypeOK
<1>6. JobsCalm /\ RowsCalm /\ TurnsCalm /\ HandCalm
  BY <1>1, <1>2 DEF Ind, NewsKept, JobsCalm, RowsCalm, TurnsCalm, HandCalm
<1>7. WorkWatched'
  BY <1>1, <1>5, <1>6, LessWork DEF Ind, WorkWatched
<1>8. CountsInv'
  <2>0. \A e \in Event : done[e] \in Nat /\ forgot[e] \in Nat /\ row[e].tries \in Nat
    BY DEF Ind, TypeOK, Events
  <2>1. ASSUME NEW e \in Event, Carries(turn[t].run, e)
        PROVE  /\ done[e] = forgot[e] /\ done[e] < row[e].tries
               /\ done'[e] = forgot[e] + 1 /\ done'[e] <= row[e].tries
               /\ turn'[t].st = "closed" /\ turn'[t].run.event = e
               /\ \A u \in Turn : turn'[u].st # "free" /\ Carries(turn'[u].run, e) => u = t
               /\ ~(hand.pc \in Picked /\ Carries(hand.run, e))
    <3>1. done[e] = forgot[e] /\ done[e] < row[e].tries
      BY <1>1, <2>1 DEF Ind, WorkflowInv, CountsInv
    <3>2. done'[e] = forgot[e] + 1 /\ done'[e] <= row[e].tries
      BY <1>3, <2>0, <2>1, <3>1
    <3>3. /\ \A u \in Turn : turn[u].st # "free" /\ Carries(turn[u].run, e) => u = t
          /\ ~(hand.pc \in Picked /\ Carries(hand.run, e))
      BY <1>1, <2>1, OneCarrier
    <3>. QED
      BY <1>2, <2>1, <3>1, <3>2, <3>3 DEF Carries
  <2>2. \A e \in Event : ~Carries(turn[t].run, e) => done'[e] = done[e]
    BY <1>3
  <2>3. \A e \in Event : /\ forgot[e] <= done'[e] /\ done'[e] <= forgot[e] + 1
                         /\ done'[e] <= row[e].tries /\ row[e].tries <= EventTries
    BY <2>0, <2>1, <2>2 DEF Ind, WorkflowInv, CountsInv
  <2>4. ASSUME NEW u \in Turn, NEW e \in Event, turn'[u].st # "free", Carries(turn'[u].run, e)
        PROVE  IF turn'[u].st = "closed" THEN done'[e] = forgot[e] + 1
               ELSE done'[e] = forgot[e] /\ (turn'[u].st # "shut" => done'[e] < row[e].tries)
    <3>1. CASE Carries(turn[t].run, e)
      BY <2>1, <2>4, <3>1
    <3>2. CASE ~Carries(turn[t].run, e)
      BY <1>2, <2>2, <2>4, <3>2 DEF Ind, WorkflowInv, CountsInv
    <3>. QED
      BY <3>1, <3>2
  <2>5. \A e \in Event : hand.pc \in Picked /\ Carries(hand.run, e)
          => done'[e] = forgot[e] /\ done'[e] < row[e].tries
    BY <2>1, <2>2 DEF Ind, WorkflowInv, CountsInv
  <2>6. ASSUME NEW e \in Event, done'[e] = forgot[e] + 1, Queued(e)
        PROVE  \E u \in Turn : turn'[u].st = "closed" /\ turn'[u].run.event = e
    <3>1. CASE Carries(turn[t].run, e)
      BY <2>1, <3>1
    <3>2. CASE ~Carries(turn[t].run, e)
      <4>1. PICK u \in Turn : Closing(u, e)
        BY <2>2, <2>6, <3>2 DEF Ind, WorkflowInv, CountsInv
      <4>. QED
        BY <1>1, <1>2, <4>1 DEF Closing
    <3>. QED
      BY <3>1, <3>2
  <2>. QED
    BY <1>1, <2>3, <2>4, <2>5, <2>6 DEF CountsInv, Queued, Closing
<1>. QED
  BY <1>1, <1>5, <1>6, <1>7, <1>8, TablesKeep DEF Ind, WorkflowInv

\* A turn throws: a scheduled one that is waited for leaves its lease, another's run is
\* booked as failed.
LEMMA ThrowsKeeps ==
    ASSUME Ind, NEW t \in Turn, TurnThrows(t)
    PROVE  Ind'
<1>. DEFINE run == turn[t].run
<1>1. /\ turn[t].st \in {"live", "closed"} /\ turn' = [turn EXCEPT ![t] = NoTurn]
      /\ done' = IF turn[t].st = "live" THEN Ended(run) ELSE done
      /\ UNCHANGED <<up, alarm, reg, arming, stranded, person, forgot>>
      /\ faults' \in Nat /\ forgot' \in [Event -> Nat] /\ turn[t].st # "free"
  BY DEF TurnThrows, Fault, Ind, TypeOK
<1>2. done' \in [Event -> Nat]
  BY <1>1, EndedTyped DEF Ind, TypeOK, Turns
<1>3. CASE WaitedFor(t) /\ run.event = NoOne
  <2>1. hand' = Idle /\ UNCHANGED <<job, row, owed, armq>> /\ done' = done
    BY <1>1, <1>3 DEF TurnThrows, Ended
  <2>2. TypeOK'
    BY <1>1, <2>1, NothingTyped DEF Ind, TypeOK, person
  <2>3. Calm
    BY <1>1, <1>3, <2>1, NothingTyped, NoOneApart
    DEF Ind, TypeOK, NewsKept, Calm, JobsCalm, RowsCalm, TurnsCalm, HandCalm, DoneCalm, Picked, Closing, person
  <2>4. WorkWatched'
    BY <1>1, <1>3, <2>1, <2>2, <2>3, LessWork, NothingTyped DEF Ind, WorkWatched, Calm, WaitedFor
  <2>. QED
    BY <2>2, <2>3, <2>4, CalmKeeps DEF Ind
<1>4. CASE ~(WaitedFor(t) /\ run.event = NoOne)
  <2>1. /\ Finish(run, "err") /\ armq' = TRUE
        /\ hand' = IF WaitedFor(t) THEN AfterRun(run) ELSE hand
    BY <1>4 DEF TurnThrows, AfterRun
  <2>2. /\ TypeOK' /\ JobsCalm /\ RowsCalm /\ TurnsCalm /\ HandCalm /\ WorkWatched'
        /\ turn'[t].st = "free" /\ \A u \in Turn \ {t} : turn'[u] = turn[u]
        /\ \A e \in Event : Carries(run, e) => row'[e].st = "deleted"
    BY <1>1, <1>2, <2>1, BookedKeeps
  <2>3. CASE done' = done
    <3>1. Calm
      BY <1>1, <2>2, <2>3, NoOneApart DEF Calm, DoneCalm, Closing, Carries, person
    <3>. QED
      BY <2>2, <3>1, CalmKeeps DEF Ind
  <2>4. CASE done' # done
    <3>0. turn[t].st = "live" /\ run.event \in Event /\ run.event # NoOne
          /\ done' = [done EXCEPT ![run.event] = @ + 1]
      BY <1>1, <2>4 DEF Ended, Ind, TypeOK, Turns, Runs
    <3>. DEFINE d == run.event
    <3>1. /\ Carries(run, d) /\ done[d] = forgot[d] /\ done[d] < row[d].tries
          /\ \A u \in Turn : turn[u].st # "free" /\ Carries(turn[u].run, d) => u = t
          /\ ~(hand.pc \in Picked /\ Carries(hand.run, d))
      <4>1. Carries(run, d)
        BY <3>0 DEF Carries
      <4>2. done[d] = forgot[d] /\ done[d] < row[d].tries
        BY <3>0, <4>1 DEF Ind, WorkflowInv, CountsInv
      <4>. QED
        BY <3>0, <4>1, <4>2, OneCarrier
    <3>2. \A e \in Event : done[e] \in Nat /\ forgot[e] \in Nat /\ row[e].tries \in Nat
      BY DEF Ind, TypeOK, Events
    <3>3. /\ done'[d] = forgot'[d] + 1 /\ done'[d] <= row'[d].tries /\ row'[d].st = "deleted"
          /\ \A e \in Event \ {d} : done'[e] = done[e]
      BY <1>1, <2>2, <3>0, <3>1, <3>2 DEF Ind, TypeOK, RowsCalm
    <3>4. \A u \in Turn, e \in Event : turn'[u].st # "free" /\ Carries(turn'[u].run, e)
            => e # d /\ u # t /\ turn'[u] = turn[u]
      BY <2>2, <3>1
    <3>5. \A e \in Event : hand'.pc \in Picked /\ Carries(hand'.run, e)
            => e # d /\ hand.pc \in Picked /\ Carries(hand.run, e)
      BY <2>2, <3>1 DEF HandCalm
    <3>. HIDE DEF d
    <3>6. \A e \in Event : /\ forgot'[e] <= done'[e] /\ done'[e] <= forgot'[e] + 1
                           /\ done'[e] <= row'[e].tries /\ row'[e].tries <= EventTries
      BY <1>1, <2>2, <3>2, <3>3 DEF Ind, WorkflowInv, CountsInv, RowsCalm
    <3>7. \A u \in Turn, e \in Event : turn'[u].st # "free" /\ Carries(turn'[u].run, e)
            => IF turn'[u].st = "closed" THEN done'[e] = forgot'[e] + 1
               ELSE done'[e] = forgot'[e] /\ (turn'[u].st # "shut" => done'[e] < row'[e].tries)
      BY <1>1, <2>2, <3>3, <3>4 DEF Ind, WorkflowInv, CountsInv, RowsCalm
    <3>8. \A e \in Event : hand'.pc \in Picked /\ Carries(hand'.run, e)
            => done'[e] = forgot'[e] /\ done'[e] < row'[e].tries
      BY <1>1, <2>2, <3>3, <3>5 DEF Ind, WorkflowInv, CountsInv, RowsCalm
    <3>9. ASSUME NEW e \in Event, done'[e] = forgot'[e] + 1, row'[e].st \in {"waiting", "started"}
          PROVE  \E u \in Turn : turn'[u].st = "closed" /\ turn'[u].run.event = e
      <4>1. e # d /\ done[e] = forgot[e] + 1 /\ Queued(e)
        BY <1>1, <2>2, <3>3, <3>9 DEF RowsCalm, Queued
      <4>2. PICK u \in Turn : Closing(u, e)
        BY <4>1 DEF Ind, WorkflowInv, CountsInv
      <4>3. u # t
        BY <3>0, <4>2 DEF Closing
      <4>. QED
        BY <2>2, <4>2, <4>3 DEF Closing
    <3>10. CountsInv'
      <4>1. ~up' => \A u \in Turn : turn'[u].st # "closed"
        BY <1>1, <2>2 DEF Ind, WorkflowInv, CountsInv
      <4>. QED
        BY <3>6, <3>7, <3>8, <3>9, <4>1 DEF CountsInv, Queued, Closing
    <3>. QED
      BY <1>1, <2>2, <3>10, TablesKeep DEF Ind, WorkflowInv, person
  <2>. QED
    BY <2>3, <2>4
<1>. QED
  BY <1>3, <1>4

\* A parked turn keeps its run; the alarm is set for it.
LEMMA ParksKeeps ==
    ASSUME Ind, NEW t \in Turn, TurnParks(t)
    PROVE  Ind'
<1>. USE DEF person
<1>1. /\ turn[t].st = "live" /\ alarm' = TRUE /\ faults' = faults + 1
      /\ turn' = [turn EXCEPT ![t] = [turn[t] EXCEPT !.st = "parked"]]
      /\ UNCHANGED <<up, reg, arming, stranded, person, done, forgot>>
  <2>1. turn' = [turn EXCEPT ![t].st = "parked"]
    BY DEF TurnParks
  <2>2. turn' = [turn EXCEPT ![t] = [turn[t] EXCEPT !.st = "parked"]]
    BY <2>1, Zenon
  <2>. QED
    BY <2>2 DEF TurnParks, Fault
<1>2. /\ job' \in [Wf -> Jobs] /\ row' \in [Event -> Events] /\ owed' \in [Wf -> BOOLEAN]
      /\ JobsCalm /\ RowsCalm
  <2>1. CASE WaitedFor(t) /\ turn[t].run.event # NoOne
    BY <1>1, <2>1, TurnFinishes DEF TurnParks
  <2>2. CASE ~(WaitedFor(t) /\ turn[t].run.event # NoOne)
    BY <2>2 DEF TurnParks, Ind, TypeOK, JobsCalm, RowsCalm, NewsKept
  <2>. QED
    BY <2>1, <2>2
<1>3. hand' \in Hands /\ HandCalm /\ armq' \in BOOLEAN
  <2>1. CASE WaitedFor(t) /\ turn[t].run.event # NoOne
    BY <2>1, NothingTyped DEF TurnParks, HandCalm, Picked
  <2>2. CASE ~(WaitedFor(t) /\ turn[t].run.event # NoOne)
    <3>1. hand' \in {hand, Idle} /\ armq' = armq
      BY <2>2 DEF TurnParks
    <3>. QED
      BY <3>1, NothingTyped DEF Ind, TypeOK, HandCalm, Picked
  <2>. QED
    BY <2>1, <2>2
<1>4. turn' \in [Turn -> Turns] /\ TurnsCalm /\ DoneCalm
  <2>1. turn[t] \in Turns
    BY DEF Ind, TypeOK
  <2>2. /\ [turn[t] EXCEPT !.st = "parked"] \in Turns
        /\ [turn[t] EXCEPT !.st = "parked"].run = turn[t].run
        /\ [turn[t] EXCEPT !.st = "parked"].st = "parked"
    BY <2>1, TurnChanged
  <2>. QED
    BY <1>1, <2>2 DEF Ind, TypeOK, TurnsCalm, DoneCalm, Pending, Closing
<1>5. TypeOK'
  BY <1>1, <1>2, <1>3, <1>4 DEF Ind, TypeOK
<1>6. Calm
  BY <1>1, <1>2, <1>3, <1>4 DEF Calm
<1>7. WorkWatched'
  BY <1>1 DEF WorkWatched
<1>. QED
  BY <1>5, <1>6, <1>7, CalmKeeps DEF Ind

---------------------------------------------------------------------------
(* The person, the helper and the app                                      *)

\* A new workflow: nothing is known of it, so nothing speaks of it.
LEMMA AddKeeps ==
    ASSUME Ind, NEW w \in Wf, NEW kind \in Kinds, NEW max \in Limits, AddWorkflow(w, kind, max)
    PROVE  Ind'
<1>1. PICK x \in Jobs : job' = [job EXCEPT ![w] = x] /\ x.st = "active"
  <2>. DEFINE x == [NewJob EXCEPT !.kind = kind, !.st = "active",
                                  !.max = IF kind = "followup" THEN 1 ELSE max]
  <2>1. max \in Nat
    BY NumbersAssumption
  <2>2. x \in Jobs /\ x.st = "active"
    BY <2>1 DEF NewJob, Jobs
  <2>3. job' = [job EXCEPT ![w] = x]
    BY DEF AddWorkflow
  <2>. QED
    BY <2>2, <2>3
<1>2. /\ job[w].st = "absent" /\ armq' = (armq \/ w \in Timed)
      /\ UNCHANGED <<row, turn, hand, up, alarm, reg, arming, stranded, ask, wish, ticks, asks,
                     owed, done, forgot, faults>>
  BY DEF AddWorkflow, person, ends
<1>3. /\ job' \in [Wf -> Jobs] /\ job'[w].st = "active"
      /\ \A v \in Wf \ {w} : job'[v] = job[v]
  BY <1>1 DEF Ind, TypeOK
<1>4. \A e \in Event : row[e].st # "none" => row[e].of \in OnEvent /\ row[e].of \in Wf /\ row[e].of # w
  BY <1>2 DEF Ind, WorkflowInv, RowsInv, Wf
<1>5. TypeOK'
  BY <1>2, <1>3 DEF Ind, TypeOK
<1>6. HandInv'
  BY <1>2, <1>3 DEF Ind, WorkflowInv, HandInv, Picked
<1>7. NewsInv'
  BY <1>2, <1>3 DEF Ind, WorkflowInv, NewsInv
<1>8. RowsInv'
  BY <1>2, <1>3, <1>4 DEF Ind, WorkflowInv, RowsInv
<1>9. RunAlone' /\ CountsInv'
  <2>1. CountsInv'
    BY <1>2, <1>5, CountsKeep DEF TurnsCalm, DoneCalm, Queued
  <2>. QED
    BY <1>2, <2>1 DEF Ind, RunAlone, Starting, Journaled
<1>10. NewsKept' /\ PauseStays'
  BY <1>2, <1>3 DEF Ind, WorkflowInv, NewsInv, NewsKept, PauseStays
<1>11. WorkWatched'
  <2>1. w \notin Timed /\ Need' => Need
    BY <1>2, <1>3, <1>4 DEF Need, Active, Queued, Wf
  <2>. QED
    BY <1>2, <2>1 DEF Ind, WorkWatched
<1>. QED
  BY <1>5, <1>6, <1>7, <1>8, <1>9, <1>10, <1>11 DEF Ind, WorkflowInv

\* A person's word is the status.
LEMMA StatusSetKeeps ==
    ASSUME Ind, NEW w \in Wf, NEW st \in Statuses, StatusSet(w, st),
           UNCHANGED <<row, turn, hand, up, alarm, reg, arming, ticks, stranded, owed, done, forgot, faults>>,
           asks' \in Nat, ask' \in {ask, NoAsk}
    PROVE  Ind'
<1>1. job' \in [Wf -> Jobs]
      /\ job'[w].st = st /\ job'[w].kind = job[w].kind /\ job'[w].pend = job[w].pend
      /\ \A v \in Wf \ {w} : job'[v] = job[v]
  <2>1. PICK b \in BOOLEAN : job' = [job EXCEPT ![w].st = st, ![w].fails = 0, ![w].due = b]
    <3>1. job[w].due \in BOOLEAN
      BY DEF Ind, TypeOK, Jobs
    <3>2. (job[w].due /\ (st # "active" \/ w \in OnEvent)) \in BOOLEAN
      BY Zenon
    <3>. QED
      BY <3>2 DEF StatusSet
  <2>2. job' = [job EXCEPT ![w] = [job[w] EXCEPT !.st = st, !.fails = 0, !.due = b]]
    BY <2>1 DEF Ind, TypeOK, Jobs
  <2>3. job[w] \in Jobs
    BY DEF Ind, TypeOK
  <2>4. [job[w] EXCEPT !.st = st, !.fails = 0, !.due = b] \in Jobs
    BY <2>3, JobChanged
  <2>5. LET x == [job[w] EXCEPT !.st = st, !.fails = 0, !.due = b]
        IN  x.st = st /\ x.kind = job[w].kind /\ x.pend = job[w].pend
    BY <2>3 DEF Jobs
  <2>. QED
    BY <2>2, <2>4, <2>5 DEF Ind, TypeOK
<1>2. /\ wish' \in [Wf -> Statuses] /\ wish'[w] = st /\ \A v \in Wf \ {w} : wish'[v] = wish[v]
      /\ armq' = TRUE
  BY DEF StatusSet, Ind, TypeOK
<1>3. TypeOK'
  BY <1>1, <1>2 DEF Ind, TypeOK
<1>4. HandInv' /\ NewsInv'
  BY <1>1, <1>2 DEF Ind, WorkflowInv, HandInv, NewsInv, Picked, Statuses
<1>5. RowsInv'
  <2>1. \A e \in Event : row[e].st # "none" => row[e].of \in Wf
    BY DEF Ind, WorkflowInv, RowsInv, Wf
  <2>. QED
    BY <1>1, <2>1 DEF Ind, WorkflowInv, RowsInv, Statuses
<1>6. RunAlone' /\ CountsInv'
  <2>1. CountsInv'
    BY <1>3, CountsKeep DEF TurnsCalm, DoneCalm, Queued
  <2>. QED
    BY <2>1 DEF Ind, RunAlone, Starting, Journaled
<1>7. NewsKept' /\ PauseStays'
  BY <1>1, <1>2 DEF Ind, NewsKept, PauseStays
<1>8. WorkWatched'
  BY <1>2 DEF WorkWatched
<1>. QED
  BY <1>3, <1>4, <1>5, <1>6, <1>7, <1>8 DEF Ind, WorkflowInv

\* A status change of a scheduled workflow keeps the invariant.
LEMMA StatusKeeps ==
    ASSUME Ind, NEW w \in Wf, NEW st \in Statuses, SetWorkflowStatus(w, st)
    PROVE  Ind'
<1>1. asks' \in Nat
  BY DEF SetWorkflowStatus, Outside, Ind, TypeOK
<1>. QED
  BY <1>1, StatusSetKeeps DEF SetWorkflowStatus, ends

\* Composio's answer to a status change keeps the invariant.
LEMMA AnswersKeep ==
    ASSUME Ind, ComposioAnswers
    PROVE  Ind'
<1>1. /\ ask.of \in OnEvent /\ ask.of \in Wf /\ ask.st \in Statuses /\ ask' = NoAsk
      /\ UNCHANGED <<row, turn, hand, up, alarm, reg, arming, ticks, asks, stranded, owed, done, forgot, faults>>
      /\ asks' \in Nat
  BY DEF ComposioAnswers, ends, Ind, TypeOK, Wf
<1>2. CASE StatusSet(ask.of, ask.st)
  BY <1>1, <1>2, StatusSetKeeps
<1>3. CASE UNCHANGED <<job, wish, armq>>
  <2>1. TypeOK'
    BY <1>1, <1>3 DEF Ind, TypeOK
  <2>2. Calm
    BY <1>1, <1>3 DEF Ind, NewsKept, Calm, JobsCalm, RowsCalm, TurnsCalm, HandCalm, DoneCalm
  <2>3. WorkWatched'
    BY <1>1, <1>3, <2>1, <2>2, LessWork DEF Ind, WorkWatched, Calm
  <2>. QED
    BY <2>1, <2>2, <2>3, CalmKeeps DEF Ind
<1>. QED
  BY <1>2, <1>3 DEF ComposioAnswers

\* Events that are deleted were queued.
LEMMA DeletedCalm ==
    ASSUME Ind, \A e \in Event : row'[e] = row[e] \/ (Queued(e) /\ row'[e] = Deleted(row[e])),
           row' = [e \in Event |-> row'[e]]
    PROVE  row' \in [Event -> Events] /\ RowsCalm
<1>1. \A e \in Event : row[e] \in Events
  BY DEF Ind, TypeOK
<1>2. \A e \in Event : /\ Deleted(row[e]) \in Events /\ Deleted(row[e]).of = row[e].of
                       /\ Deleted(row[e]).tries = row[e].tries /\ Deleted(row[e]).st = "deleted"
  BY <1>1, RowChanged
<1>3. \A e \in Event : row'[e] \in Events
  BY <1>1, <1>2
<1>. QED
  BY <1>2, <1>3 DEF RowsCalm, Queued

\* Asking Composio for a status change, which drops waiting events, keeps the invariant.
LEMMA EventStatusKeeps ==
    ASSUME Ind, NEW w \in OnEvent, NEW st \in Statuses, EventStatus(w, st)
    PROVE  Ind'
<1>. USE DEF wakes
<1>1. /\ ask' = [of |-> w, st |-> st] /\ asks' = asks + 1
      /\ UNCHANGED <<job, turn, hand, wakes, wish, ticks, owed, done, forgot, faults>>
  BY DEF EventStatus, Outside, ends
<1>2. row' \in [Event -> Events] /\ RowsCalm
  BY DeletedCalm DEF EventStatus
<1>3. TypeOK'
  BY <1>1, <1>2 DEF Ind, TypeOK
<1>4. Calm
  BY <1>1, <1>2 DEF Ind, NewsKept, Calm, JobsCalm, TurnsCalm, HandCalm, DoneCalm
<1>5. WorkWatched'
  BY <1>1, <1>3, <1>4, LessWork DEF Ind, WorkWatched, Calm
<1>. QED
  BY <1>3, <1>4, <1>5, CalmKeeps DEF Ind

\* The webhook: an event of an active workflow enters the queue untried.
LEMMA AppEventKeeps ==
    ASSUME Ind, NEW e \in Event, NEW w \in OnEvent, AppEvent(e, w)
    PROVE  Ind'
<1>1. /\ row[e].st = "none" /\ job[w].st = "active"
      /\ row' = [row EXCEPT ![e] = [row[e] EXCEPT !.st = "checked", !.of = w]]
      /\ UNCHANGED <<job, turn, hand, wakes, person, owed, done, forgot, faults>>
  <2>1. row' = [row EXCEPT ![e] = [row[e] EXCEPT !.st = "checked", !.of = w]]
    BY DEF AppEvent, Ind, TypeOK, Events
  <2>. QED
    BY <2>1 DEF AppEvent, Active, ends
<1>2. /\ row' \in [Event -> Events]
      /\ row'[e].st = "checked" /\ row'[e].of = w /\ row'[e].tries = row[e].tries
      /\ \A x \in Event \ {e} : row'[x] = row[x]
  <2>1. row[e] \in Events
    BY DEF Ind, TypeOK
  <2>2. [row[e] EXCEPT !.st = "checked", !.of = w] \in Events
    BY <2>1, RowChanged
  <2>3. LET r == [row[e] EXCEPT !.st = "checked", !.of = w]
        IN  r.st = "checked" /\ r.of = w /\ r.tries = row[e].tries
    BY <2>1 DEF Events
  <2>. QED
    BY <1>1, <2>2, <2>3 DEF Ind, TypeOK
<1>. USE DEF wakes, person
<1>3. TypeOK'
  BY <1>1, <1>2 DEF Ind, TypeOK
<1>4. HandInv' /\ NewsInv'
  BY <1>1 DEF Ind, WorkflowInv, HandInv, NewsInv
<1>5. RowsInv'
  BY <1>1, <1>2 DEF Ind, WorkflowInv, RowsInv
<1>6. RunAlone' /\ NewsKept' /\ PauseStays'
  BY <1>1 DEF Ind, RunAlone, Starting, Journaled, NewsKept, PauseStays
<1>7. CountsInv'
  <2>1. \A x \in Event : row'[x].tries = row[x].tries
    BY <1>2
  <2>2. \A x \in Event : row'[x].st \in {"waiting", "started"} => Queued(x)
    BY <1>2 DEF Queued
  <2>. QED
    BY <1>1, <1>3, <2>1, <2>2, CountsKeep DEF TurnsCalm, DoneCalm
<1>8. WorkWatched'
  <2>1. Need' => Need
    BY <1>1, <1>2 DEF Need, Active, Queued
  <2>. QED
    BY <1>1, <2>1 DEF Ind, WorkWatched
<1>. QED
  BY <1>3, <1>4, <1>5, <1>6, <1>7, <1>8 DEF Ind, WorkflowInv

\* A webhook's event that enters the queue keeps the invariant.
LEMMA QueuedKeeps ==
    ASSUME Ind, NEW e \in Event, AppEventQueued(e)
    PROVE  Ind'
<1>1. /\ row[e].st = "checked" /\ armq' = TRUE
      /\ row' = [row EXCEPT ![e] = [row[e] EXCEPT !.st = "waiting"]]
      /\ UNCHANGED <<job, turn, hand, up, alarm, reg, arming, stranded, person, owed, done, forgot, faults>>
  <2>1. row' = [row EXCEPT ![e] = [row[e] EXCEPT !.st = "waiting"]]
    BY DEF AppEventQueued, Ind, TypeOK, Events
  <2>. QED
    BY <2>1 DEF AppEventQueued, ends
<1>2. /\ row' \in [Event -> Events]
      /\ row'[e].st = "waiting" /\ row'[e].of = row[e].of /\ row'[e].tries = row[e].tries
      /\ \A x \in Event \ {e} : row'[x] = row[x]
  <2>1. row[e] \in Events
    BY DEF Ind, TypeOK
  <2>2. [row[e] EXCEPT !.st = "waiting"] \in Events
    BY <2>1, RowChanged
  <2>3. LET r == [row[e] EXCEPT !.st = "waiting"]
        IN  r.st = "waiting" /\ r.of = row[e].of /\ r.tries = row[e].tries
    BY <2>1 DEF Events
  <2>. QED
    BY <1>1, <2>2, <2>3 DEF Ind, TypeOK
<1>. USE DEF person
<1>3. TypeOK'
  BY <1>1, <1>2 DEF Ind, TypeOK
<1>4. HandInv' /\ NewsInv'
  BY <1>1 DEF Ind, WorkflowInv, HandInv, NewsInv
<1>5. RowsInv'
  BY <1>1, <1>2 DEF Ind, WorkflowInv, RowsInv
<1>6. RunAlone' /\ NewsKept' /\ PauseStays'
  BY <1>1 DEF Ind, RunAlone, Starting, Journaled, NewsKept, PauseStays
<1>7. CountsInv'
  <2>1. \A x \in Event : row'[x].tries = row[x].tries
    BY <1>2
  <2>2. \A x \in Event : row'[x].st \in {"waiting", "started"} => Queued(x) \/ row[x].st = "checked"
    BY <1>1, <1>2 DEF Queued
  <2>. QED
    BY <1>1, <1>3, <2>1, <2>2, CountsKeep DEF TurnsCalm, DoneCalm
<1>8. WorkWatched'
  BY <1>1 DEF WorkWatched
<1>. QED
  BY <1>3, <1>4, <1>5, <1>6, <1>7, <1>8 DEF Ind, WorkflowInv

\* The trigger is gone or off: the workflow ends or pauses.
LEMMA LostKeeps ==
    ASSUME Ind, NEW w \in OnEvent, NEW gone \in BOOLEAN, TriggerLost(w, gone)
    PROVE  Ind'
<1>1. /\ job[w].st # "absent" /\ armq' = TRUE /\ asks' = asks + 1 /\ w \in Wf
      /\ UNCHANGED <<turn, hand, up, alarm, reg, arming, ask, wish, ticks, stranded, owed, done, forgot, faults>>
  BY DEF TriggerLost, Outside, Wf, ends
<1>2. row' \in [Event -> Events] /\ RowsCalm
  BY DeletedCalm DEF TriggerLost
<1>3. PICK x \in Jobs : /\ job' = [job EXCEPT ![w] = x] /\ x.kind = job[w].kind /\ x.pend = job[w].pend
                       /\ x.st # "absent" /\ x.st # "active"
  <2>1. job[w] \in Jobs
    BY <1>1 DEF Ind, TypeOK
  <2>2. CASE gone
    <3>1. job' = [job EXCEPT ![w] = [job[w] EXCEPT !.st = "complete", !.lease = "free"]]
      BY <2>2, <1>1 DEF TriggerLost, Ind, TypeOK, Jobs
    <3>2. LET x == [job[w] EXCEPT !.st = "complete", !.lease = "free"]
          IN  x.st = "complete" /\ x.kind = job[w].kind /\ x.pend = job[w].pend
      BY <2>1 DEF Jobs
    <3>. QED
      BY <2>1, <3>1, <3>2, JobChanged
  <2>3. CASE ~gone /\ job[w].st = "active"
    <3>1. job' = [job EXCEPT ![w] = [job[w] EXCEPT !.st = "paused"]]
      BY <2>3 DEF TriggerLost
    <3>2. LET x == [job[w] EXCEPT !.st = "paused"]
          IN  x.st = "paused" /\ x.kind = job[w].kind /\ x.pend = job[w].pend
      BY <2>1 DEF Jobs
    <3>. QED
      BY <2>1, <3>1, <3>2, JobChanged DEF Statuses
  <2>4. CASE ~gone /\ job[w].st # "active"
    <3>1. job' = [job EXCEPT ![w] = job[w]]
      BY <1>1, <2>1, <2>4 DEF TriggerLost, Jobs, Ind, TypeOK
    <3>. QED
      BY <1>1, <2>1, <2>4, <3>1
  <2>. QED
    BY <2>2, <2>3, <2>4
<1>4. TypeOK'
  BY <1>1, <1>2, <1>3 DEF Ind, TypeOK
<1>5. Calm
  BY <1>1, <1>2, <1>3 DEF Ind, TypeOK, NewsKept, Calm, JobsCalm, TurnsCalm, HandCalm, DoneCalm
<1>6. WorkWatched'
  BY <1>1 DEF WorkWatched
<1>. QED
  BY <1>4, <1>5, <1>6, CalmKeeps DEF Ind

---------------------------------------------------------------------------
(* The theorems                                                            *)

\* A stuttering step keeps the invariant.
LEMMA StutterKeeps ==
    ASSUME Ind, UNCHANGED vars
    PROVE  Ind'
<1>. USE DEF vars
<1>1. TypeOK'
  BY DEF Ind, TypeOK
<1>2. Calm
  BY DEF Ind, NewsKept, Calm, JobsCalm, RowsCalm, TurnsCalm, HandCalm, DoneCalm
<1>3. WorkWatched'
  BY <1>1, <1>2, LessWork DEF Ind, WorkWatched, Calm
<1>. QED
  BY <1>1, <1>2, <1>3, CalmKeeps DEF Ind

\* The inductive invariant, whatever the workflows, events, turns, limits and bounds.
THEOREM WorkflowsInvariant == Spec => []Ind
<1>1. Init => Ind
  BY InitInd
<1>2. Ind /\ [Next]_vars => Ind'
  <2>1. SUFFICES ASSUME Ind, [Next]_vars PROVE Ind'
    OBVIOUS
  <2>2. ASSUME Handler PROVE Ind'
    BY <2>1, <2>2, FireKeeps, WokeKeeps, EventsKeep, LeaseKeeps, EventRunKeeps, TimedKeeps,
       AccessKeeps, GateKeeps, RunKeeps, HandlerEndsKeeps DEF Handler
  <2>3. ASSUME ArmRead \/ ArmSet \/ Watchdog \/ Reset \/ RecoverTurns PROVE Ind'
    BY <2>1, <2>3, ArmReadKeeps, ArmSetKeeps, WatchdogKeeps, ResetKeeps, RecoverKeeps
  <2>4. ASSUME NEW t \in Turn, ResumeComes(t) \/ CardCloses(t) \/ TurnEnds(t) \/ TurnThrows(t)
                                \/ TurnParks(t)
        PROVE  Ind'
    BY <2>1, <2>4, ResumeKeeps, CardClosesKeeps, TurnEndsKeeps, ThrowsKeeps, ParksKeeps
  <2>5. ASSUME NEW w \in Wf, LeaseLapses(w) PROVE Ind'
    BY <2>1, <2>5, LapseKeeps
  <2>6. ASSUME NEW w \in Timed, NextRunComes(w) PROVE Ind'
    BY <2>1, <2>6, NextRunKeeps
  <2>7. ASSUME NEW w \in Wf, NEW kind \in Kinds, NEW max \in Limits, AddWorkflow(w, kind, max)
        PROVE  Ind'
    BY <2>1, <2>7, AddKeeps
  <2>8. ASSUME NEW w \in Wf, NEW st \in Statuses, SetWorkflowStatus(w, st) PROVE Ind'
    BY <2>1, <2>8, StatusKeeps
  <2>9. ASSUME NEW w \in OnEvent, NEW st \in Statuses, EventStatus(w, st) PROVE Ind'
    BY <2>1, <2>9, EventStatusKeeps
  <2>10. ASSUME NEW e \in Event, AppEventQueued(e) \/ \E w \in OnEvent : AppEvent(e, w) PROVE Ind'
    BY <2>1, <2>10, QueuedKeeps, AppEventKeeps
  <2>11. ASSUME NEW w \in OnEvent, NEW gone \in BOOLEAN, TriggerLost(w, gone) PROVE Ind'
    BY <2>1, <2>11, LostKeeps
  <2>. QED
    BY <2>1, <2>2, <2>3, <2>4, <2>5, <2>6, <2>7, <2>8, <2>9, <2>10, <2>11, AnswersKeep, StutterKeeps
    DEF Next
<1>. QED
  BY <1>1, <1>2, PTL DEF Spec

\* Every variable keeps its type (the tables of a Resident's scheduled work).
THEOREM WorkflowsTyped == Spec => []TypeOK
<1>1. Ind => TypeOK
  BY DEF Ind
<1>. QED
  BY <1>1, WorkflowsInvariant, PTL

\* A workflow never has two runs, over lapsed leases, resets, parked turns and resumes
\* (journaledWorkflows, appEventsDue).
THEOREM OneRun == Spec => []RunAlone
<1>1. Ind => RunAlone
  BY DEF Ind
<1>. QED
  BY <1>1, WorkflowsInvariant, PTL

\* A gate's news stays until a run that was told of it has finished (gate_pending).
THEOREM NewsNotLost == Spec => []NewsKept
<1>1. Ind => NewsKept
  BY DEF Ind
<1>. QED
  BY <1>1, WorkflowsInvariant, PTL

\* A pause is not undone by the end of a run (workflowFinish, eventFinish).
THEOREM PausesStay == Spec => []PauseStays
<1>1. Ind => PauseStays
  BY DEF Ind
<1>. QED
  BY <1>1, WorkflowsInvariant, PTL

\* Only a reset between the close of its run's card and the bookkeeping makes an event
\* that was run to its end run again (recoverTurns), and EventTries runs are the most it
\* gets (appEventsDue, eventFinish).
THEOREM EventsOnce == Spec => []EventOnce
<1>1. Ind => EventOnce
  BY CountsBound DEF Ind, WorkflowInv
<1>. QED
  BY <1>1, WorkflowsInvariant, PTL

\* Work has an alarm, a registry row, an arm() or an awake handler, or was stranded in
\* one of the two ways (armNow, the constructor, the watchdog).
THEOREM AlwaysWatched == Spec => []WorkWatched
<1>1. Ind => WorkWatched
  BY DEF Ind
<1>. QED
  BY <1>1, WorkflowsInvariant, PTL

\* What these rest on holds too: places, kinds, news and rows agree.
THEOREM PartsAgree == Spec => []WorkflowInv
<1>1. Ind => WorkflowInv
  BY DEF Ind
<1>. QED
  BY <1>1, WorkflowsInvariant, PTL

==========================================================================
