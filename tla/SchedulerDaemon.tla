--------------------------- MODULE SchedulerDaemon ---------------------------
(***************************************************************************)
(* Recurring tasks: ScheduledTask.Schedule stores the task and then a row  *)
(* of scheduled_runs stamped with the time of the call; the daemon of each *)
(* replica wakes up every schedulerExecutionQuantum, reads the rows of the *)
(* current day page by page and puts the task of each row on the dispatch  *)
(* queue.                                                                  *)
(*                                                                         *)
(* Time is counted in the units that tell two stamps apart (milliseconds); *)
(* a day has DayLength of them and the daemon's quantum is Quantum.  The   *)
(* dispatch queue and its watchers are reduced to what the daemon's tables *)
(* see of them: while messages about a task are about, any number of       *)
(* MarkTaskDispatched writes may happen (TaskDispatch has the detail).     *)
(***************************************************************************)
EXTENDS TaskTables, Naturals, FiniteSets

CONSTANTS
    Replicas,
    DayLength,     \* length of a partition of scheduled_runs
    Quantum,       \* schedulerExecutionQuantum
    PageSize,      \* itemsPerPage
    MayCrash,      \* replicas that may be restarted in the middle of a pass
    None,          \* the empty page state
    MaxClock       \* bound: the clock stops there

ASSUME DaemonAssumption ==
    /\ DayLength \in Nat \ {0}
    /\ Quantum \in Nat \ {0}
    /\ PageSize \in Nat \ {0}
    /\ MayCrash \subseteq Replicas
    /\ MaxClock \in Nat
    /\ None \notin 0..MaxClock

Stamps == 0..MaxClock

\* A row of scheduled_runs; run_partition is computed from next_run, so the
\* primary key (run_partition, next_run) is the stamp.
Runs == [at: Stamps, task: Tasks]

VARIABLES
    clock,
    sched,         \* sched[t]: how far Schedule() of t has come
    stamp,         \* stamp[t]: next_run of the run of t, once taken
    runs,          \* the table scheduled_runs
    pc,            \* pc[r]: next step of the daemon of r
    wake,          \* wake[r]: when its time.After fires
    day,           \* day[r]: runPartition of its pass
    page,          \* page[r]: rows of the page still to be handled
    cursor,        \* cursor[r]: nextPage
    about,         \* tasks with a message on the queue or in a watcher's hands
    \* History:
    due,           \* due[r]: rows of its partition when the pass began
    handled,       \* handled[r]: rows taken up in this pass
    unread,        \* replicas whose latest page query failed
    sent           \* sent[t]: when a daemon put t on the dispatch queue

daemonVars == <<pc, wake, day, page, cursor, due, handled, unread>>
vars == <<tableVars, clock, sched, stamp, runs, daemonVars, about, sent>>

DayOf(c) == c \div DayLength
Stamped(S) == {x.at : x \in S}

SchedStates == {"new", "stored", "mapped", "stamped", "accepted", "rejected"}
DaemonStates == {"wait", "query", "read", "send"}

TypeOK ==
    /\ TablesTypeOK
    /\ clock \in Stamps
    /\ sched \in [Tasks -> SchedStates]
    /\ stamp \in [Tasks -> Stamps]
    /\ runs \in SUBSET Runs
    /\ pc \in [Replicas -> DaemonStates]
    /\ wake \in [Replicas -> Stamps]
    /\ day \in [Replicas -> 0..DayOf(MaxClock)]
    /\ page \in [Replicas -> SUBSET Runs]
    /\ \A r \in Replicas : pc[r] = "send" => page[r] # {}
    /\ cursor \in [Replicas -> Stamps \cup {None}]
    /\ about \in SUBSET Tasks
    /\ due \in [Replicas -> SUBSET Runs]
    /\ handled \in [Replicas -> SUBSET Runs]
    /\ unread \in SUBSET Replicas
    /\ sent \in [Tasks -> SUBSET Stamps]

Init ==
    /\ TablesInit
    /\ clock = 0
    /\ sched = [t \in Tasks |-> "new"]
    /\ stamp = [t \in Tasks |-> 0]
    /\ runs = {}
    /\ pc = [r \in Replicas |-> "wait"]
    /\ wake = [r \in Replicas |-> 0]
    /\ day = [r \in Replicas |-> 0]
    /\ page = [r \in Replicas |-> {}]
    /\ cursor = [r \in Replicas |-> None]
    /\ about = {}
    /\ due = [r \in Replicas |-> {}]
    /\ handled = [r \in Replicas |-> {}]
    /\ unread = {}
    /\ sent = [t \in Tasks |-> {}]

Tick ==
    /\ clock < MaxClock
    /\ clock' = clock + 1
    /\ UNCHANGED <<tableVars, sched, stamp, runs, daemonVars, about, sent>>

-----------------------------------------------------------------------------
(* ScheduledTask.Schedule for a task with any unit but Once.               *)

StoreTask(t) ==
    /\ sched[t] = "new"
    /\ InsertTask(t)
    /\ sched' = [sched EXCEPT ![t] = "stored"]
    /\ UNCHANGED <<clock, stamp, runs, daemonVars, about, sent>>

StoreConsignment(t) ==
    /\ sched[t] = "stored"
    /\ InsertConsignment(t)
    /\ sched' = [sched EXCEPT ![t] = "mapped"]
    /\ UNCHANGED <<clock, stamp, runs, daemonVars, about, sent>>

\* NextRun = time.Now(), taken before the write is made.
StampRun(t) ==
    /\ sched[t] = "mapped"
    /\ stamp' = [stamp EXCEPT ![t] = clock]
    /\ sched' = [sched EXCEPT ![t] = "stamped"]
    /\ UNCHANGED <<tableVars, clock, runs, daemonVars, about, sent>>

\* The INSERT replaces a row that has the same primary key.
InsertRun(t) ==
    runs' = {x \in runs : x.at # stamp[t]} \cup {[at |-> stamp[t], task |-> t]}

CreateScheduledRun(t) ==
    /\ sched[t] = "stamped"
    /\ InsertRun(t)
    /\ sched' = [sched EXCEPT ![t] = "accepted"]
    /\ UNCHANGED <<tableVars, clock, stamp, daemonVars, about, sent>>

\* The write at hand reported an error (with or without its effect) or the
\* replica died: what was written before stays.
ScheduleFails(t) ==
    /\ sched[t] \in {"new", "stored", "stamped"}
    /\ sched' = [sched EXCEPT ![t] = "rejected"]
    /\ \/ UNCHANGED <<tableVars, runs>>
       \/ sched[t] = "new" /\ InsertTask(t) /\ UNCHANGED runs
       \/ sched[t] = "stored" /\ InsertConsignment(t) /\ UNCHANGED runs
       \/ sched[t] = "stamped" /\ InsertRun(t) /\ UNCHANGED tableVars
    /\ UNCHANGED <<clock, stamp, daemonVars, about, sent>>

-----------------------------------------------------------------------------
(* runSchedulerDaemon.                                                     *)

\* The last tick stands for all later time, so that a daemon still wakes then.
Later(c) == IF c + Quantum > MaxClock THEN MaxClock ELSE c + Quantum

PassEnds(r) ==
    /\ pc' = [pc EXCEPT ![r] = "wait"]
    /\ wake' = [wake EXCEPT ![r] = Later(clock)]

InDay(d) == {x \in runs : DayOf(x.at) = d}

\* Mutant: the partition is computed once, before the loop.
StartPassKeepingDay(r) ==
    /\ pc[r] = "wait"
    /\ wake[r] <= clock
    /\ pc' = [pc EXCEPT ![r] = "query"]
    /\ due' = [due EXCEPT ![r] = InDay(day[r])]
    /\ handled' = [handled EXCEPT ![r] = {}]
    /\ unread' = unread \ {r}
    /\ UNCHANGED <<tableVars, clock, sched, stamp, runs, wake, day, page, cursor,
                   about, sent>>

StartPass(r) ==
    /\ pc[r] = "wait"
    /\ wake[r] <= clock
    /\ pc' = [pc EXCEPT ![r] = "query"]
    /\ day' = [day EXCEPT ![r] = DayOf(clock)]
    /\ due' = [due EXCEPT ![r] = InDay(DayOf(clock))]
    /\ handled' = [handled EXCEPT ![r] = {}]
    /\ unread' = unread \ {r}
    /\ UNCHANGED <<tableVars, clock, sched, stamp, runs, wake, page, cursor,
                   about, sent>>

\* Mutant: the page state names the first row of the next page.
BehindOrAt(r) == {x \in InDay(day[r]) : cursor[r] = None \/ x.at >= cursor[r]}

\* The rows of the partition behind the page state, in clustering order.
Behind(r) == {x \in InDay(day[r]) : cursor[r] = None \/ x.at > cursor[r]}

Before(x, S) == {y \in S : y.at < x.at}
PageOf(S) == {x \in S : Cardinality(Before(x, S)) < PageSize}
First(S) == CHOOSE x \in S : \A y \in S : x.at <= y.at
Last(S) == CHOOSE x \in S : \A y \in S : y.at <= x.at

\* GetScheduledRuns. A full page comes with a page state even when no row may
\* follow; the last page comes without.
QueryPage(r) ==
    /\ pc[r] = "query"
    /\ LET rest == Behind(r)
           rows == PageOf(rest)
       IN /\ page' = [page EXCEPT ![r] = rows]
          /\ \/ /\ Cardinality(rows) = PageSize
                /\ cursor' = [cursor EXCEPT ![r] = Last(rows).at]
             \/ /\ rows = rest
                /\ cursor' = [cursor EXCEPT ![r] = None]
    /\ pc' = [pc EXCEPT ![r] = "read"]
    /\ UNCHANGED <<tableVars, clock, sched, stamp, runs, wake, day, about, due,
                   handled, unread, sent>>

\* Mutant: the page state survives a failed query.
QueryFailsKeepingPage(r) ==
    /\ pc[r] = "query"
    /\ unread' = unread \cup {r}
    /\ PassEnds(r)
    /\ UNCHANGED <<tableVars, clock, sched, stamp, runs, day, page, cursor,
                   about, due, handled, sent>>

\* An error comes without rows and without a page state and ends the pass.
QueryFails(r) ==
    /\ pc[r] = "query"
    /\ cursor' = [cursor EXCEPT ![r] = None]
    /\ unread' = unread \cup {r}
    /\ PassEnds(r)
    /\ UNCHANGED <<tableVars, clock, sched, stamp, runs, day, page, about, due,
                   handled, sent>>

\* Mutant: a task that is not found is dispatched from the run's row.
ItemReadAnyway(t) == TRUE

\* The next row of the page: its task is looked up; a failed read and a task
\* that is not there are skipped.
ItemRead(t) == taskStatus[t] # NoRow

ReadTask(r) ==
    /\ pc[r] = "read"
    /\ page[r] # {}
    /\ ItemRead(First(page[r]).task)
    /\ handled' = [handled EXCEPT ![r] = @ \cup {First(page[r])}]
    /\ pc' = [pc EXCEPT ![r] = "send"]
    /\ UNCHANGED <<tableVars, clock, sched, stamp, runs, wake, day, page, cursor,
                   about, due, unread, sent>>

SkipTask(r) ==
    /\ pc[r] = "read"
    /\ page[r] # {}
    /\ handled' = [handled EXCEPT ![r] = @ \cup {First(page[r])}]
    /\ page' = [page EXCEPT ![r] = @ \ {First(page[r])}]
    /\ UNCHANGED <<tableVars, clock, sched, stamp, runs, pc, wake, day, cursor,
                   about, due, unread, sent>>

\* SendDispatchQueueMessage.
SendTask(r) ==
    /\ pc[r] = "send"
    /\ page' = [page EXCEPT ![r] = @ \ {First(page[r])}]
    /\ about' = about \cup {First(page[r]).task}
    /\ sent' = [sent EXCEPT ![First(page[r]).task] = @ \cup {clock}]
    /\ pc' = [pc EXCEPT ![r] = "read"]
    /\ UNCHANGED <<tableVars, clock, sched, stamp, runs, wake, day, cursor, due,
                   handled, unread>>

\* It reported an error, which is only logged, and had no effect.
SendFails(r) ==
    /\ pc[r] = "send"
    /\ page' = [page EXCEPT ![r] = @ \ {First(page[r])}]
    /\ pc' = [pc EXCEPT ![r] = "read"]
    /\ UNCHANGED <<tableVars, clock, sched, stamp, runs, wake, day, cursor,
                   about, due, handled, unread, sent>>

\* The page is done: the next one, or the end of the pass.
FinishPage(r) ==
    /\ pc[r] = "read"
    /\ page[r] = {}
    /\ IF cursor[r] = None
       THEN PassEnds(r)
       ELSE pc' = [pc EXCEPT ![r] = "query"] /\ UNCHANGED wake
    /\ UNCHANGED <<tableVars, clock, sched, stamp, runs, day, page, cursor,
                   about, due, handled, unread, sent>>

\* A restarted daemon begins with a pass.
Crash(r) ==
    /\ pc[r] # "wait"
    /\ pc' = [pc EXCEPT ![r] = "wait"]
    /\ wake' = [wake EXCEPT ![r] = clock]
    /\ page' = [page EXCEPT ![r] = {}]
    /\ cursor' = [cursor EXCEPT ![r] = None]
    /\ unread' = unread \cup {r}
    /\ UNCHANGED <<tableVars, clock, sched, stamp, runs, day, about, due,
                   handled, sent>>

-----------------------------------------------------------------------------
\* A watcher publishes one of the messages about t and marks t dispatched; the
\* last message about t may be gone afterwards.
MarkTaskDispatched(t) ==
    /\ t \in about
    /\ SetTaskStatus(t, "dispatched") \/ UNCHANGED tableVars
    /\ about' \in {about, about \ {t}}
    /\ UNCHANGED <<clock, sched, stamp, runs, daemonVars, sent>>

RemoveTask(t) ==
    /\ taskStatus[t] # NoRow
    /\ DeleteTask(t)
    /\ UNCHANGED <<clock, sched, stamp, runs, daemonVars, about, sent>>

-----------------------------------------------------------------------------
ScheduleStep(t) ==
    \/ StoreTask(t)
    \/ StoreConsignment(t)
    \/ StampRun(t)
    \/ CreateScheduledRun(t)
    \/ ScheduleFails(t)

DaemonStep(r) ==
    \/ StartPass(r)
    \/ QueryPage(r)
    \/ QueryFails(r)
    \/ ReadTask(r)
    \/ SkipTask(r)
    \/ SendTask(r)
    \/ SendFails(r)
    \/ FinishPage(r)

Next ==
    \/ Tick
    \/ \E t \in Tasks : ScheduleStep(t) \/ MarkTaskDispatched(t) \/ RemoveTask(t)
    \/ \E r \in Replicas : DaemonStep(r)
    \/ \E r \in MayCrash : Crash(r)

Spec == Init /\ [][Next]_vars

AtTask(r, t) == page[r] # {} /\ First(page[r]).task = t

\* Time passes, and daemons that are not restarted keep going; a query from one
\* page state, a read and a send about one task, made over and over, do not
\* fail every time. Nothing is assumed of clients and of replicas that may
\* crash.
Fairness ==
    /\ WF_vars(Tick)
    /\ \A r \in Replicas \ MayCrash :
        /\ WF_vars(DaemonStep(r))
        /\ \A c \in Stamps \cup {None} : SF_vars(cursor[r] = c /\ QueryPage(r))
        /\ \A t \in Tasks :
              /\ SF_vars(AtTask(r, t) /\ ReadTask(r))
              /\ SF_vars(AtTask(r, t) /\ SendTask(r))

FairSpec == Spec /\ Fairness

-----------------------------------------------------------------------------
(* Safety.                                                                 *)

InPass(r) == pc[r] # "wait"

\* The rows of a pass that still have to come: those of the page in hand and,
\* unless that is the last page, those behind it.
ToCome(r) ==
    Stamped(page[r]) \cup
    (IF pc[r] = "query" \/ cursor[r] # None THEN Stamped(Behind(r)) ELSE {})

\* No row of the partition is skipped: what was due when the pass began is
\* taken up in it or still to come, although rows are inserted, replaced and
\* read in pages meanwhile.
PassCoversDueRuns ==
    \A r \in Replicas : InPass(r) =>
        Stamped(due[r]) \subseteq Stamped(handled[r]) \cup ToCome(r)

\* No row is taken up twice in a pass, and rows are taken up in the order of
\* their stamps: what is still to come lies behind what was handled (the row
\* being sent counts as both).
PassNeverRepeats ==
    \A r \in Replicas : \A y \in handled[r] : \A s \in ToCome(r) :
        InPass(r) => y.at < s \/ (pc[r] = "send" /\ s = First(page[r]).at /\ y.at = s)

\* The strengthening under which these two are inductive: stamps are a key of the
\* table and of a page, the page state is at or behind everything read so far, and
\* a pass that has no page state has read nothing or is on its last page, and the
\* row being sent was taken up.
Keyed(S) == \A x, y \in S : x.at = y.at => x = y

PassInv(r) ==
    /\ Keyed(page[r])
    /\ pc[r] \in {"wait", "query"} => page[r] = {}
    /\ pc[r] = "wait" => cursor[r] = None
    /\ InPass(r) /\ cursor[r] # None => \A x \in page[r] \cup handled[r] : x.at <= cursor[r]
    /\ pc[r] = "query" /\ cursor[r] = None => handled[r] = {}
    /\ pc[r] = "send" => First(page[r]) \in handled[r]

DaemonInv ==
    /\ IsFiniteSet(runs) /\ Keyed(runs)
    /\ \A r \in Replicas : PassInv(r)
    /\ PassCoversDueRuns
    /\ PassNeverRepeats

\* A pass that ends without a failed query has taken up every row that was due
\* when it began.
CompletePassHandlesDueRuns ==
    [][\A r \in Replicas : InPass(r) /\ ~InPass(r)' /\ r \notin unread' =>
            Stamped(due[r]) \subseteq Stamped(handled[r])]_vars

\* A removed recurring task about which no message and no daemon is under way
\* stays removed and is never dispatched again, although its run is read in
\* every pass of its day.
RemovedRunIsDead(t) ==
    /\ sched[t] # "new"
    /\ taskStatus[t] = NoRow
    /\ t \notin about
    /\ \A r \in Replicas : pc[r] = "send" => ~AtTask(r, t)

RemovedTaskIsNotRun ==
    [][\A t \in Tasks : RemovedRunIsDead(t) =>
            RemovedRunIsDead(t)' /\ sent'[t] = sent[t]]_vars

(* Liveness, under FairSpec.                                               *)

HasRunToday(t) == \E x \in runs : x.task = t /\ DayOf(x.at) = DayOf(clock)

\* A run of the current day is dispatched unless the day ends first, its task
\* is removed, or a run with the same stamp takes its row.
RunOfTheDayIsDispatched ==
    \A t \in Tasks : HasRunToday(t) ~>
        (sent[t] # {} \/ taskStatus[t] = NoRow \/ ~HasRunToday(t))

(* Claims of the repository that the code does not keep.                   *)

\* db/create_scheduled_run.go:20: a scheduled run is created in the database for every
\* recurring task Schedule accepts.
AcceptedTaskHasRun ==
    \A t \in Tasks : sched[t] = "accepted" => \E x \in runs : x.task = t

\* scheduler/README.md:4, 13: Every(1).Day() schedules a periodic task. Here:
\* a task that ran on its first day and not since is taken up by a complete
\* pass two days later.
DailyTaskIsPeriodic ==
    \A r \in Replicas, t \in Tasks :
        /\ ~InPass(r) /\ r \notin unread
        /\ t \in taskBody
        /\ sent[t] # {} /\ \A s \in sent[t] : DayOf(s) = DayOf(stamp[t])
        /\ day[r] >= DayOf(stamp[t]) + 2
        => \E x \in handled[r] : x.task = t
=============================================================================
