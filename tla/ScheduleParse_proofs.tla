------------------------- MODULE ScheduleParse_proofs -------------------------
(***************************************************************************)
(* Theorems about ScheduleParse, for any schedules and times of day: what  *)
(* an accepted task describes, and the times it runs at.  The builder      *)
(* calls are taken one by one (what each makes of a task's period and      *)
(* days), then the branches of ParseSchedule that chain them, then the     *)
(* checks of Schedule; At's loop and search come last.                     *)
(***************************************************************************)
EXTENDS ScheduleParse, SequenceTheorems, TLAPS

\* The period and the days of a task as NewScheduledTask makes it.
Fresh(s) ==
    /\ IsTask(s)
    /\ s.unit = "none" /\ s.interval = 0 /\ s.duration = 0 /\ s.days = <<>>

\* The same after Every, which ParseSchedule calls first: one of interval and
\* duration is set.
AfterEvery(s) ==
    /\ IsTask(s)
    /\ s.days = <<>>
    /\ s.error = {} =>
          \/ s.unit = "none" /\ s.interval \in Nat /\ s.interval > 0 /\ s.duration = 0
          \/ s.unit = "duration" /\ s.interval = 0

-----------------------------------------------------------------------------
(* The builder calls.                                                      *)

\* What NewScheduledTask makes.
LEMMA NewIsFresh == ASSUME NEW in PROVE Fresh(NewScheduledTask(in))
BY DEF NewScheduledTask, Fresh, IsTask

\* A failed call leaves a task of which nothing is claimed.
LEMMA FailIsFinal ==
  ASSUME NEW s, NEW e, IsTask(s)
  PROVE  /\ IsTask(Fail(s, e)) /\ Fail(s, e).error # {}
         /\ Fail(s, e).days = s.days
BY DEF Fail, IsTask

\* StartImmediately is set or reset.
LEMMA ImmediateIsSet ==
  ASSUME NEW s, NEW i, IsTask(s)
  PROVE  IsTask([s EXCEPT !.immediate = i])
BY DEF IsTask

\* The unit is set unless the task has a duration or a cron expression.
LEMMA UnitIsSetOnce ==
  ASSUME NEW s, NEW u, IsTask(s)
  PROVE  LET t == setSchedulingUnit(s, u)
         IN  /\ IsTask(t)
             /\ t.interval = s.interval /\ t.duration = s.duration /\ t.days = s.days
             /\ t.error = {} => /\ s.error = {} /\ t.unit = u
                                /\ s.unit \notin {"duration", "crontab"}
BY DEF setSchedulingUnit, Fail, IsTask

\* Every of a number leaves the unit open; of anything else it sets "duration".
LEMMA EveryOfFresh ==
  ASSUME NEW s, NEW v, Fresh(s), v.amount \in Int
  PROVE  AfterEvery(Every(s, v))
<1>1. CASE v.kind = "number"
  <2> DEFINE t == [s EXCEPT !.interval = v.amount]
  <2>1. /\ IsTask(t) /\ t.days = <<>> /\ t.duration = 0 /\ t.unit = "none"
        /\ t.interval = v.amount
    BY DEF Fresh, IsTask
  <2>2. Every(s, v) = IF v.amount <= 0 THEN Fail(t, "interval") ELSE t
    BY <1>1 DEF Every
  <2> HIDE DEF t
  <2>3. CASE v.amount <= 0
    BY <2>1, <2>2, <2>3, FailIsFinal DEF AfterEvery
  <2>4. CASE ~(v.amount <= 0)
    <3>1. v.amount \in Nat /\ v.amount > 0
      BY <2>4
    <3> QED BY <2>1, <2>2, <2>4, <3>1 DEF AfterEvery
  <2> QED BY <2>3, <2>4
<1>2. CASE v.kind # "number"
  <2> DEFINE b == IF v.kind = "span" THEN [s EXCEPT !.duration = v.amount]
                                     ELSE Fail([s EXCEPT !.duration = 0], "span")
  <2>1. IsTask(b) /\ b.days = <<>> /\ b.interval = 0
    BY DEF Fresh, IsTask, Fail
  <2>2. Every(s, v) = setSchedulingUnit(b, "duration")
    BY <1>2 DEF Every
  <2> HIDE DEF b
  <2> QED BY <2>1, <2>2, UnitIsSetOnce DEF AfterEvery
<1> QED BY <1>1, <1>2

\* The days that Months lets pass exist in every month.
LEMMA PassedDaysExist ==
  ASSUME NEW s, NEW days \in Seq(Int), ~WrongDays(s, days)
  PROVE  DaysExist(days)
<1>1. days # <<>> /\ Len(days) \in Nat /\ Len(days) > 0
  BY DEF WrongDays
<1>2. CASE Len(days) = 1
  <2>1. CASE days[1] = -1
    BY <1>2, <2>1 DEF DaysExist
  <2>2. CASE days[1] \in 1..28
    <3>1. DOMAIN days = {1}
      BY <1>2
    <3> QED BY <1>1, <2>2, <3>1 DEF DaysExist, Range, IsInjective
  <2> QED BY <1>2, <2>1, <2>2 DEF WrongDays
<1>3. CASE Len(days) > 1
  <2>1. \A i \in 1..Len(days) : days[i] \in 1..28 /\ \A j \in 1..(i - 1) : days[j] # days[i]
    BY <1>3 DEF WrongDays
  <2>2. DOMAIN days = 1..Len(days)
    OBVIOUS
  <2>3. Range(days) \subseteq 1..28
    BY <2>1, <2>2 DEF Range
  <2>4. ASSUME NEW i \in 1..Len(days), NEW j \in 1..Len(days), days[i] = days[j] PROVE i = j
    <3>1. ~(i < j) /\ ~(j < i)
      BY <2>1, <2>4
    <3> QED BY <3>1
  <2> QED BY <1>1, <2>2, <2>3, <2>4 DEF DaysExist, IsInjective
<1>4. \A n \in Nat : n > 0 => n = 1 \/ n > 1
  OBVIOUS
<1> QED BY <1>1, <1>2, <1>3, <1>4

\* Months refuses a task with a duration, and days that some month does not have.
LEMMA MonthsIsSound ==
  ASSUME NEW s, NEW days \in Seq(Int), AfterEvery(s)
  PROVE  LET t == Months(s, days) IN IsTask(t) /\ (t.error = {} => WellBuilt(t))
<1> DEFINE w == IF WrongDays(s, days) THEN Fail(s, "days") ELSE s
           m == [w EXCEPT !.days = @ \o days, !.immediate = FALSE]
           t == setSchedulingUnit(m, "months")
<1>1. IsTask(w) /\ w.days = <<>> /\ (w.error = {} => w = s /\ ~WrongDays(s, days))
  BY FailIsFinal DEF AfterEvery
<1> HIDE DEF w
<1>2. IsTask(m)
  <2> DEFINE d == [w EXCEPT !.days = @ \o days]
  <2>1. IsTask(d)
    BY <1>1 DEF IsTask
  <2>2. m = [d EXCEPT !.immediate = FALSE]
    OBVIOUS
  <2> HIDE DEF d, m
  <2>3. IsTask([d EXCEPT !.immediate = FALSE])
    BY <2>1, ImmediateIsSet
  <2> QED BY <2>2, <2>3
<1>3. /\ m.days = days /\ m.error = w.error /\ m.unit = w.unit
      /\ m.interval = w.interval /\ m.duration = w.duration
  BY <1>1 DEF IsTask
<1> HIDE DEF m
<1>4. /\ IsTask(t)
      /\ t.interval = m.interval /\ t.duration = m.duration /\ t.days = m.days
      /\ t.error = {} => m.error = {} /\ t.unit = "months" /\ m.unit # "duration"
  BY <1>2, UnitIsSetOnce
<1> HIDE DEF t
<1>5. ASSUME t.error = {} PROVE WellBuilt(t)
  <2>1. /\ ~WrongDays(s, days) /\ t.days = days /\ t.unit = "months"
        /\ t.interval = s.interval /\ t.duration = s.duration
        /\ s.error = {} /\ s.unit # "duration"
    BY <1>1, <1>3, <1>4, <1>5
  <2>2. DaysExist(t.days)
    BY <2>1, PassedDaysExist
  <2> QED BY <2>1, <2>2 DEF AfterEvery, WellBuilt
<1>6. t = Months(s, days)
  BY DEF Months, w, m, t
<1> QED BY <1>4, <1>5, <1>6

\* Setting a time unit, weeks with a weekday included, keeps one period.
LEMMA TimeUnitIsSound ==
  ASSUME NEW s, AfterEvery(s), NEW u \in TimeUnits
  PROVE  LET t == setSchedulingUnit(s, u) IN IsTask(t) /\ (t.error = {} => WellBuilt(t))
<1> DEFINE t == setSchedulingUnit(s, u)
<1>1. u \notin {"none", "once", "duration", "crontab", "months"}
  BY DEF TimeUnits
<1>2. /\ IsTask(t)
      /\ t.interval = s.interval /\ t.duration = s.duration /\ t.days = s.days
      /\ t.error = {} => /\ s.error = {} /\ t.unit = u
                         /\ s.unit \notin {"duration", "crontab"}
  BY UnitIsSetOnce DEF AfterEvery
<1> HIDE DEF t
<1>3. IsTask(t) /\ (t.error = {} => WellBuilt(t))
  BY <1>1, <1>2 DEF AfterEvery, WellBuilt
<1> QED BY <1>3 DEF t

\* Naming a weekday does as well.
LEMMA WeekdayIsSound ==
  ASSUME NEW s, AfterEvery(s), NEW d
  PROVE  LET t == Weekday(s, d) IN IsTask(t) /\ (t.error = {} => WellBuilt(t))
<1> DEFINE w == [s EXCEPT !.weekdays = @ \cup {d}]
           m == [w EXCEPT !.immediate = FALSE]
<1>1. /\ IsTask(w) /\ w.days = s.days /\ w.error = s.error /\ w.unit = s.unit
      /\ w.interval = s.interval /\ w.duration = s.duration
  <2>1. IsTask(s)
    BY DEF AfterEvery
  <2> QED BY <2>1 DEF IsTask
<1> HIDE DEF w
<1>2. IsTask(m)
  BY <1>1, ImmediateIsSet
<1>3. /\ m.days = w.days /\ m.error = w.error /\ m.unit = w.unit
      /\ m.interval = w.interval /\ m.duration = w.duration
  BY <1>1 DEF IsTask
<1>4. Weekday(s, d) = setSchedulingUnit(m, "weeks")
  BY DEF Weekday, w
<1> HIDE DEF m
<1>5. AfterEvery(m)
  BY <1>1, <1>2, <1>3 DEF AfterEvery
<1> QED BY <1>4, <1>5, TimeUnitIsSound DEF TimeUnits

-----------------------------------------------------------------------------
(* The branches of ParseSchedule.                                          *)

\* Whatever is said after the interval, a task that is still without an error has
\* one period.
LEMMA ApplyUnitIsSound ==
  ASSUME NEW s, AfterEvery(s), NEW in \in Schedules
  PROVE  LET t == ApplyUnit(s, in) IN IsTask(t) /\ (t.error = {} => WellBuilt(t))
<1> DEFINE t == ApplyUnit(s, in)
           Good(r) == IsTask(r) /\ (r.error = {} => WellBuilt(r))
<1>1. in.days \in Seq(Int)
  BY DEF Schedules
<1>2. IsTask(s) /\ Good(s)
  BY DEF AfterEvery, WellBuilt
<1>3. \A e : Good(Fail(s, e))
  BY <1>2, FailIsFinal
<1>4. CASE in.unit = "none"
  <2>1. t = s
    BY <1>4 DEF ApplyUnit, TimeUnits, Weekdays
  <2> QED BY <1>2, <2>1
<1>5. CASE in.unit = "monthdays" /\ in.days = <<>>
  <2>1. t = Fail(s, "type")
    BY <1>5 DEF ApplyUnit, TimeUnits, Weekdays
  <2> QED BY <1>3, <2>1
<1>6. CASE in.unit = "monthdays" /\ in.days # <<>>
  <2> DEFINE p == ParseDaysOfMonth(s, in.days)
  <2>1. t = Months(p.task, p.days)
    BY <1>6 DEF ApplyUnit, TimeUnits, Weekdays
  <2>2. AfterEvery(p.task) /\ p.days \in Seq(Int)
    <3>1. CASE Garbled \in Range(in.days)
      <4>1. p.task = Fail(s, "days") /\ p.days = <<>>
        BY <3>1 DEF ParseDaysOfMonth
      <4>2. AfterEvery(Fail(s, "days"))
        BY <1>2, FailIsFinal DEF AfterEvery
      <4> QED BY <4>1, <4>2
    <3>2. CASE Garbled \notin Range(in.days)
      <4>1. p.task = s /\ p.days = in.days
        BY <3>2 DEF ParseDaysOfMonth
      <4> QED BY <1>1, <4>1
    <3> QED BY <3>1, <3>2
  <2> HIDE DEF p
  <2> QED BY <2>1, <2>2, MonthsIsSound
<1>7. CASE in.unit \in TimeUnits
  <2>1. t = setSchedulingUnit(s, in.unit)
    BY <1>7 DEF ApplyUnit, TimeUnits, Weekdays
  <2> QED BY <1>7, <2>1, TimeUnitIsSound
<1>8. CASE in.unit \in Weekdays
  <2>1. t = Weekday(s, in.unit)
    BY <1>8 DEF ApplyUnit, TimeUnits, Weekdays
  <2> QED BY <2>1, WeekdayIsSound
<1>9. CASE in.unit \in {"midday", "unknown"}
  <2>1. t = Fail(s, "unit")
    BY <1>9 DEF ApplyUnit, TimeUnits, Weekdays
  <2> QED BY <1>3, <2>1
<1> QED BY <1>4, <1>5, <1>6, <1>7, <1>8, <1>9 DEF Schedules

\* "now": the present time, which At adds, does not make a period.
LEMMA NowIsSound ==
  ASSUME NEW s, Fresh(s)
  PROVE  LET t == Now([s EXCEPT !.unit = "once", !.immediate = TRUE])
         IN  IsTask(t) /\ (t.error = {} => WellBuilt(t))
<1> DEFINE w == [s EXCEPT !.unit = "once"]
           m == [w EXCEPT !.immediate = TRUE]
           t == setSchedulingUnit(m, "once")
<1>1. /\ IsTask(w) /\ w.days = <<>> /\ w.interval = 0 /\ w.duration = 0
  <2>1. IsTask(s)
    BY DEF Fresh
  <2> QED BY <2>1 DEF Fresh, IsTask
<1>2. Now([s EXCEPT !.unit = "once", !.immediate = TRUE]) = t
  <2>1. [s EXCEPT !.unit = "once", !.immediate = TRUE] = m
    OBVIOUS
  <2> QED BY <2>1 DEF Now
<1> HIDE DEF w
<1>3. IsTask(m) /\ m.days = <<>> /\ m.interval = 0 /\ m.duration = 0
  <2>1. IsTask(m)
    BY <1>1, ImmediateIsSet
  <2>2. m.days = <<>> /\ m.interval = 0 /\ m.duration = 0
    BY <1>1 DEF IsTask
  <2> QED BY <2>1, <2>2
<1> HIDE DEF m
<1>4. /\ IsTask(t) /\ t.days = <<>> /\ t.interval = 0 /\ t.duration = 0
      /\ t.error = {} => t.unit = "once"
  BY <1>3, UnitIsSetOnce
<1> HIDE DEF t
<1>5. IsTask(t) /\ (t.error = {} => WellBuilt(t))
  BY <1>4 DEF WellBuilt
<1> QED BY <1>2, <1>5

\* "cron" sets the unit, whatever became of the expression.
LEMMA CronIsSound ==
  ASSUME NEW s, Fresh(s), NEW v
  PROVE  LET t == Cron(s, v) IN IsTask(t) /\ (t.error = {} => WellBuilt(t))
<1> DEFINE t == Cron(s, v)
           c == [s EXCEPT !.unit = "crontab"]
           i == [c EXCEPT !.immediate = FALSE]
           x == IF v.kind = "descriptor" THEN i.error ELSE {"cron"}
           e == [i EXCEPT !.error = x]
<1>1. /\ IsTask(c) /\ c.days = <<>> /\ c.interval = 0 /\ c.duration = 0
      /\ c.unit = "crontab"
  <2>1. IsTask(s)
    BY DEF Fresh
  <2> QED BY <2>1 DEF Fresh, IsTask
<1>2. t = e
  BY DEF Cron
<1> HIDE DEF c
<1>3. IsTask(i)
  BY <1>1, ImmediateIsSet
<1>4. i.days = <<>> /\ i.interval = 0 /\ i.duration = 0 /\ i.unit = "crontab"
  BY <1>1 DEF IsTask
<1> HIDE DEF i, x
<1>5. IsTask(e) /\ e.days = <<>> /\ e.interval = 0 /\ e.duration = 0 /\ e.unit = "crontab"
  BY <1>3, <1>4 DEF IsTask
<1> HIDE DEF e
<1>6. IsTask(e) /\ (e.error = {} => WellBuilt(e))
  BY <1>5 DEF WellBuilt
<1> QED BY <1>2, <1>6

\* Each branch of ParseSchedule leaves an error or one period.
LEMMA ParsedIsSound ==
  ASSUME ParseInv, ParseSchedule
  PROVE  IsTask(task') /\ (task'.error = {} => WellBuilt(task'))
<1>1. stage = "new" /\ Fresh(task)
  <2>1. stage = "new"
    BY DEF ParseSchedule, ParseNow, ParseTooShort, ParseEvery, ParseMidday,
       ParseAt, ParseCron, ParseOther, Parsed, At
  <2> QED BY <2>1, NewIsFresh DEF ParseInv
<1>2. input \in Schedules /\ input.value.amount \in Int
  <2>1. input \in Schedules
    BY ParseAssumption DEF ParseInv
  <2> QED BY <2>1 DEF Schedules, Values
<1>3. \A e : IsTask(Fail(task, e)) /\ Fail(task, e).error # {}
  BY <1>1, FailIsFinal DEF Fresh
<1>4. CASE ParseNow
  BY <1>1, <1>4, NowIsSound DEF ParseNow, At
<1>5. CASE ParseTooShort
  BY <1>3, <1>5 DEF ParseTooShort, Parsed
<1>6. CASE ParseEvery
  <2>1. AfterEvery(Every(task, input.value))
    BY <1>1, <1>2, EveryOfFresh
  <2> QED BY <1>2, <1>6, <2>1, ApplyUnitIsSound DEF ParseEvery, Parsed
<1>7. CASE ParseMidday
  <2>1. AfterEvery(Every(task, input.value))
    BY <1>1, <1>2, EveryOfFresh
  <2>2. task' = Every(task, input.value)
    BY <1>7 DEF ParseMidday, At
  <2>3. AfterEvery(task')
    BY <2>1, <2>2
  <2> QED BY <2>3 DEF AfterEvery, WellBuilt
<1>10. CASE ParseAt
  <2>1. task' = task
    BY <1>10 DEF ParseAt, At
  <2> QED BY <1>1, <2>1 DEF Fresh, WellBuilt
<1>8. CASE ParseCron
  BY <1>1, <1>8, CronIsSound DEF ParseCron, Parsed
<1>9. CASE ParseOther
  BY <1>3, <1>9 DEF ParseOther, Parsed
<1> QED BY <1>4, <1>5, <1>6, <1>7, <1>8, <1>9, <1>10 DEF ParseSchedule

\* At changes the times of a task only, and may fail.
LEMMA AtLeavesPeriod ==
  ASSUME ParseInv, AtStep
  PROVE  IsTask(task') /\ (task'.error = {} => WellBuilt(task'))
<1>1. IsTask(task) /\ (task.error = {} => WellBuilt(task))
  <2>1. stage # "new"
    BY DEF AtStep, AtEnds, AtFails, addRunAtTime, SearchRunAt, InsertRunAt
  <2> QED BY <2>1 DEF ParseInv
<1>2. CASE task' = task
  BY <1>1, <1>2
<1>3. CASE task' = Fail(task, "time")
  BY <1>1, <1>3, FailIsFinal
<1>4. ASSUME NEW a, task' = [task EXCEPT !.runAt = a]
      PROVE  IsTask(task') /\ (task'.error = {} => WellBuilt(task'))
  BY <1>1, <1>4 DEF IsTask, WellBuilt
<1>5. CASE InsertRunAt
  BY <1>2, <1>4, <1>5 DEF InsertRunAt
<1> QED BY <1>2, <1>3, <1>5 DEF AtStep, AtEnds, AtFails, addRunAtTime, SearchRunAt

-----------------------------------------------------------------------------
(* The checks of Schedule, and the theorems.                               *)

\* A task that passes the checks has an interval if its unit needs one, and weekdays
\* only with weeks. The checks change nothing but the errors.
LEMMA ChecksOfSchedule ==
  ASSUME NEW s, IsTask(s)
  PROVE  LET t == CheckInterval(CheckWeekdays(s))
         IN  /\ IsTask(t)
             /\ t.interval = s.interval /\ t.duration = s.duration /\ t.days = s.days
             /\ t.unit = s.unit /\ t.weekdays = s.weekdays
             /\ t.error = {} =>
                   /\ s.error = {}
                   /\ s.interval = 0 => s.unit \in {"once", "duration", "crontab"}
                   /\ s.weekdays # {} => s.unit = "weeks"
<1> DEFINE w == CheckWeekdays(s)
           t == CheckInterval(w)
<1>1. /\ IsTask(w)
      /\ w.interval = s.interval /\ w.duration = s.duration /\ w.days = s.days
      /\ w.unit = s.unit /\ w.weekdays = s.weekdays
      /\ w.error = {} => s.error = {} /\ (s.weekdays # {} => s.unit = "weeks")
  BY DEF CheckWeekdays, Fail, IsTask
<1> HIDE DEF w
<1>2. /\ IsTask(t)
      /\ t.interval = w.interval /\ t.duration = w.duration /\ t.days = w.days
      /\ t.unit = w.unit /\ t.weekdays = w.weekdays
      /\ t.error = {} =>
            /\ w.error = {}
            /\ w.interval = 0 => w.unit \in {"once", "duration", "crontab"}
  BY <1>1 DEF CheckInterval, Fail, IsTask
<1> QED BY <1>1, <1>2 DEF w

\* What a task is at each stage of its parsing, for any schedule.
THEOREM ParseInvariant == Spec => []ParseInv
<1>1. Init => ParseInv
  BY NewIsFresh DEF Init, ParseInv, Fresh
<1>2. ParseInv /\ [Next]_vars => ParseInv'
  <2> SUFFICES ASSUME ParseInv, [Next]_vars PROVE ParseInv'
    OBVIOUS
  <2>1. CASE ParseSchedule
    <3>1. stage' \in {"at", "parsed"} /\ input' = input
      BY <2>1 DEF ParseSchedule, ParseNow, ParseTooShort, ParseEvery, ParseMidday,
         ParseAt, ParseCron, ParseOther, Parsed, At
    <3>2. IsTask(task') /\ (task'.error = {} => WellBuilt(task'))
      BY <2>1, ParsedIsSound
    <3> QED BY <3>1, <3>2 DEF ParseInv
  <2>2. CASE Schedule
    <3>1. /\ stage = "parsed" /\ input' = input
          /\ task' = CheckInterval(CheckWeekdays(task))
          /\ stage' = IF task'.error = {} THEN "accepted" ELSE "rejected"
      BY <2>2 DEF Schedule
    <3>2. /\ IsTask(task')
          /\ task'.interval = task.interval /\ task'.duration = task.duration
          /\ task'.days = task.days /\ task'.unit = task.unit
          /\ task'.weekdays = task.weekdays
          /\ task'.error = {} =>
                /\ task.error = {}
                /\ task.interval = 0 => task.unit \in {"once", "duration", "crontab"}
                /\ task.weekdays # {} => task.unit = "weeks"
      BY <3>1, ChecksOfSchedule DEF ParseInv
    <3>3. task'.error = {} => WellBuilt(task')
      BY <3>1, <3>2 DEF ParseInv, WellBuilt
    <3> QED BY <3>1, <3>2, <3>3 DEF ParseInv
  <2>3. CASE AtStep
    <3>1. stage \in {"at", "search"} /\ stage' \in {"at", "search", "parsed"} /\ input' = input
      BY <2>3 DEF AtStep, AtEnds, AtFails, addRunAtTime, SearchRunAt, InsertRunAt
    <3>2. IsTask(task') /\ (task'.error = {} => WellBuilt(task'))
      BY <2>3, AtLeavesPeriod
    <3> QED BY <3>1, <3>2 DEF ParseInv
  <2>4. CASE UNCHANGED vars
    BY <2>4 DEF vars, ParseInv, IsTask, WellBuilt
  <2> QED BY <2>1, <2>2, <2>3, <2>4 DEF Next
<1> QED BY <1>1, <1>2, PTL DEF Spec

\* An accepted task has one description of its period: the units that setSchedulingUnit
\* refuses to replace and the checks of Schedule leave no other.
THEOREM OnePeriodHolds == Spec => []OnePeriod
<1>1. ParseInv => OnePeriod
  BY DEF ParseInv, WellBuilt, OnePeriod
<1> QED BY <1>1, ParseInvariant, PTL

\* The days of an accepted monthly task are days of every month, or the last one alone,
\* and do not repeat: Months lets no others pass.
THEOREM AcceptedDaysExistHolds == Spec => []AcceptedDaysExist
<1>1. ParseInv => AcceptedDaysExist
  BY DEF ParseInv, WellBuilt, AcceptedDaysExist
<1> QED BY <1>1, ParseInvariant, PTL

-----------------------------------------------------------------------------
(* The times of day. The other calls leave them to At, whose loop and       *)
(* binary search are followed step by step.                                *)

\* The builder calls that made t of s gave the fields their types and left the times
\* alone.
Kept(t, s) == t \in ScheduledTasks /\ t.runAt = s.runAt

\* A failed call adds an error only.
LEMMA FailKeeps ==
  ASSUME NEW s \in ScheduledTasks, NEW e \in Errors
  PROVE  Kept(Fail(s, e), s)
BY DEF ScheduledTasks, Fail, Kept

\* setSchedulingUnit sets a unit or fails.
LEMMA UnitKeeps ==
  ASSUME NEW s \in ScheduledTasks, NEW u \in Units
  PROVE  Kept(setSchedulingUnit(s, u), s)
<1>1. Kept([s EXCEPT !.unit = u], s)
  BY DEF ScheduledTasks, Kept
<1> QED BY <1>1, FailKeeps DEF setSchedulingUnit, Errors

\* Every sets the interval, or the duration and its unit.
LEMMA EveryKeeps ==
  ASSUME NEW s \in ScheduledTasks, NEW v, v.amount \in Int
  PROVE  Kept(Every(s, v), s)
<1>1. ASSUME NEW n \in Int
      PROVE  /\ Kept([s EXCEPT !.interval = n], s)
             /\ Kept([s EXCEPT !.duration = n], s)
  BY DEF ScheduledTasks, Kept
<1>2. ASSUME NEW t, Kept(t, s), NEW e \in Errors
      PROVE  Kept(Fail(t, e), s) /\ Kept(setSchedulingUnit(t, "duration"), s)
  <2>1. t \in ScheduledTasks /\ t.runAt = s.runAt
    BY <1>2 DEF Kept
  <2>2. Kept(Fail(t, e), t) /\ Kept(setSchedulingUnit(t, "duration"), t)
    BY <2>1, FailKeeps, UnitKeeps DEF Units
  <2> QED BY <2>1, <2>2 DEF Kept
<1>3. "interval" \in Errors /\ "span" \in Errors
  BY DEF Errors
<1>4. CASE v.kind = "number"
  BY <1>1, <1>2, <1>3, <1>4 DEF Every
<1>5. CASE v.kind = "span"
  BY <1>1, <1>2, <1>3, <1>5 DEF Every
<1>6. CASE v.kind \notin {"number", "span"}
  <2> DEFINE z == [s EXCEPT !.duration = 0]
             f == Fail(z, "span")
  <2>1. Kept(z, s)
    <3>1. 0 \in Int
      OBVIOUS
    <3> QED BY <1>1, <3>1, Zenon
  <2>2. Every(s, v) = setSchedulingUnit(f, "duration")
    BY <1>6 DEF Every
  <2> HIDE DEF z
  <2>3. Kept(f, s)
    BY <1>2, <1>3, <2>1
  <2> HIDE DEF f
  <2> QED BY <1>2, <1>3, <2>2, <2>3
<1> QED BY <1>4, <1>5, <1>6

\* Months adds days of the month.
LEMMA MonthsKeeps ==
  ASSUME NEW s \in ScheduledTasks, NEW days \in Seq(Int)
  PROVE  Kept(Months(s, days), s)
<1> DEFINE w == IF WrongDays(s, days) THEN Fail(s, "days") ELSE s
           n == w.days \o days
           d == [w EXCEPT !.days = n]
           m == [d EXCEPT !.immediate = FALSE]
<1>1. w \in ScheduledTasks /\ w.runAt = s.runAt
  BY FailKeeps DEF Errors, Kept
<1>2. m = [w EXCEPT !.days = @ \o days, !.immediate = FALSE]
  OBVIOUS
<1>3. Months(s, days) = setSchedulingUnit(m, "months")
  BY <1>2 DEF Months
<1> HIDE DEF w
<1>4. n \in Seq(Int)
  <2>1. w.days \in Seq(Int)
    BY <1>1 DEF ScheduledTasks
  <2> QED BY <2>1
<1> HIDE DEF n
<1>5. d \in ScheduledTasks /\ d.runAt = s.runAt
  BY <1>1, <1>4 DEF ScheduledTasks
<1> HIDE DEF d
<1>6. m \in ScheduledTasks /\ m.runAt = s.runAt
  BY <1>5 DEF ScheduledTasks
<1> HIDE DEF m
<1>7. Kept(setSchedulingUnit(m, "months"), m)
  BY <1>6, UnitKeeps DEF Units
<1> QED BY <1>3, <1>6, <1>7 DEF Kept

\* Weekday adds a weekday.
LEMMA WeekdayKeeps ==
  ASSUME NEW s \in ScheduledTasks, NEW d \in Weekdays
  PROVE  Kept(Weekday(s, d), s)
<1> DEFINE w == [s EXCEPT !.weekdays = @ \cup {d}]
           m == [w EXCEPT !.immediate = FALSE]
<1>1. w \in ScheduledTasks /\ w.runAt = s.runAt
  BY DEF ScheduledTasks
<1>2. m = [s EXCEPT !.weekdays = @ \cup {d}, !.immediate = FALSE]
  OBVIOUS
<1>3. Weekday(s, d) = setSchedulingUnit(m, "weeks")
  BY <1>2 DEF Weekday
<1> HIDE DEF w
<1>4. m \in ScheduledTasks /\ m.runAt = s.runAt
  BY <1>1 DEF ScheduledTasks
<1> HIDE DEF m
<1>5. Kept(setSchedulingUnit(m, "weeks"), m)
  BY <1>4, UnitKeeps DEF Units, TimeUnits
<1> QED BY <1>3, <1>4, <1>5 DEF Kept

\* Whatever follows the interval.
LEMMA ApplyUnitKeeps ==
  ASSUME NEW s \in ScheduledTasks, NEW in \in Schedules
  PROVE  Kept(ApplyUnit(s, in), s)
<1>1. in.days \in Seq(Int)
  BY DEF Schedules
<1>2. Kept(s, s) /\ \A e \in Errors : Kept(Fail(s, e), s)
  BY FailKeeps DEF Kept
<1>3. CASE in.unit = "monthdays" /\ in.days # <<>>
  <2> DEFINE p == ParseDaysOfMonth(s, in.days)
  <2>1. Kept(p.task, s) /\ p.days \in Seq(Int)
    <3>1. CASE Garbled \in Range(in.days)
      <4>1. p.task = Fail(s, "days") /\ p.days = <<>>
        BY <3>1 DEF ParseDaysOfMonth
      <4> HIDE DEF p
      <4> QED BY <1>2, <4>1 DEF Errors
    <3>2. CASE Garbled \notin Range(in.days)
      <4>1. p.task = s /\ p.days = in.days
        BY <3>2 DEF ParseDaysOfMonth
      <4> HIDE DEF p
      <4> QED BY <1>1, <1>2, <4>1
    <3> QED BY <3>1, <3>2
  <2>2. ApplyUnit(s, in) = Months(p.task, p.days)
    BY <1>3 DEF ApplyUnit, TimeUnits, Weekdays
  <2> HIDE DEF p
  <2>3. Kept(Months(p.task, p.days), p.task)
    BY <2>1, MonthsKeeps DEF Kept
  <2> QED BY <2>1, <2>2, <2>3 DEF Kept
<1>4. CASE in.unit \in TimeUnits
  <2>1. ApplyUnit(s, in) = setSchedulingUnit(s, in.unit)
    BY <1>4 DEF ApplyUnit, TimeUnits, Weekdays
  <2> QED BY <1>4, <2>1, UnitKeeps DEF Units
<1>5. CASE in.unit \in Weekdays
  <2>1. ApplyUnit(s, in) = Weekday(s, in.unit)
    BY <1>5 DEF ApplyUnit, TimeUnits, Weekdays
  <2> QED BY <1>5, <2>1, WeekdayKeeps
<1>6. CASE in.unit \notin TimeUnits \cup Weekdays /\ ~(in.unit = "monthdays" /\ in.days # <<>>)
  <2>1. ApplyUnit(s, in) \in {s, Fail(s, "type"), Fail(s, "unit")}
    BY <1>6 DEF ApplyUnit
  <2> QED BY <1>2, <2>1 DEF Errors
<1> QED BY <1>3, <1>4, <1>5, <1>6

\* Cron sets its unit and replaces the errors.
LEMMA CronKeeps ==
  ASSUME NEW s \in ScheduledTasks, NEW v
  PROVE  Kept(Cron(s, v), s)
<1> DEFINE c == [s EXCEPT !.unit = "crontab"]
           i == [c EXCEPT !.immediate = FALSE]
           x == IF v.kind = "descriptor" THEN i.error ELSE {"cron"}
           e == [i EXCEPT !.error = x]
<1>1. Cron(s, v) = e
  BY DEF Cron
<1>2. c \in ScheduledTasks /\ c.runAt = s.runAt
  BY DEF ScheduledTasks, Units
<1> HIDE DEF c
<1>3. i \in ScheduledTasks /\ i.runAt = s.runAt
  BY <1>2 DEF ScheduledTasks
<1> HIDE DEF i
<1>4. x \subseteq Errors
  BY <1>3 DEF ScheduledTasks, Errors
<1> HIDE DEF x
<1>5. e \in ScheduledTasks /\ e.runAt = s.runAt
  BY <1>3, <1>4 DEF ScheduledTasks
<1> QED BY <1>1, <1>5 DEF Kept

\* Now sets its unit.
LEMMA NowKeeps ==
  ASSUME NEW s \in ScheduledTasks
  PROVE  Kept(Now([s EXCEPT !.unit = "once", !.immediate = TRUE]), s)
<1> DEFINE w == [s EXCEPT !.unit = "once"]
           m == [w EXCEPT !.immediate = TRUE]
<1>1. w \in ScheduledTasks /\ w.runAt = s.runAt
  BY DEF ScheduledTasks, Units
<1>2. m = [s EXCEPT !.unit = "once", !.immediate = TRUE]
  OBVIOUS
<1>3. Now([s EXCEPT !.unit = "once", !.immediate = TRUE]) = setSchedulingUnit(m, "once")
  BY <1>2 DEF Now
<1> HIDE DEF w
<1>4. m \in ScheduledTasks /\ m.runAt = s.runAt
  BY <1>1 DEF ScheduledTasks
<1> HIDE DEF m
<1>5. Kept(setSchedulingUnit(m, "once"), m)
  BY <1>4, UnitKeeps DEF Units
<1> QED BY <1>3, <1>4, <1>5 DEF Kept

\* The checks of Schedule add errors only.
LEMMA ChecksKeep ==
  ASSUME NEW s \in ScheduledTasks
  PROVE  Kept(CheckInterval(CheckWeekdays(s)), s)
<1> DEFINE w == CheckWeekdays(s)
<1>1. Kept(w, s)
  BY FailKeeps DEF CheckWeekdays, Errors, Kept
<1> HIDE DEF w
<1>2. Kept(CheckInterval(w), w)
  BY <1>1, FailKeeps DEF CheckInterval, Errors, Kept
<1> QED BY <1>1, <1>2 DEF w, Kept

\* The elements of a sequence in which one more was put in place i.
LEMMA InsertedAt ==
  ASSUME NEW S, NEW a \in Seq(S), NEW i \in 1..(Len(a) + 1), NEW e \in S
  PROVE  /\ InsertAt(a, i, e) \in Seq(S)
         /\ Len(InsertAt(a, i, e)) = Len(a) + 1
         /\ \A k \in 1..(Len(a) + 1) :
               InsertAt(a, i, e)[k] = IF k < i THEN a[k] ELSE IF k = i THEN e ELSE a[k - 1]
<1> DEFINE p == SubSeq(a, 1, i - 1)
           q == SubSeq(a, i, Len(a))
           r == p \o <<e>>
           n == Len(a)
<1>1. n \in Nat /\ i \in 1..(n + 1) /\ \A k \in 1..n : a[k] \in S
  OBVIOUS
<1>2. /\ p \in Seq(S) /\ Len(p) = i - 1
      /\ \A k \in 1..(i - 1) : p[k] = a[k]
  <2>1. \A k \in 1..(i - 1) : a[k] \in S
    BY <1>1
  <2>2. i - 1 \in Nat /\ 1 \in Int /\ i - 1 - 1 + 1 = i - 1 /\ (1 <= i - 1 <=> i - 1 # 0)
    BY <1>1
  <2>3. /\ p \in Seq(S) /\ Len(p) = IF 1 <= i - 1 THEN i - 1 - 1 + 1 ELSE 0
        /\ \A k \in 1..(i - 1 - 1 + 1) : p[k] = a[1 + k - 1]
    BY <2>1, <2>2, SubSeqProperties
  <2> HIDE DEF p
  <2> QED BY <2>2, <2>3
<1>3. /\ q \in Seq(S) /\ Len(q) = n - i + 1
      /\ \A k \in 1..(n - i + 1) : q[k] = a[i + k - 1]
  <2>1. \A k \in i..n : a[k] \in S
    BY <1>1
  <2>2. i \in Int /\ n \in Int
    BY <1>1
  <2>3. /\ q \in Seq(S) /\ Len(q) = IF i <= n THEN n - i + 1 ELSE 0
        /\ \A k \in 1..(n - i + 1) : q[k] = a[i + k - 1]
    BY <2>1, <2>2, SubSeqProperties
  <2> HIDE DEF q, n
  <2> QED BY <1>1, <2>3
<1>4. <<e>> \in Seq(S) /\ Len(<<e>>) = 1 /\ <<e>>[1] = e
  OBVIOUS
<1>5. InsertAt(a, i, e) = r \o q
  BY DEF InsertAt
<1> HIDE DEF p, q, n
<1>6. /\ r \in Seq(S) /\ Len(r) = i
      /\ \A k \in 1..i : r[k] = IF k <= i - 1 THEN p[k] ELSE e
  <2>1. /\ r \in Seq(S) /\ Len(r) = Len(p) + 1
        /\ \A k \in 1..(Len(p) + 1) : r[k] = IF k <= Len(p) THEN p[k] ELSE <<e>>[k - Len(p)]
    BY <1>2, <1>4, ConcatProperties
  <2> HIDE DEF r
  <2> QED BY <1>2, <1>4, <2>1
<1> HIDE DEF r
<1>7. /\ r \o q \in Seq(S) /\ Len(r \o q) = n + 1
      /\ \A k \in 1..(n + 1) : (r \o q)[k] = IF k <= i THEN r[k] ELSE q[k - i]
  <2>1. /\ r \o q \in Seq(S) /\ Len(r \o q) = Len(r) + Len(q)
        /\ \A k \in 1..(Len(r) + Len(q)) : (r \o q)[k] = IF k <= Len(r) THEN r[k] ELSE q[k - Len(r)]
    BY <1>3, <1>6, ConcatProperties
  <2>2. Len(r) + Len(q) = n + 1
    BY <1>1, <1>3, <1>6
  <2> QED BY <1>6, <2>1, <2>2
<1> DEFINE b == r \o q
<1> HIDE DEF b
<1>8. ASSUME NEW k \in 1..(n + 1)
      PROVE  b[k] = IF k < i THEN a[k] ELSE IF k = i THEN e ELSE a[k - 1]
  <2>1. CASE k < i
    BY <1>1, <1>2, <1>6, <1>7, <2>1 DEF b
  <2>2. CASE k = i
    BY <1>1, <1>6, <1>7, <2>2 DEF b
  <2>3. CASE k > i
    <3>1. k - i \in 1..(n - i + 1) /\ i + (k - i) - 1 = k - 1
      BY <1>1, <2>3
    <3>2. q[k - i] = a[k - 1]
      BY <1>3, <3>1
    <3> QED BY <1>1, <1>7, <2>3, <3>2 DEF b
  <2> QED BY <1>1, <2>1, <2>2, <2>3
<1> QED BY <1>5, <1>7, <1>8 DEF b, n

\* A time put between the earlier and the later ones leaves them in order.
LEMMA InsertedInOrder ==
  ASSUME NEW a \in Seq(TimesOfDay), Sorted(a),
         NEW i \in 1..(Len(a) + 1), NEW e \in TimesOfDay,
         \A k \in 1..(i - 1) : a[k] < e,
         \A k \in i..Len(a) : a[k] > e
  PROVE  /\ Sorted(InsertAt(a, i, e))
         /\ Range(InsertAt(a, i, e)) = Range(a) \cup {e}
<1> DEFINE b == InsertAt(a, i, e)
           n == Len(a)
<1>1. /\ b \in Seq(TimesOfDay) /\ Len(b) = n + 1
      /\ \A k \in 1..(n + 1) : b[k] = IF k < i THEN a[k] ELSE IF k = i THEN e ELSE a[k - 1]
  BY InsertedAt
<1>2. n \in Nat /\ DOMAIN a = 1..n /\ DOMAIN b = 1..(n + 1)
  BY <1>1
<1>3. \A k \in 1..n : a[k] \in Nat
  <2>1. \A k \in 1..n : a[k] \in TimesOfDay
    OBVIOUS
  <2>2. TimesOfDay \subseteq Nat
    BY ParseAssumption
  <2> QED BY <2>1, <2>2
<1>4. e \in Nat /\ i \in 1..(n + 1)
  BY ParseAssumption
<1>5. \A k, l \in 1..n : k < l => a[k] < a[l]
  BY <1>2 DEF Sorted
<1>6. (\A k \in 1..(i - 1) : a[k] < e) /\ (\A k \in i..n : a[k] > e)
  OBVIOUS
<1> HIDE DEF b, n
<1>7. ASSUME NEW k \in 1..(n + 1), NEW l \in 1..(n + 1), k < l PROVE b[k] < b[l]
  <2>1. CASE l < i
    BY <1>1, <1>2, <1>4, <1>5, <1>7, <2>1
  <2>2. CASE l = i
    BY <1>1, <1>2, <1>4, <1>6, <1>7, <2>2
  <2>3. CASE l > i
    <3>1. b[l] = a[l - 1] /\ l - 1 \in i..n
      BY <1>1, <1>2, <1>4, <2>3
    <3>2. CASE k < i
      <4>1. b[k] = a[k] /\ k \in 1..n /\ k < l - 1
        BY <1>1, <1>2, <1>4, <2>3, <3>2
      <4> QED BY <1>2, <1>4, <1>5, <3>1, <4>1
    <3>3. CASE k = i
      BY <1>1, <1>3, <1>4, <1>6, <3>1, <3>3
    <3>4. CASE k > i
      <4>1. b[k] = a[k - 1] /\ k - 1 \in 1..n /\ k - 1 < l - 1
        BY <1>1, <1>2, <1>4, <1>7, <3>4
      <4> QED BY <1>2, <1>4, <1>5, <3>1, <4>1
    <3> QED BY <1>4, <3>2, <3>3, <3>4
  <2> QED BY <1>4, <2>1, <2>2, <2>3
<1>8. Range(b) = Range(a) \cup {e}
  <2>1. ASSUME NEW k \in 1..(n + 1) PROVE b[k] \in Range(a) \cup {e}
    <3>1. CASE k < i
      <4>1. b[k] = a[k] /\ k \in DOMAIN a
        BY <1>1, <1>2, <1>4, <3>1
      <4> QED BY <4>1 DEF Range
    <3>2. CASE k = i
      BY <1>1, <1>4, <3>2
    <3>3. CASE k > i
      <4>1. b[k] = a[k - 1] /\ k - 1 \in DOMAIN a
        BY <1>1, <1>2, <1>4, <3>3
      <4> QED BY <4>1 DEF Range
    <3> QED BY <1>4, <3>1, <3>2, <3>3
  <2>2. ASSUME NEW k \in 1..n PROVE a[k] \in Range(b)
    <3>1. CASE k < i
      <4>1. b[k] = a[k] /\ k \in DOMAIN b
        BY <1>1, <1>2, <1>4, <3>1
      <4> QED BY <4>1 DEF Range
    <3>2. CASE k >= i
      <4>1. k + 1 \in 1..(n + 1) /\ ~(k + 1 < i) /\ k + 1 # i /\ (k + 1) - 1 = k
        BY <1>2, <1>4, <3>2
      <4>2. b[k + 1] = a[k] /\ k + 1 \in DOMAIN b
        BY <1>1, <1>2, <4>1
      <4> QED BY <4>2 DEF Range
    <3> QED BY <1>4, <3>1, <3>2
  <2>3. e \in Range(b)
    <3>1. b[i] = e /\ i \in DOMAIN b
      BY <1>1, <1>2, <1>4
    <3> QED BY <3>1 DEF Range
  <2> QED BY <1>2, <2>1, <2>2, <2>3 DEF Range
<1> QED BY <1>2, <1>7, <1>8 DEF Sorted, b

\* Each branch of ParseSchedule leaves the times to At, and gives At those of an "at"
\* schedule.
LEMMA ParseLeavesTimes ==
  ASSUME ParseInv, TypeOK, AtInv, ParseSchedule
  PROVE  TypeOK' /\ AtInv'
<1>1. /\ stage = "new" /\ list = <<>> /\ next = 1 /\ task.runAt = <<>>
      /\ UNCHANGED <<input, next, low, high, exist>>
  <2>1. stage = "new" /\ UNCHANGED <<input, next, low, high, exist>>
    BY DEF ParseSchedule, ParseNow, ParseTooShort, ParseEvery, ParseMidday,
       ParseAt, ParseCron, ParseOther, Parsed, At, atVars, searchVars
  <2> QED BY <2>1 DEF AtInv
<1>2. /\ task \in ScheduledTasks /\ input \in Schedules /\ input.value \in Values
      /\ input.value.amount \in Int /\ input.value.times \in Seq(TimesOfDay \cup {Bad})
  <2>1. task \in ScheduledTasks /\ input \in Schedules
    BY DEF TypeOK
  <2>2. input.value \in Values
    BY <2>1 DEF Schedules
  <2> QED BY <2>1, <2>2 DEF Values
<1>3. Kept(Every(task, input.value), task)
  BY <1>2, EveryKeeps
<1>4. \A e \in Errors : Kept(Fail(task, e), task)
  BY <1>2, FailKeeps
<1>5. /\ Kept(task', task) /\ stage' \in {"at", "parsed"}
      /\ list' \in Seq(TimesOfDay \cup {Bad})
      /\ stage' = "parsed" => list' = <<>>
      /\ input.head = "at" /\ input.value.kind = "times" => list' = input.value.times
  <2>1. CASE ParseNow
    <3>1. PICK now \in TimesOfDay :
             At(Now([task EXCEPT !.unit = "once", !.immediate = TRUE]), <<now>>)
      BY <2>1 DEF ParseNow
    <3>2. task' = Now([task EXCEPT !.unit = "once", !.immediate = TRUE])
      BY <3>1 DEF At
    <3>3. Kept(task', task)
      BY <1>2, <3>2, NowKeeps
    <3>4. stage' = "at" /\ list' = <<now>> /\ input.head # "at"
      BY <2>1, <3>1 DEF ParseNow, At
    <3> QED BY <3>3, <3>4
  <2>2. CASE ParseTooShort
    <3>1. /\ task' = Fail(task, "type") /\ stage' = "parsed" /\ list' = list
          /\ input.value.kind = "none"
      BY <2>2 DEF ParseTooShort, TooShort, Parsed, atVars
    <3> QED BY <1>1, <1>4, <3>1 DEF Errors
  <2>3. CASE ParseEvery
    <3> DEFINE ev == Every(task, input.value)
    <3>1. /\ task' = ApplyUnit(ev, input) /\ stage' = "parsed" /\ list' = list
          /\ input.head # "at"
      BY <2>3 DEF ParseEvery, Parsed, atVars
    <3> HIDE DEF ev
    <3>2. Kept(ApplyUnit(ev, input), ev)
      BY <1>2, <1>3, ApplyUnitKeeps DEF ev, Kept
    <3>3. Kept(task', task)
      BY <1>3, <3>1, <3>2 DEF ev, Kept
    <3> QED BY <1>1, <3>1, <3>3
  <2>4. CASE ParseMidday
    <3>1. /\ task' = Every(task, input.value) /\ stage' = "at" /\ list' = <<Noon>>
          /\ input.head # "at"
      BY <2>4 DEF ParseMidday, At
    <3> QED BY <1>3, <3>1, ParseAssumption
  <2>5. CASE ParseAt
    <3>1. /\ task' = task /\ stage' = "at"
          /\ list' = IF input.value.kind = "times" THEN input.value.times ELSE <<Bad>>
      BY <2>5 DEF ParseAt, At
    <3>2. <<Bad>> \in Seq(TimesOfDay \cup {Bad})
      OBVIOUS
    <3>3. list' \in Seq(TimesOfDay \cup {Bad})
      BY <1>2, <3>1, <3>2
    <3> QED BY <1>2, <3>1, <3>3 DEF Kept
  <2>6. CASE ParseCron
    <3>1. /\ task' = Cron(task, input.value) /\ stage' = "parsed" /\ list' = list
          /\ input.head # "at"
      BY <2>6 DEF ParseCron, Parsed, atVars
    <3>2. Kept(task', task)
      BY <1>2, <3>1, CronKeeps
    <3> QED BY <1>1, <3>1, <3>2
  <2>7. CASE ParseOther
    <3>1. /\ task' = Fail(task, "type") /\ stage' = "parsed" /\ list' = list
          /\ input.head # "at"
      BY <2>7 DEF ParseOther, Parsed, atVars
    <3> QED BY <1>1, <1>4, <3>1 DEF Errors
  <2> QED BY <2>1, <2>2, <2>3, <2>4, <2>5, <2>6, <2>7 DEF ParseSchedule
<1>6. TypeOK'
  BY <1>1, <1>5 DEF TypeOK, Kept
<1>7. RunAtSoFar' /\ (stage' = "parsed" => next' > Len(list'))
  <2>1. /\ task'.runAt = <<>> /\ next' = 1 /\ Len(list') \in Nat
        /\ stage' = "parsed" => Len(list') = 0
    BY <1>1, <1>5 DEF Kept
  <2>2. Range(task'.runAt) = {} /\ Sorted(task'.runAt)
    BY <2>1 DEF Range, Sorted
  <2> QED BY <2>1, <2>2 DEF RunAtSoFar
<1> QED BY <1>1, <1>5, <1>6, <1>7 DEF AtInv, TypeOK

\* A step of At keeps what its loop and its search know.
LEMMA AtKeepsTimes ==
  ASSUME TypeOK, AtInv, AtStep
  PROVE  TypeOK' /\ AtInv'
<1> DEFINE a == task.runAt
           n == Len(a)
           x == list[next]
<1>1. /\ task \in ScheduledTasks /\ a \in Seq(TimesOfDay) /\ n \in Nat
      /\ list \in Seq(TimesOfDay \cup {Bad}) /\ Len(list) \in Nat
      /\ next \in Nat /\ next >= 1 /\ low \in Nat /\ high \in Nat
  <2>1. task \in ScheduledTasks
    BY DEF TypeOK
  <2>2. a \in Seq(TimesOfDay)
    BY <2>1 DEF ScheduledTasks
  <2> QED BY <2>1, <2>2 DEF TypeOK
<1>2. /\ RunAtSoFar
      /\ input.head = "at" /\ input.value.kind = "times" => list = input.value.times
      /\ UNCHANGED <<input, list>>
  <2>1. stage # "new" /\ UNCHANGED <<input, list>>
    BY DEF AtStep, AtEnds, AtFails, addRunAtTime, SearchRunAt, InsertRunAt, atVars
  <2> QED BY <2>1 DEF AtInv
<1>3. \A k \in 1..n : a[k] \in Nat
  <2>1. TimesOfDay \subseteq Nat
    BY ParseAssumption
  <2> QED BY <1>1, <2>1, ElementOfSeq
<1>4. ASSUME next <= Len(list), x # Bad PROVE x \in TimesOfDay /\ x \in Nat
  <2>1. next \in 1..Len(list)
    BY <1>1, <1>4
  <2>2. x \in TimesOfDay \cup {Bad}
    BY <1>1, <2>1, ElementOfSeq
  <2> QED BY <1>4, <2>2, ParseAssumption
<1>5. CASE AtEnds
  <2>1. /\ next > Len(list) /\ stage' = "parsed"
        /\ UNCHANGED <<task, next, low, high, exist>>
    BY <1>5 DEF AtEnds, atVars, searchVars
  <2> QED BY <1>1, <1>2, <2>1 DEF TypeOK, AtInv, RunAtSoFar
<1>6. CASE AtFails
  <2>1. /\ next <= Len(list) /\ x = Bad /\ stage' = "parsed" /\ task' = Fail(task, "time")
        /\ UNCHANGED <<next, low, high, exist>>
    BY <1>6 DEF AtFails, atVars, searchVars
  <2>2. Kept(task', task)
    BY <1>1, <2>1, FailKeeps DEF Errors
  <2> QED BY <1>1, <1>2, <2>1, <2>2 DEF TypeOK, AtInv, RunAtSoFar, Kept
<1>7. CASE addRunAtTime
  <2>1. /\ next <= Len(list) /\ x # Bad /\ stage' = "search"
        /\ low' = 0 /\ high' = n /\ exist' = FALSE
        /\ UNCHANGED <<task, next>>
    BY <1>7 DEF addRunAtTime, atVars
  <2>2. SearchSoFar'
    BY <1>1, <1>2, <2>1 DEF SearchSoFar
  <2> QED BY <1>1, <1>2, <2>1, <2>2 DEF TypeOK, AtInv, RunAtSoFar
<1>8. CASE SearchRunAt
  <2> DEFINE h == (low + high) \div 2
  <2>1. /\ stage = "search" /\ low < high /\ UNCHANGED <<stage, task, next>>
        /\ IF a[h + 1] >= x
           THEN high' = h /\ exist' = (a[h + 1] = x) /\ UNCHANGED low
           ELSE low' = h + 1 /\ UNCHANGED <<high, exist>>
    BY <1>8 DEF SearchRunAt, atVars
  <2>2. SearchSoFar
    BY <2>1 DEF AtInv
  <2>3. x \in Nat /\ low <= h /\ h < high /\ high <= n /\ h \in Nat
    BY <1>1, <1>4, <2>1, <2>2 DEF SearchSoFar
  <2> HIDE DEF h
  <2>4. \A k, l \in 1..n : k < l => a[k] < a[l]
    BY <1>1, <1>2 DEF RunAtSoFar, Sorted
  <2>5. SearchSoFar'
    <3> HIDE DEF a, n, x
    <3>1. CASE a[h + 1] >= x
      <4>1. \A k \in (h + 1)..n : a[k] >= x
        BY <1>1, <1>3, <2>3, <2>4, <3>1
      <4>2. high' = h /\ low' = low /\ (exist' <=> a[h + 1] = x)
        BY <2>1, <3>1
      <4>3. exist' <=> high' < n /\ a[high' + 1] = x
        BY <1>1, <2>3, <4>2
      <4> QED BY <1>1, <1>2, <2>1, <2>2, <2>3, <4>1, <4>2, <4>3 DEF SearchSoFar, a, n, x
    <3>2. CASE ~(a[h + 1] >= x)
      <4>1. \A k \in 1..(h + 1) : a[k] < x
        BY <1>1, <1>3, <2>3, <2>4, <3>2
      <4>2. low' = h + 1 /\ high' = high /\ exist' = exist
        BY <2>1, <3>2
      <4> QED BY <1>1, <1>2, <2>1, <2>2, <2>3, <4>1, <4>2 DEF SearchSoFar, a, n, x
    <3> QED BY <3>1, <3>2
  <2>6. TypeOK'
    <3>1. exist' \in BOOLEAN
      <4>1. exist \in BOOLEAN /\ (a[h + 1] = x) \in BOOLEAN
        BY DEF TypeOK
      <4> QED BY <2>1, <4>1, Zenon
    <3>2. low' \in Nat /\ high' \in Nat
      BY <1>1, <2>1, <2>3
    <3> QED BY <1>1, <1>2, <2>1, <3>1, <3>2 DEF TypeOK
  <2> QED BY <1>2, <2>1, <2>5, <2>6 DEF AtInv, RunAtSoFar
<1>9. CASE InsertRunAt
  <2>1. /\ stage = "search" /\ low = high /\ stage' = "at" /\ next' = next + 1
        /\ UNCHANGED <<low, high, exist>>
        /\ task' = IF exist THEN task
                   ELSE [task EXCEPT !.runAt = InsertAt(@, low + 1, x)]
    BY <1>9 DEF InsertRunAt, searchVars
  <2>2. SearchSoFar
    BY <2>1 DEF AtInv
  <2>3. x \in TimesOfDay /\ x \in Nat /\ next <= Len(list) /\ x # Bad
    BY <1>4, <2>2 DEF SearchSoFar
  <2>4. Range(a) = {list[k] : k \in 1..(next - 1)} /\ Sorted(a)
    BY <1>2 DEF RunAtSoFar
  <2>5. /\ task' \in ScheduledTasks
        /\ Sorted(task'.runAt) /\ Range(task'.runAt) = Range(a) \cup {x}
    <3>1. CASE exist
      <4>1. task' = task /\ high < n /\ a[high + 1] = x
        BY <2>1, <2>2, <3>1 DEF SearchSoFar
      <4>2. x \in Range(a)
        BY <1>1, <4>1 DEF Range
      <4> QED BY <1>1, <2>4, <4>1, <4>2
    <3>2. CASE ~exist
      <4> DEFINE b == InsertAt(a, low + 1, x)
      <4>1. task' = [task EXCEPT !.runAt = b]
        BY <2>1, <3>2
      <4>2. /\ low + 1 \in 1..(n + 1)
            /\ \A k \in 1..low : a[k] < x
            /\ \A k \in (low + 1)..n : a[k] >= x
            /\ low < n => a[low + 1] # x
        BY <1>1, <2>1, <2>2, <3>2 DEF SearchSoFar
      <4>3. ASSUME NEW k \in (low + 1)..n PROVE a[k] > x
        <5>1. low + 1 \in 1..n /\ k \in 1..n /\ a[k] \in Nat /\ a[low + 1] \in Nat
          BY <1>1, <1>3, <4>3
        <5>2. a[low + 1] > x
          BY <1>1, <2>3, <4>2, <5>1
        <5>3. k = low + 1 \/ a[low + 1] < a[k]
          BY <1>1, <2>4, <5>1, <4>3 DEF Sorted
        <5> QED BY <2>3, <5>1, <5>2, <5>3
      <4>4. (low + 1) - 1 = low
        BY <1>1
      <4>5. Sorted(b) /\ Range(b) = Range(a) \cup {x}
        BY <1>1, <2>3, <2>4, <4>2, <4>3, <4>4, InsertedInOrder
      <4>6. b \in Seq(TimesOfDay)
        BY <1>1, <2>3, <4>2, InsertedAt
      <4> HIDE DEF b
      <4>7. task' \in ScheduledTasks /\ task'.runAt = b
        BY <1>1, <4>1, <4>6 DEF ScheduledTasks
      <4> QED BY <4>5, <4>7
    <3> QED BY <3>1, <3>2
  <2>6. RunAtSoFar'
    <3>1. next' - 1 = next /\ next' <= Len(list) + 1
      BY <1>1, <2>1, <2>3
    <3>2. \A k \in 1..next : k \in 1..(next - 1) \/ k = next
      BY <1>1
    <3>3. \A k \in 1..next : list[k] # Bad
      BY <1>2, <2>3, <3>2 DEF RunAtSoFar
    <3>4. Range(a) \cup {x} = {list[k] : k \in 1..next}
      BY <1>1, <2>4, <3>2
    <3> QED BY <1>2, <2>5, <3>1, <3>3, <3>4 DEF RunAtSoFar
  <2>7. TypeOK'
    BY <1>1, <1>2, <2>1, <2>5 DEF TypeOK
  <2> QED BY <1>2, <2>1, <2>6, <2>7 DEF AtInv
<1> QED BY <1>5, <1>6, <1>7, <1>8, <1>9 DEF AtStep

\* A task under construction has the fields of a ScheduledTask, and At, time by time,
\* keeps its times in order, for any schedule.
THEOREM TimesInvariant == Spec => [](TypeOK /\ AtInv)
<1>1. Init => TypeOK /\ AtInv
  <2> SUFFICES ASSUME Init PROVE TypeOK /\ AtInv
    OBVIOUS
  <2>1. input \in Schedules
    BY ParseAssumption DEF Init
  <2>2. task \in ScheduledTasks /\ task.runAt = <<>>
    BY DEF Init, NewScheduledTask, ScheduledTasks, Units, Errors
  <2>3. TypeOK
    <3>1. <<>> \in Seq(TimesOfDay \cup {Bad}) /\ FALSE \in BOOLEAN
      OBVIOUS
    <3>2. list \in Seq(TimesOfDay \cup {Bad}) /\ exist \in BOOLEAN
      BY <3>1 DEF Init
    <3>3. next \in Nat \ {0} /\ low \in Nat /\ high \in Nat
      BY DEF Init
    <3> QED BY <2>1, <2>2, <3>2, <3>3 DEF Init, TypeOK
  <2>4. RunAtSoFar
    BY <2>2 DEF Init, RunAtSoFar, Range, Sorted
  <2> QED BY <2>2, <2>3, <2>4 DEF Init, AtInv
<1>2. ParseInv /\ TypeOK /\ AtInv /\ [Next]_vars => TypeOK' /\ AtInv'
  <2> SUFFICES ASSUME ParseInv, TypeOK, AtInv, [Next]_vars PROVE TypeOK' /\ AtInv'
    OBVIOUS
  <2>1. CASE Schedule
    <3>1. /\ stage = "parsed" /\ stage' \in {"accepted", "rejected"}
          /\ UNCHANGED <<input, list, next, low, high, exist>>
          /\ task' = CheckInterval(CheckWeekdays(task))
      BY <2>1 DEF Schedule, atVars, searchVars
    <3>2. Kept(task', task)
      BY <3>1, ChecksKeep DEF TypeOK
    <3> QED BY <3>1, <3>2 DEF TypeOK, AtInv, RunAtSoFar, Kept
  <2>2. CASE UNCHANGED vars
    BY <2>2 DEF vars, atVars, searchVars, TypeOK, AtInv, RunAtSoFar, SearchSoFar
  <2> QED BY <2>1, <2>2, ParseLeavesTimes, AtKeepsTimes DEF Next
<1> QED BY <1>1, <1>2, ParseInvariant, PTL DEF Spec

\* Every field of a task has its type at each stage, for any schedule.
THEOREM TypeCorrect == Spec => []TypeOK
BY TimesInvariant, PTL

\* The times of a parsed "at" schedule are its valid ones up to the first that is not,
\* each once and in order: the binary search finds the place of each.
THEOREM RunAtIsSortedSetHolds == Spec => []RunAtIsSortedSet
<1>1. TypeOK /\ AtInv => RunAtIsSortedSet
  <2> SUFFICES ASSUME TypeOK, AtInv,
                      stage \in {"parsed", "accepted", "rejected"},
                      input.head = "at", input.value.kind = "times"
               PROVE  RunAtIsSortedSet
    BY DEF RunAtIsSortedSet
  <2> DEFINE given == input.value.times
             good == {k \in DOMAIN given : \A l \in 1..k : given[l] # Bad}
  <2>1. /\ list = given /\ RunAtSoFar /\ next \in Nat /\ next >= 1
        /\ DOMAIN given = 1..Len(list) /\ Len(list) \in Nat
        /\ next <= Len(list) => given[next] = Bad
    BY DEF AtInv, TypeOK
  <2>2. \A k : k \in good <=> k \in 1..(next - 1)
    <3>1. ASSUME NEW k \in 1..(next - 1) PROVE k \in good
      <4>1. k \in DOMAIN given /\ \A l \in 1..k : l \in 1..(next - 1)
        BY <2>1 DEF RunAtSoFar
      <4> QED BY <2>1, <4>1 DEF RunAtSoFar
    <3>2. ASSUME NEW k \in good PROVE k \in 1..(next - 1)
      <4>1. k \in 1..Len(list) /\ \A l \in 1..k : given[l] # Bad
        BY <2>1
      <4>2. ~(next <= k)
        BY <2>1, <4>1
      <4> QED BY <2>1, <4>1, <4>2
    <3> QED BY <3>1, <3>2
  <2>3. Range(task.runAt) = {given[k] : k \in good} /\ Sorted(task.runAt)
    BY <2>1, <2>2 DEF RunAtSoFar
  <2> QED BY <2>3 DEF RunAtIsSortedSet
<1> QED BY <1>1, TimesInvariant, PTL
=============================================================================
