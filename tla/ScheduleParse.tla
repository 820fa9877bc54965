---------------------------- MODULE ScheduleParse ----------------------------
(***************************************************************************)
(* The schedule language: NewScheduledTask(...).ParseSchedule(str) and the *)
(* validation at the head of Schedule().  The calls build one record; each *)
(* is an operator on it here, and an error, once reported, is carried in   *)
(* the record until Schedule() refuses the task.  At() loops over times of *)
(* day and searches the place of each: its steps are actions.              *)
(*                                                                         *)
(* A schedule string is taken as the words it splits into, in lower case:  *)
(* the frequency, a value, and the unit and days of the month after it.    *)
(* Singular and plural units are one.  The two errors about days of the    *)
(* month are one.  A location prefix (TZ=) of a cron word is left out.     *)
(***************************************************************************)
EXTENDS Integers, SequencesExt

CONSTANTS
    Inputs,        \* schedules to parse
    TimesOfDay,    \* times, as durations from midnight
    Noon,
    Bad,           \* a time that does not parse
    Garbled        \* a day of the month that is not a number

TimeUnits == {"milliseconds", "seconds", "minutes", "hours", "days", "weeks"}
Weekdays == {"monday", "tuesday", "wednesday", "thursday", "friday", "saturday",
             "sunday"}
Units == TimeUnits \cup {"none", "once", "months", "duration", "crontab"}

\* The second word: a number, a duration (both with their amount), times
\* separated by semicolons, a cron descriptor such as @daily, or anything else,
\* the first field of a cron expression included.
Values == [kind: {"none", "number", "span", "times", "descriptor", "text"},
           amount: Int, times: Seq(TimesOfDay \cup {Bad})]

\* days is <<>> where the fourth word is missing.
Schedules == [device: BOOLEAN, head: {"now", "every", "at", "cron", "other"},
              value: Values,
              unit: TimeUnits \cup Weekdays \cup {"none", "midday", "monthdays", "unknown"},
              days: Seq(Int)]

ASSUME ParseAssumption ==
    /\ TimesOfDay \subseteq Nat
    /\ Noon \in TimesOfDay
    /\ Bad \notin TimesOfDay
    /\ Garbled \in Int \ (1..28)
    /\ \A in \in Inputs : in \in Schedules

VARIABLES
    input,
    stage,         \* "new", "at" and "search" in At, "parsed", "accepted", "rejected"
    task,          \* the ScheduledTask under construction
    list,          \* the times At was called with
    next,          \* index of the time to add
    low, high,     \* bounds of sort.Search in addRunAtTime
    exist          \* whether it met the time

atVars == <<list, next>>
searchVars == <<low, high, exist>>
vars == <<input, stage, task, atVars, searchVars>>

\* NewScheduledTask. The device ID may not parse.
NewScheduledTask(in) ==
    [unit |-> "none", interval |-> 0, duration |-> 0, runAt |-> <<>>,
     weekdays |-> {}, days |-> <<>>, immediate |-> FALSE,
     error |-> IF in.device THEN {} ELSE {"device"}]

Errors == {"device", "type", "unit", "interval", "span", "units", "time", "days",
           "cron", "weekday"}

ScheduledTasks ==
    [unit: Units, interval: Int, duration: Int, runAt: Seq(TimesOfDay),
     weekdays: SUBSET Weekdays, days: Seq(Int), immediate: BOOLEAN,
     error: SUBSET Errors]

TypeOK ==
    /\ input \in Schedules
    /\ stage \in {"new", "at", "search", "parsed", "accepted", "rejected"}
    /\ task \in ScheduledTasks
    /\ list \in Seq(TimesOfDay \cup {Bad})
    /\ next \in Nat \ {0}
    /\ low \in Nat /\ high \in Nat
    /\ exist \in BOOLEAN

Init ==
    /\ input \in Inputs
    /\ stage = "new"
    /\ task = NewScheduledTask(input)
    /\ list = <<>>
    /\ next = 1
    /\ low = 0 /\ high = 0
    /\ exist = FALSE

-----------------------------------------------------------------------------
(* The builder calls.                                                      *)

Fail(s, e) == [s EXCEPT !.error = @ \cup {e}]

setSchedulingUnit(s, u) ==
    IF s.unit \in {"duration", "crontab"} THEN Fail(s, "units")
                                          ELSE [s EXCEPT !.unit = u]

\* Now, without the At of the present time that follows.
Now(s) == setSchedulingUnit(s, "once")

\* Every of an int or of a string.
Every(s, v) ==
    CASE v.kind = "number" ->
            LET t == [s EXCEPT !.interval = v.amount]
            IN  IF v.amount <= 0 THEN Fail(t, "interval") ELSE t
      [] v.kind = "span" ->
            setSchedulingUnit([s EXCEPT !.duration = v.amount], "duration")
      [] OTHER ->
            setSchedulingUnit(Fail([s EXCEPT !.duration = 0], "span"), "duration")

\* ParseDaysOfMonth: nil when a day is not a number.
ParseDaysOfMonth(s, days) ==
    IF Garbled \in Range(days) THEN [task |-> Fail(s, "days"), days |-> <<>>]
                               ELSE [task |-> s, days |-> days]

\* Mutant: a repeated day is noticed only when the two stand side by side.
WrongDaysAdjacent(s, days) ==
    \/ days = <<>>
    \/ Len(days) = 1 /\ days[1] # -1 /\ days[1] \notin 1..28
    \/ /\ Len(days) > 1
       /\ \E i \in 1..Len(days) : \/ days[i] \notin 1..28
                                  \/ i > 1 /\ days[i] = days[i - 1]

\* -1, the last day, stands alone; other days are 1 to 28 and do not repeat.
WrongDays(s, days) ==
    \/ days = <<>>
    \/ Len(days) = 1 /\ days[1] # -1 /\ days[1] \notin 1..28
    \/ /\ Len(days) > 1
       /\ \E i \in 1..Len(days) :
             \/ days[i] \notin 1..28
             \/ days[i] \in Range(s.days)
             \/ \E j \in 1..(i - 1) : days[j] = days[i]

Months(s, days) ==
    LET t == IF WrongDays(s, days) THEN Fail(s, "days") ELSE s
    IN  setSchedulingUnit([t EXCEPT !.days = @ \o days, !.immediate = FALSE], "months")

Weekday(s, d) ==
    setSchedulingUnit([s EXCEPT !.weekdays = @ \cup {d}, !.immediate = FALSE], "weeks")

\* Cron with seconds. Only a descriptor is complete in one word. The error of a
\* failed parse replaces earlier ones.
Cron(s, v) ==
    [s EXCEPT !.unit = "crontab", !.immediate = FALSE,
              !.error = IF v.kind = "descriptor" THEN @ ELSE {"cron"}]

-----------------------------------------------------------------------------
(* ParseSchedule, one action for each branch.                              *)

Parsed(s) ==
    /\ stage = "new"
    /\ task' = s
    /\ stage' = "parsed"
    /\ UNCHANGED <<input, atVars, searchVars>>

\* The call of At, with which the branches that have one end.
At(s, given) ==
    /\ stage = "new"
    /\ task' = s
    /\ list' = given
    /\ stage' = "at"
    /\ UNCHANGED <<input, next, searchVars>>

ParseNow ==
    /\ input.head = "now"
    /\ \E now \in TimesOfDay :
          At(Now([task EXCEPT !.unit = "once", !.immediate = TRUE]), <<now>>)

TooShort == input.value.kind = "none"

ParseTooShort ==
    /\ input.head # "now"
    /\ TooShort
    /\ Parsed(Fail(task, "type"))

\* The word after "Every <interval>".
ApplyUnit(s, in) ==
    CASE in.unit = "none" -> s
      [] in.unit = "monthdays" ->
            IF in.days = <<>> THEN Fail(s, "type")
            ELSE LET p == ParseDaysOfMonth(s, in.days) IN Months(p.task, p.days)
      [] in.unit \in TimeUnits -> setSchedulingUnit(s, in.unit)
      [] in.unit \in Weekdays -> Weekday(s, in.unit)
      [] OTHER -> Fail(s, "unit")

ParseEvery ==
    /\ input.head = "every"
    /\ ~TooShort
    /\ input.unit # "midday"
    /\ Parsed(ApplyUnit(Every(task, input.value), input))

ParseMidday ==
    /\ input.head = "every"
    /\ ~TooShort
    /\ input.unit = "midday"
    /\ At(Every(task, input.value), <<Noon>>)

ParseAt ==
    /\ input.head = "at"
    /\ ~TooShort
    /\ At(task, IF input.value.kind = "times" THEN input.value.times ELSE <<Bad>>)

ParseCron ==
    /\ input.head = "cron"
    /\ ~TooShort
    /\ Parsed(Cron(task, input.value))

ParseOther ==
    /\ input.head = "other"
    /\ ~TooShort
    /\ Parsed(Fail(task, "type"))

-----------------------------------------------------------------------------
(* At, time by time.                                                       *)

AtEnds ==
    /\ stage = "at"
    /\ next > Len(list)
    /\ stage' = "parsed"
    /\ UNCHANGED <<input, task, atVars, searchVars>>

\* At returns at the first time that does not parse.
AtFails ==
    /\ stage = "at"
    /\ next <= Len(list)
    /\ list[next] = Bad
    /\ task' = Fail(task, "time")
    /\ stage' = "parsed"
    /\ UNCHANGED <<input, atVars, searchVars>>

\* addRunAtTime begins to search RunAt; an empty one leaves nothing to search.
addRunAtTime ==
    /\ stage = "at"
    /\ next <= Len(list)
    /\ list[next] # Bad
    /\ low' = 0 /\ high' = Len(task.runAt)
    /\ exist' = FALSE
    /\ stage' = "search"
    /\ UNCHANGED <<input, task, atVars>>

\* Mutant: a time that is there already is not found.
SearchBeyond ==
    /\ stage = "search"
    /\ low < high
    /\ LET h == (low + high) \div 2
       IN  IF task.runAt[h + 1] > list[next]
           THEN high' = h /\ exist' = FALSE /\ UNCHANGED low
           ELSE low' = h + 1 /\ UNCHANGED <<high, exist>>
    /\ UNCHANGED <<input, stage, task, atVars>>

\* A probe of sort.Search. The closure notes whether the time it compared is the
\* one to add, when it is not an earlier one.
SearchRunAt ==
    /\ stage = "search"
    /\ low < high
    /\ LET h == (low + high) \div 2
       IN  IF task.runAt[h + 1] >= list[next]
           THEN high' = h /\ exist' = (task.runAt[h + 1] = list[next]) /\ UNCHANGED low
           ELSE low' = h + 1 /\ UNCHANGED <<high, exist>>
    /\ UNCHANGED <<input, stage, task, atVars>>

\* The search is over: the time is inserted unless it is there.
InsertRunAt ==
    /\ stage = "search"
    /\ low = high
    /\ task' = IF exist THEN task
               ELSE [task EXCEPT !.runAt = InsertAt(@, low + 1, list[next])]
    /\ next' = next + 1
    /\ stage' = "at"
    /\ UNCHANGED <<input, list, searchVars>>

AtStep == AtEnds \/ AtFails \/ addRunAtTime \/ SearchRunAt \/ InsertRunAt

-----------------------------------------------------------------------------
(* Schedule(): the checks before anything is stored.                       *)

CheckWeekdays(s) ==
    IF s.weekdays # {} /\ s.unit # "weeks" THEN Fail(s, "weekday") ELSE s

\* Mutant: a task that has no unit needs no interval.
CheckIntervalOfUnit(s) ==
    IF s.interval = 0 /\ s.unit \notin {"none", "crontab", "duration", "once"}
    THEN Fail(s, "interval") ELSE s

CheckInterval(s) ==
    IF s.interval = 0 /\ s.unit \notin {"crontab", "duration", "once"}
    THEN Fail(s, "interval") ELSE s

Schedule ==
    /\ stage = "parsed"
    /\ task' = CheckInterval(CheckWeekdays(task))
    /\ stage' = IF task'.error = {} THEN "accepted" ELSE "rejected"
    /\ UNCHANGED <<input, atVars, searchVars>>

ParseSchedule ==
    \/ ParseNow \/ ParseTooShort \/ ParseEvery \/ ParseMidday \/ ParseAt
    \/ ParseCron \/ ParseOther

Next == ParseSchedule \/ AtStep \/ Schedule

Spec == Init /\ [][Next]_vars

-----------------------------------------------------------------------------
(* Properties.                                                             *)

\* The times of a task are in order and without repetition, and are those that
\* its schedule lists, up to the first that does not parse: the binary search
\* finds the right place for each.
Sorted(a) == \A k, l \in DOMAIN a : k < l => a[k] < a[l]

RunAtIsSortedSet ==
    stage \in {"parsed", "accepted", "rejected"} /\ input.head = "at"
                                              /\ input.value.kind = "times" =>
        LET given == input.value.times
            good == {k \in DOMAIN given : \A l \in 1..k : given[l] # Bad}
        IN  /\ Range(task.runAt) = {given[k] : k \in good}
            /\ Sorted(task.runAt)

\* The days of an accepted monthly task are the last day alone, or days every
\* month has, each listed once.
DaysExist(days) ==
    \/ days = <<-1>>
    \/ /\ days # <<>>
       /\ Range(days) \subseteq 1..28
       /\ IsInjective(days)

AcceptedDaysExist == stage = "accepted" /\ task.unit = "months" => DaysExist(task.days)

\* An accepted task has one description of its period: an interval, counted in
\* a unit or bare, and no duration; or a duration alone; or neither for a cron
\* or one-time task. Days and weekdays go with their units only.
OnePeriod ==
    stage = "accepted" =>
        /\ task.interval > 0 <=> task.unit \notin {"once", "duration", "crontab"}
        /\ task.interval >= 0
        /\ task.duration # 0 => task.unit = "duration"
        /\ task.weekdays # {} => task.unit = "weeks"
        /\ task.days # <<>> => task.unit = "months"

\* What a task without an error is when its schedule is parsed, before the checks of
\* Schedule: it may still lack an interval, or have weekdays that do not go with its
\* unit.
WellBuilt(s) ==
    /\ s.interval > 0 => s.unit \notin {"once", "duration", "crontab"}
    /\ s.interval \in Nat
    /\ s.duration # 0 => s.unit = "duration"
    /\ s.days # <<>> => s.unit = "months"
    /\ s.unit = "months" => DaysExist(s.days)

\* At any time RunAt has the times before the next one, in order; a search has left
\* earlier times below it and no earlier ones above, and knows whether the first of
\* these is the time to add.
RunAtSoFar ==
    /\ \A k \in 1..(next - 1) : list[k] # Bad
    /\ next <= Len(list) + 1
    /\ Range(task.runAt) = {list[k] : k \in 1..(next - 1)}
    /\ Sorted(task.runAt)

SearchSoFar ==
    /\ next <= Len(list) /\ list[next] # Bad
    /\ low <= high /\ high <= Len(task.runAt)
    /\ \A k \in 1..low : task.runAt[k] < list[next]
    /\ \A k \in (high + 1)..Len(task.runAt) : task.runAt[k] >= list[next]
    /\ exist <=> high < Len(task.runAt) /\ task.runAt[high + 1] = list[next]

AtInv ==
    /\ stage = "new" => list = <<>> /\ next = 1 /\ task.runAt = <<>>
    /\ RunAtSoFar
    /\ stage = "search" => SearchSoFar
    /\ stage \in {"parsed", "accepted", "rejected"} /\ next <= Len(list) => list[next] = Bad
    /\ stage # "new" /\ input.head = "at" /\ input.value.kind = "times"
          => list = input.value.times

\* The fields of s are those of a ScheduledTask.
IsTask(s) ==
    s = [unit |-> s.unit, interval |-> s.interval, duration |-> s.duration,
         runAt |-> s.runAt, weekdays |-> s.weekdays, days |-> s.days,
         immediate |-> s.immediate, error |-> s.error]

ParseInv ==
    /\ input \in Inputs
    /\ stage = "new" => task = NewScheduledTask(input)
    /\ IsTask(task)
    /\ stage # "new" /\ task.error = {} => WellBuilt(task)
    /\ stage = "accepted" =>
          /\ task.error = {}
          /\ task.interval = 0 => task.unit \in {"once", "duration", "crontab"}
          /\ task.weekdays # {} => task.unit = "weeks"
=============================================================================
