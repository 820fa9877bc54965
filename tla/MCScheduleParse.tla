--------------------------- MODULE MCScheduleParse ---------------------------
(* Instances of ScheduleParse for TLC. *)
EXTENDS ScheduleParse

Amount(kind, n) == [kind |-> kind, amount |-> n, times |-> <<>>]
ListOf(times) == [kind |-> "times", amount |-> 0, times |-> times]
Plain == [device |-> TRUE, head |-> "other", value |-> Amount("none", 0),
          unit |-> "none", days |-> <<>>]

MCTimes == {0, 5, 12, 20}

OneWord == {[Plain EXCEPT !.head = h] : h \in {"now", "every", "at", "cron", "other"}}

\* The first field of a cron expression is a number or text.
CronInputs ==
    {[Plain EXCEPT !.head = "cron", !.value = Amount(k, 0)] :
        k \in {"descriptor", "number", "text"}}

AtInputs ==
    {[Plain EXCEPT !.head = "at", !.value = v] :
        v \in {ListOf(l) : l \in UNION {[1..n -> MCTimes \cup {Bad}] : n \in 1..4}}
              \cup {Amount("number", 1), Amount("text", 0)}}

Intervals == {Amount("number", n) : n \in {-1, 0, 2}}
             \cup {Amount("span", n) : n \in {-1, 0, 2}}
             \cup {Amount("text", 0), ListOf(<<5>>)}

EveryInputs ==
    {[Plain EXCEPT !.head = "every", !.value = v, !.unit = u] :
        v \in Intervals,
        u \in TimeUnits \cup Weekdays \cup {"none", "midday", "monthdays", "unknown"}}

MonthInputs ==
    {[Plain EXCEPT !.head = "every", !.value = v, !.unit = "monthdays", !.days = d] :
        v \in Intervals,
        d \in UNION {[1..n -> {-1, 0, 1, 28, 29, Garbled}] : n \in 1..3}}

\* A task that is refused because of its device ID parses its schedule as well.
MCInputs ==
    LET known == OneWord \cup CronInputs \cup AtInputs \cup EveryInputs \cup MonthInputs
                 \cup {[Plain EXCEPT !.value = Amount("number", 1)]}
    IN  known \cup {[in EXCEPT !.device = FALSE] :
                        in \in OneWord \cup CronInputs \cup EveryInputs}
=============================================================================
