------------------------ MODULE SchedulerDaemon_proofs ------------------------
(***************************************************************************)
(* Theorems about SchedulerDaemon: for any tasks, replicas, page size,     *)
(* length of the day and quantum, passes skip and repeat no row, and a     *)
(* removed task is not dispatched again.                                   *)
(***************************************************************************)
EXTENDS SchedulerDaemon, FiniteSetTheorems, WellFoundedInduction, TLAPS

-----------------------------------------------------------------------------
(* Rows in the order of their stamps.                                      *)

\* A set of stamps has a smallest member.
LEMMA SmallestStamp ==
  ASSUME NEW S \in SUBSET Nat, S # {}
  PROVE  \E m \in S : \A n \in S : m <= n
<1>1. PICK m \in S : \A n \in S : <<n, m>> \notin OpToRel(<, Nat)
  BY NatLessThanWellFounded, WFMin, Zenon
<1>2. \A n \in S : ~ (n < m)
  BY <1>1 DEF OpToRel
<1> QED BY <1>2

LEMMA StampsAreNaturals == Stamps \subseteq Nat /\ \A x \in Runs : x.at \in Stamps /\ x.task \in Tasks
BY DaemonAssumption DEF Stamps, Runs

\* First takes a row of the page, the one with the smallest stamp.
LEMMA FirstRow ==
  ASSUME NEW S \in SUBSET Runs, S # {}
  PROVE  First(S) \in S /\ \A y \in S : First(S).at <= y.at
<1>1. Stamped(S) \in SUBSET Nat /\ Stamped(S) # {}
  BY StampsAreNaturals DEF Stamped
<1>2. PICK m \in Stamped(S) : \A n \in Stamped(S) : m <= n
  BY <1>1, SmallestStamp
<1>3. PICK x \in S : x.at = m
  BY DEF Stamped
<1>4. \E z \in S : \A y \in S : z.at <= y.at
  BY <1>2, <1>3 DEF Stamped
<1> QED BY <1>4 DEF First

\* Last takes the one with the largest.
LEMMA LastRow ==
  ASSUME NEW S \in SUBSET Runs, S # {}
  PROVE  Last(S) \in S /\ \A y \in S : y.at <= Last(S).at
<1> DEFINE Back == {MaxClock - s : s \in Stamped(S)}
<1>1. \A x \in S : x.at \in Nat /\ x.at <= MaxClock
  BY StampsAreNaturals, DaemonAssumption DEF Stamps
<1>2. Back \in SUBSET Nat /\ Back # {}
  BY <1>1, DaemonAssumption DEF Stamped
<1>3. PICK m \in Back : \A n \in Back : m <= n
  BY <1>2, SmallestStamp, Zenon
<1>4. PICK x \in S : m = MaxClock - x.at
  BY <1>3 DEF Stamped
<1>5. ASSUME NEW y \in S PROVE y.at <= x.at
  <2>1. MaxClock - y.at \in Back
    BY DEF Stamped
  <2>2. MaxClock - x.at <= MaxClock - y.at
    BY <1>3, <1>4, <2>1
  <2> QED BY <1>1, <2>2, DaemonAssumption
<1>6. \E z \in S : \A y \in S : y.at <= z.at
  BY <1>5
<1> QED BY <1>6 DEF Last

\* A page has the first rows: what is left out lies behind all that is in it.
LEMMA PageIsFirst ==
  ASSUME NEW S \in SUBSET Runs, IsFiniteSet(S), NEW y \in PageOf(S), NEW x \in S, x \notin PageOf(S)
  PROVE  y.at < x.at
<1>1. y.at \in Nat /\ x.at \in Nat /\ \A z \in S : z.at \in Nat
  BY StampsAreNaturals DEF PageOf
<1>2. SUFFICES ASSUME x.at <= y.at PROVE FALSE
  BY <1>1
<1>3. Before(x, S) \subseteq Before(y, S)
  BY <1>1, <1>2 DEF Before
<1>4. IsFiniteSet(Before(y, S))
  BY FS_Subset DEF Before
<1>5. Cardinality(Before(x, S)) <= Cardinality(Before(y, S))
  BY <1>3, <1>4, FS_Subset
<1>6. Cardinality(Before(x, S)) \in Nat /\ Cardinality(Before(y, S)) \in Nat
  BY <1>3, <1>4, FS_Subset, FS_CardinalityType
<1>7. Cardinality(Before(y, S)) < PageSize /\ ~ (Cardinality(Before(x, S)) < PageSize)
  BY DEF PageOf
<1> QED BY <1>5, <1>6, <1>7, DaemonAssumption

\* A full page is not empty.
LEMMA FullPage ==
  ASSUME NEW S, IsFiniteSet(S), Cardinality(PageOf(S)) = PageSize
  PROVE  PageOf(S) # {}
BY FS_EmptySet, DaemonAssumption

-----------------------------------------------------------------------------
(* Types.                                                                  *)

\* The clock is in one of the days up to the last one.
LEMMA DayType == ASSUME NEW c \in Stamps PROVE DayOf(c) \in 0..DayOf(MaxClock)
<1> DEFINE q == c \div DayLength
           p == MaxClock \div DayLength
<1>1. c \in Nat /\ MaxClock \in Nat /\ c <= MaxClock /\ DayLength \in Nat /\ DayLength > 0
  BY DaemonAssumption DEF Stamps
<1>2. q \in Nat /\ p \in Nat
  BY <1>1
<1>3. DayLength * q <= c /\ MaxClock < DayLength * p + DayLength
  BY <1>1
<1> HIDE DEF q, p
<1>4. SUFFICES ASSUME q > p PROVE FALSE
  BY <1>2 DEF DayOf, q, p
<1>5. DayLength * q >= DayLength * (p + 1)
  BY <1>1, <1>2, <1>4
<1>6. DayLength * (p + 1) = DayLength * p + DayLength
  BY <1>1, <1>2
<1> QED BY <1>1, <1>2, <1>3, <1>5, <1>6

\* The rows of a page are rows of the table.
LEMMA PageType ==
  ASSUME TypeOK, NEW r
  PROVE  /\ Behind(r) \in SUBSET Runs
         /\ PageOf(Behind(r)) \in SUBSET Behind(r)
BY DEF TypeOK, Behind, InDay, PageOf

\* Every step of Schedule, of a daemon, of a watcher and of a client keeps the
\* state within its types.
LEMMA TypeStep == TypeOK /\ [Next]_vars => TypeOK'
<1> SUFFICES ASSUME TypeOK, [Next]_vars PROVE TypeOK'
  OBVIOUS
<1> USE DEF TypeOK, TablesTypeOK, tableVars, daemonVars
<1>1. CASE Tick
  BY <1>1, DaemonAssumption DEF Tick, Stamps
<1>2. ASSUME NEW t \in Tasks, ScheduleStep(t) PROVE TypeOK'
  <2> USE DEF SchedStates, Status, InsertTask, InsertConsignment, InsertRun
  <2>1. CASE StoreTask(t)
    BY <2>1 DEF StoreTask
  <2>2. CASE StoreConsignment(t)
    BY <2>2 DEF StoreConsignment
  <2>3. CASE StampRun(t)
    BY <2>3 DEF StampRun
  <2>4. CASE CreateScheduledRun(t)
    BY <2>4 DEF CreateScheduledRun, Runs
  <2>5. CASE ScheduleFails(t)
    BY <2>5 DEF ScheduleFails, Runs
  <2> QED BY <1>2, <2>1, <2>2, <2>3, <2>4, <2>5 DEF ScheduleStep
<1>3. ASSUME NEW t \in Tasks, MarkTaskDispatched(t) PROVE TypeOK'
  BY <1>3 DEF MarkTaskDispatched, SetTaskStatus, Status
<1>4. ASSUME NEW t \in Tasks, RemoveTask(t) PROVE TypeOK'
  BY <1>4 DEF RemoveTask, DeleteTask
<1>5. ASSUME NEW r \in Replicas, DaemonStep(r) PROVE TypeOK'
  <2>1. page[r] # {} => First(page[r]) \in Runs /\ First(page[r]).task \in Tasks
    BY FirstRow, StampsAreNaturals
  <2>2. Later(clock) \in Stamps
    BY DaemonAssumption DEF Later, Stamps
  <2> USE DEF DaemonStates
  <2>3. CASE StartPass(r)
    <3>1. InDay(DayOf(clock)) \in SUBSET Runs /\ DayOf(clock) \in 0..DayOf(MaxClock)
      BY DayType DEF InDay
    <3> QED BY <2>3, <3>1 DEF StartPass
  <2>4. CASE QueryPage(r)
    <3> DEFINE rows == PageOf(Behind(r))
    <3>1. rows \in SUBSET Runs
      BY PageType
    <3>2. Cardinality(rows) = PageSize /\ rows # {} => Last(rows).at \in Stamps
      BY <3>1, LastRow, StampsAreNaturals
    <3>3. Cardinality(rows) = PageSize => rows # {}
      BY FS_EmptySet, DaemonAssumption
    <3>4. page' = [page EXCEPT ![r] = rows] /\ cursor' \in [Replicas -> Stamps \cup {None}]
      BY <2>4, <3>2, <3>3 DEF QueryPage
    <3> QED BY <2>4, <3>1, <3>4 DEF QueryPage
  <2>5. CASE QueryFails(r)
    BY <2>2, <2>5 DEF QueryFails, PassEnds
  <2>6. CASE ReadTask(r)
    BY <2>1, <2>6 DEF ReadTask
  <2>7. CASE SkipTask(r)
    BY <2>1, <2>7 DEF SkipTask
  <2>8. CASE SendTask(r)
    BY <2>1, <2>8 DEF SendTask
  <2>9. CASE SendFails(r)
    BY <2>9 DEF SendFails
  <2>10. CASE FinishPage(r)
    BY <2>2, <2>10 DEF FinishPage, PassEnds
  <2> QED
    BY <1>5, <2>3, <2>4, <2>5, <2>6, <2>7, <2>8, <2>9, <2>10 DEF DaemonStep
<1>6. ASSUME NEW r \in MayCrash, Crash(r) PROVE TypeOK'
  BY <1>6, DaemonAssumption DEF Crash, DaemonStates
<1>7. CASE UNCHANGED vars
  BY <1>7 DEF vars
<1> QED BY <1>1, <1>2, <1>3, <1>4, <1>5, <1>6, <1>7 DEF Next

\* The state stays within its types.
THEOREM TypeCorrect == Spec => []TypeOK
<1>1. Init => TypeOK
  <2>1. 0 \in Stamps /\ 0 \in 0..DayOf(MaxClock)
    <3>1. 0 \in Stamps
      BY DaemonAssumption DEF Stamps
    <3>2. DayOf(0) \in 0..DayOf(MaxClock)
      BY <3>1, DayType
    <3>3. DayOf(0) = 0
      BY DaemonAssumption DEF DayOf
    <3> QED BY <3>1, <3>2, <3>3
  <2> QED BY <2>1 DEF Init, TablesInit, TypeOK, TablesTypeOK, SchedStates, DaemonStates
<1> QED BY <1>1, TypeStep, PTL DEF Spec

-----------------------------------------------------------------------------
(* Passes.                                                                 *)

\* What DaemonInv says of one replica.
CoversIn(r) == InPass(r) => Stamped(due[r]) \subseteq Stamped(handled[r]) \cup ToCome(r)

InOrderIn(r) ==
    \A y \in handled[r] : \A s \in ToCome(r) :
        InPass(r) => y.at < s \/ (pc[r] = "send" /\ s = First(page[r]).at /\ y.at = s)

Inv(r) == PassInv(r) /\ CoversIn(r) /\ InOrderIn(r)

LEMMA DaemonInvIs ==
  DaemonInv <=> IsFiniteSet(runs) /\ Keyed(runs) /\ \A r \in Replicas : Inv(r)
BY DEF DaemonInv, Inv, CoversIn, InOrderIn, PassCoversDueRuns, PassNeverRepeats

SameDaemon(q) ==
    /\ pc'[q] = pc[q] /\ page'[q] = page[q] /\ cursor'[q] = cursor[q]
    /\ day'[q] = day[q] /\ due'[q] = due[q] /\ handled'[q] = handled[q]

\* A step that concerns neither the daemon of q nor the table keeps Inv(q).
LEMMA Frame ==
  ASSUME NEW q \in Replicas, Inv(q), SameDaemon(q), UNCHANGED runs
  PROVE  Inv(q)'
<1>1. Behind(q)' = Behind(q)
  BY DEF Behind, InDay, SameDaemon
<1>2. ToCome(q)' = ToCome(q)
  BY <1>1 DEF ToCome, SameDaemon
<1>3. PassInv(q)'
  BY DEF Inv, PassInv, InPass, SameDaemon
<1>4. CoversIn(q)'
  BY <1>2 DEF Inv, CoversIn, InPass, SameDaemon
<1>5. InOrderIn(q)'
  BY <1>2 DEF Inv, InOrderIn, InPass, SameDaemon
<1> QED BY <1>3, <1>4, <1>5 DEF Inv

\* An INSERT keeps stamps a key of the table and loses no stamp.
LEMMA InsertRunKeepsKey ==
  ASSUME TypeOK, DaemonInv, NEW t \in Tasks, InsertRun(t)
  PROVE  /\ IsFiniteSet(runs') /\ Keyed(runs')
         /\ Stamped(runs) \subseteq Stamped(runs')
         /\ runs' \in SUBSET Runs
<1> DEFINE kept == {x \in runs : x.at # stamp[t]}
           row == [at |-> stamp[t], task |-> t]
<1>1. IsFiniteSet(kept)
  BY FS_Subset DEF DaemonInv
<1>2. runs' = kept \cup {row} /\ row.at = stamp[t] /\ row \in Runs
  BY DEF InsertRun, TypeOK, Runs
<1>3. IsFiniteSet(runs')
  BY <1>1, <1>2, FS_AddElement
<1>4. Keyed(runs')
  BY <1>2 DEF DaemonInv, Keyed
<1>5. Stamped(runs) \subseteq Stamped(runs')
  BY <1>2 DEF Stamped
<1> QED BY <1>2, <1>3, <1>4, <1>5 DEF TypeOK

\* While Schedule inserts a row, every pass still covers what was due and keeps
\* its order: the new row takes the place of one with its stamp, or lies behind
\* the page state, or is not seen in this pass.
LEMMA InsertStep ==
  ASSUME TypeOK, DaemonInv, NEW t \in Tasks, InsertRun(t), UNCHANGED daemonVars
  PROVE  DaemonInv'
<1>1. ASSUME NEW r \in Replicas PROVE Inv(r)'
  <2> USE DEF daemonVars
  <2>1. Inv(r)
    BY DaemonInvIs
  <2>2. PassInv(r)'
    BY <2>1 DEF Inv, PassInv, InPass
  <2>3. Stamped(Behind(r)) \subseteq Stamped(Behind(r)')
    BY InsertRunKeepsKey DEF Behind, InDay, Stamped
  <2>4. ToCome(r) \subseteq ToCome(r)'
    BY <2>3 DEF ToCome
  <2>5. CoversIn(r)'
    BY <2>1, <2>4 DEF Inv, CoversIn, InPass
  <2>6. ASSUME NEW y \in handled[r], NEW s \in ToCome(r)', InPass(r)
        PROVE  y.at < s \/ (pc[r] = "send" /\ s = First(page[r]).at /\ y.at = s)
    <3>1. CASE s \in Stamped(page[r])
      BY <2>1, <2>6, <3>1 DEF Inv, InOrderIn, ToCome
    <3>2. CASE s \notin Stamped(page[r])
      <4>1. (pc[r] = "query" \/ cursor[r] # None) /\ s \in Stamped(Behind(r)')
        BY <2>6, <3>2 DEF ToCome
      <4>2. PICK x \in Behind(r)' : s = x.at
        BY <4>1 DEF Stamped
      <4>3. CASE cursor[r] # None
        <5>1. s > cursor[r]
          BY <4>2, <4>3 DEF Behind
        <5>2. y.at <= cursor[r]
          BY <2>1, <2>6, <4>3 DEF Inv, PassInv
        <5>3. y.at \in Nat /\ cursor[r] \in Nat /\ s \in Nat
          <6>1. x \in runs'
            BY <4>2 DEF Behind, InDay
          <6> QED BY <4>2, <4>3, <6>1, InsertRunKeepsKey, StampsAreNaturals DEF TypeOK
        <5> QED BY <5>1, <5>2, <5>3
      <4>4. CASE cursor[r] = None
        BY <2>1, <2>6, <4>1, <4>4 DEF Inv, PassInv
      <4> QED BY <4>3, <4>4
    <3> QED BY <3>1, <3>2
  <2>7. InOrderIn(r)'
    BY <2>6 DEF InOrderIn, InPass
  <2> QED BY <2>2, <2>5, <2>7 DEF Inv
<1>2. (IsFiniteSet(runs) /\ Keyed(runs))'
  BY InsertRunKeepsKey DEF Keyed
<1>3. DaemonInv' <=> (IsFiniteSet(runs) /\ Keyed(runs))' /\ \A r \in Replicas : Inv(r)'
  BY DEF DaemonInv, Inv, CoversIn, InOrderIn, PassCoversDueRuns, PassNeverRepeats
<1> QED BY <1>1, <1>2, <1>3

\* The rows behind the page state, once a page is read: the page and, unless it is
\* the last one, what lies behind it; all of it was to come before.
LEMMA QueryStep ==
  ASSUME TypeOK, DaemonInv, NEW r \in Replicas, QueryPage(r)
  PROVE  Inv(r)'
<1> DEFINE rest == Behind(r)
           rows == PageOf(rest)
<1>1. /\ pc[r] = "query" /\ pc'[r] = "read" /\ page'[r] = rows
      /\ UNCHANGED <<runs, day, due, handled>>
  BY DEF QueryPage, TypeOK
<1>2. Inv(r) /\ page[r] = {}
  BY <1>1, DaemonInvIs DEF Inv, PassInv
<1>3. /\ rest \in SUBSET Runs /\ rows \in SUBSET rest /\ rest \in SUBSET runs
      /\ IsFiniteSet(rest) /\ \A x \in rest : x.at \in Nat
  <2>1. rest \in SUBSET runs
    BY DEF Behind, InDay
  <2> QED BY <2>1, PageType, FS_Subset, StampsAreNaturals DEF DaemonInv
<1>4. ToCome(r) = Stamped(rest)
  BY <1>1, <1>2 DEF ToCome, Stamped
<1>5. Keyed(rows)
  BY <1>3 DEF DaemonInv, Keyed
<1>6. CASE Cardinality(rows) = PageSize /\ cursor' = [cursor EXCEPT ![r] = Last(rows).at]
  <2>1. cursor'[r] = Last(rows).at
    BY <1>6 DEF TypeOK
  <2>2. Last(rows) \in rows /\ \A y \in rows : y.at <= Last(rows).at
    BY <1>3, <1>6, FullPage, LastRow
  <2>3. cursor'[r] \in Nat /\ cursor'[r] # None /\ Last(rows).at \in Stamps
    BY <1>3, <2>1, <2>2, StampsAreNaturals, DaemonAssumption DEF Stamps
  <2>4. Behind(r)' \subseteq rest
    <3> SUFFICES ASSUME NEW x \in Behind(r)' PROVE x \in rest
      OBVIOUS
    <3>1. x \in InDay(day[r]) /\ x.at > cursor'[r]
      BY <1>1, <2>3 DEF Behind, InDay
    <3>2. cursor[r] = None \/ Last(rows).at > cursor[r]
      BY <1>3, <2>2 DEF Behind
    <3>3. x.at \in Nat /\ (cursor[r] # None => cursor[r] \in Nat)
      BY <3>1, StampsAreNaturals DEF InDay, TypeOK
    <3>4. cursor[r] = None \/ x.at > cursor[r]
      BY <2>1, <2>3, <3>1, <3>2, <3>3
    <3> QED BY <3>1, <3>4 DEF Behind
  <2>5. rest \subseteq rows \cup Behind(r)'
    <3> SUFFICES ASSUME NEW x \in rest, x \notin rows PROVE x \in Behind(r)'
      OBVIOUS
    <3>1. x.at > cursor'[r]
      BY <1>3, <2>1, <2>2, PageIsFirst
    <3>2. x \in InDay(day[r])'
      BY <1>1 DEF Behind, InDay
    <3> QED BY <1>1, <3>1, <3>2 DEF Behind
  <2>6. ToCome(r)' = Stamped(rest)
    BY <1>1, <1>3, <2>3, <2>4, <2>5 DEF ToCome, Stamped
  <2>7. \A x \in rows \cup handled[r] : x.at <= cursor'[r]
    <3>1. Last(rows).at \in ToCome(r)
      BY <1>3, <1>4, <2>2 DEF Stamped
    <3>2. \A y \in handled[r] : y.at < Last(rows).at
      BY <1>1, <1>2, <3>1 DEF Inv, InOrderIn, InPass
    <3>3. \A y \in handled[r] : y.at \in Nat
      BY StampsAreNaturals DEF TypeOK
    <3> QED BY <2>1, <2>2, <2>3, <3>2, <3>3
  <2>8. PassInv(r)'
    BY <1>1, <1>5, <2>7 DEF PassInv, InPass
  <2>9. CoversIn(r)'
    BY <1>1, <1>2, <1>4, <2>6 DEF Inv, CoversIn, InPass
  <2>10. InOrderIn(r)'
    BY <1>1, <1>2, <1>4, <2>6 DEF Inv, InOrderIn, InPass
  <2> QED BY <2>8, <2>9, <2>10 DEF Inv
<1>7. CASE rows = rest /\ cursor' = [cursor EXCEPT ![r] = None]
  <2>1. cursor'[r] = None
    BY <1>7 DEF TypeOK
  <2>2. ToCome(r)' = Stamped(rest)
    BY <1>1, <1>7, <2>1 DEF ToCome, Stamped
  <2>3. PassInv(r)'
    BY <1>1, <1>5, <2>1 DEF PassInv, InPass
  <2>4. CoversIn(r)'
    BY <1>1, <1>2, <1>4, <2>2 DEF Inv, CoversIn, InPass
  <2>5. InOrderIn(r)'
    BY <1>1, <1>2, <1>4, <2>2 DEF Inv, InOrderIn, InPass
  <2> QED BY <2>3, <2>4, <2>5 DEF Inv
<1> QED BY <1>6, <1>7 DEF QueryPage

\* A row that is read is the first to come: it joins those handled in order.
LEMMA ReadStep ==
  ASSUME TypeOK, DaemonInv, NEW r \in Replicas, ReadTask(r) \/ SkipTask(r)
  PROVE  Inv(r)'
<1> DEFINE row == First(page[r])
<1>1. /\ pc[r] = "read" /\ page[r] # {} /\ handled'[r] = handled[r] \cup {row}
      /\ cursor'[r] = cursor[r]
      /\ UNCHANGED <<runs, day, due>>
  BY DEF ReadTask, SkipTask, TypeOK
<1>2. \/ pc'[r] = "send" /\ page'[r] = page[r]
      \/ pc'[r] = "read" /\ page'[r] = page[r] \ {row}
  <2>1. CASE ReadTask(r)
    <3>1. pc' = [pc EXCEPT ![r] = "send"] /\ page' = page
      BY <2>1 DEF ReadTask
    <3> QED BY <3>1 DEF TypeOK
  <2>2. CASE SkipTask(r)
    <3>1. pc' = pc /\ page' = [page EXCEPT ![r] = page[r] \ {row}]
      BY <2>2 DEF SkipTask
    <3> QED BY <1>1, <3>1 DEF TypeOK
  <2> QED BY <2>1, <2>2
<1>3. row \in page[r] /\ row \in Runs /\ \A y \in page[r] : row.at <= y.at /\ y.at \in Nat
  BY <1>1, FirstRow, StampsAreNaturals DEF TypeOK
<1>4. Inv(r) /\ Keyed(page[r])
  BY DaemonInvIs DEF Inv, PassInv
<1>5. Behind(r)' = Behind(r)
  BY <1>1 DEF Behind, InDay
<1>6. ToCome(r)' \subseteq ToCome(r) /\ ToCome(r) \subseteq ToCome(r)' \cup {row.at}
  BY <1>1, <1>2, <1>3, <1>5 DEF ToCome, Stamped
<1>7. PassInv(r)'
  BY <1>1, <1>2, <1>3, <1>4 DEF Inv, PassInv, InPass, Keyed
<1>8. CoversIn(r)'
  BY <1>1, <1>2, <1>4, <1>6 DEF Inv, CoversIn, InPass, Stamped
<1>9. ASSUME NEW s \in ToCome(r)'
      PROVE  row.at < s \/ (pc'[r] = "send" /\ s = First(page'[r]).at /\ row.at = s)
  <2>1. CASE s \in Stamped(page'[r])
    <3>1. PICK x \in page'[r] : s = x.at
      BY <2>1 DEF Stamped
    <3>2. x \in page[r] /\ row.at <= x.at /\ (x.at = row.at => x = row)
      BY <1>2, <1>3, <1>4, <3>1 DEF Keyed
    <3> QED BY <1>2, <1>3, <3>1, <3>2
  <2>2. CASE s \notin Stamped(page'[r])
    <3>1. cursor[r] # None /\ s \in Stamped(Behind(r))
      BY <1>1, <1>2, <1>5, <2>2 DEF ToCome
    <3>2. PICK x \in Behind(r) : s = x.at
      BY <3>1 DEF Stamped
    <3>3. s > cursor[r] /\ row.at <= cursor[r]
      BY <1>1, <1>3, <1>4, <3>1, <3>2 DEF Behind, Inv, PassInv, InPass
    <3>4. s \in Nat /\ cursor[r] \in Nat /\ row.at \in Nat
      BY <1>3, <3>1, <3>2, PageType, StampsAreNaturals DEF TypeOK
    <3> QED BY <3>3, <3>4
  <2> QED BY <2>1, <2>2
<1>10. InOrderIn(r)'
  BY <1>1, <1>4, <1>6, <1>9 DEF Inv, InOrderIn, InPass
<1> QED BY <1>7, <1>8, <1>10 DEF Inv

\* The row that was sent, or failed to be, leaves the page; it was handled.
LEMMA SendStep ==
  ASSUME TypeOK, DaemonInv, NEW r \in Replicas, SendTask(r) \/ SendFails(r)
  PROVE  Inv(r)'
<1> DEFINE row == First(page[r])
<1>1. /\ pc[r] = "send" /\ pc'[r] = "read" /\ page[r] # {}
      /\ page'[r] = page[r] \ {row} /\ handled'[r] = handled[r] /\ cursor'[r] = cursor[r]
      /\ UNCHANGED <<runs, day, due>>
  BY DEF SendTask, SendFails, TypeOK
<1>2. Inv(r) /\ Keyed(page[r]) /\ row \in handled[r]
  BY <1>1, DaemonInvIs DEF Inv, PassInv
<1>3. row \in page[r] /\ \A y \in page[r] : row.at <= y.at /\ y.at \in Nat
  BY <1>1, FirstRow, StampsAreNaturals DEF TypeOK
<1>4. Behind(r)' = Behind(r)
  BY <1>1 DEF Behind, InDay
<1>5. ToCome(r)' \subseteq ToCome(r) /\ ToCome(r) \subseteq ToCome(r)' \cup {row.at}
  BY <1>1, <1>3, <1>4 DEF ToCome, Stamped
<1>6. PassInv(r)'
  BY <1>1, <1>2 DEF Inv, PassInv, InPass, Keyed
<1>7. CoversIn(r)'
  BY <1>1, <1>2, <1>5 DEF Inv, CoversIn, InPass, Stamped
<1>8. row.at \notin ToCome(r)'
  <2> SUFFICES ASSUME row.at \in ToCome(r)' PROVE FALSE
    OBVIOUS
  <2>1. row.at \notin Stamped(page'[r])
    BY <1>1, <1>2, <1>3 DEF Stamped, Keyed
  <2>2. cursor[r] # None /\ row.at \in Stamped(Behind(r))
    BY <1>1, <1>4, <2>1 DEF ToCome
  <2>3. PICK x \in Behind(r) : row.at = x.at
    BY <2>2 DEF Stamped
  <2>4. row.at > cursor[r] /\ row.at <= cursor[r]
    BY <1>1, <1>2, <1>3, <2>2, <2>3 DEF Behind, Inv, PassInv, InPass
  <2>5. row.at \in Nat /\ cursor[r] \in Nat
    BY <1>3, <2>2, StampsAreNaturals DEF TypeOK
  <2> QED BY <2>4, <2>5
<1>9. InOrderIn(r)'
  BY <1>1, <1>2, <1>5, <1>8 DEF Inv, InOrderIn, InPass
<1> QED BY <1>6, <1>7, <1>9 DEF Inv

\* A pass begins with nothing handled and everything due to come; between pages
\* and at the end nothing is left of the page; a restart forgets the pass.
LEMMA TurnStep ==
  ASSUME TypeOK, DaemonInv, NEW r \in Replicas,
         StartPass(r) \/ QueryFails(r) \/ FinishPage(r) \/ Crash(r)
  PROVE  Inv(r)'
<1>1. Inv(r)
  BY DaemonInvIs
<1> USE DEF TypeOK
<1>2. CASE StartPass(r)
  <2>1. /\ pc'[r] = "query" /\ handled'[r] = {} /\ due'[r] = InDay(day'[r])
        /\ page'[r] = {} /\ cursor'[r] = None /\ UNCHANGED runs
    BY <1>1, <1>2 DEF StartPass, Inv, PassInv
  <2>2. due'[r] = Behind(r)'
    BY <2>1 DEF Behind, InDay
  <2>3. PassInv(r)'
    BY <2>1 DEF PassInv, Keyed
  <2>4. CoversIn(r)' /\ InOrderIn(r)'
    BY <2>1, <2>2 DEF CoversIn, InOrderIn, ToCome
  <2> QED BY <2>3, <2>4 DEF Inv
<1>3. CASE FinishPage(r) /\ cursor[r] # None
  <2>1. /\ pc[r] = "read" /\ pc'[r] = "query" /\ page[r] = {}
        /\ UNCHANGED <<runs, day, page, cursor, due, handled>>
    BY <1>3 DEF FinishPage
  <2>2. ToCome(r)' = ToCome(r)
    BY <1>3, <2>1 DEF ToCome, Behind, InDay
  <2>3. PassInv(r)'
    BY <1>1, <1>3, <2>1 DEF Inv, PassInv, InPass, Keyed
  <2>4. CoversIn(r)' /\ InOrderIn(r)'
    BY <1>1, <2>1, <2>2 DEF Inv, CoversIn, InOrderIn, InPass
  <2> QED BY <2>3, <2>4 DEF Inv
<1>4. CASE QueryFails(r) \/ Crash(r) \/ (FinishPage(r) /\ cursor[r] = None)
  <2>1. pc'[r] = "wait" /\ page'[r] = {} /\ cursor'[r] = None
    BY <1>1, <1>4 DEF QueryFails, Crash, FinishPage, PassEnds, Inv, PassInv
  <2>2. PassInv(r)'
    BY <2>1 DEF PassInv, InPass, Keyed
  <2>3. CoversIn(r)' /\ InOrderIn(r)'
    BY <2>1 DEF CoversIn, InOrderIn, InPass
  <2> QED BY <2>2, <2>3 DEF Inv
<1> QED BY <1>2, <1>3, <1>4

\* The invariant, step by step: a daemon's own step, a restart, an INSERT, and
\* whatever concerns no daemon.
LEMMA DaemonInvStep == TypeOK /\ DaemonInv /\ [Next]_vars => DaemonInv'
<1> SUFFICES ASSUME TypeOK, DaemonInv, [Next]_vars PROVE DaemonInv'
  OBVIOUS
<1>1. DaemonInv' <=> (IsFiniteSet(runs) /\ Keyed(runs))' /\ \A r \in Replicas : Inv(r)'
  BY DEF DaemonInv, Inv, CoversIn, InOrderIn, PassCoversDueRuns, PassNeverRepeats
<1>2. ASSUME UNCHANGED <<runs, daemonVars>> PROVE DaemonInv'
  <2>1. \A r \in Replicas : Inv(r) /\ SameDaemon(r)
    BY <1>2, DaemonInvIs DEF daemonVars, SameDaemon
  <2>2. \A r \in Replicas : Inv(r)'
    BY <1>2, <2>1, Frame
  <2> QED BY <1>1, <1>2, <2>2 DEF DaemonInv, Keyed
<1>3. ASSUME NEW t \in Tasks, ScheduleStep(t) PROVE DaemonInv'
  <2>1. UNCHANGED daemonVars /\ (InsertRun(t) \/ UNCHANGED runs)
    BY <1>3 DEF ScheduleStep, StoreTask, StoreConsignment, StampRun, CreateScheduledRun,
       ScheduleFails
  <2> QED BY <1>2, <2>1, InsertStep
<1>4. ASSUME NEW r \in Replicas, DaemonStep(r) \/ Crash(r) PROVE DaemonInv'
  <2>1. Inv(r)'
    BY <1>4, QueryStep, ReadStep, SendStep, TurnStep DEF DaemonStep
  <2>2. \A q \in Replicas \ {r} : Inv(q) /\ SameDaemon(q)
    BY <1>4, DaemonInvIs DEF DaemonStep, StartPass, QueryPage, QueryFails, ReadTask, SkipTask,
       SendTask, SendFails, FinishPage, Crash, PassEnds, SameDaemon, TypeOK
  <2>3. UNCHANGED runs
    BY <1>4 DEF DaemonStep, StartPass, QueryPage, QueryFails, ReadTask, SkipTask,
       SendTask, SendFails, FinishPage, Crash
  <2>4. \A q \in Replicas : Inv(q)'
    BY <2>1, <2>2, <2>3, Frame
  <2> QED BY <1>1, <2>3, <2>4 DEF DaemonInv, Keyed
<1>5. CASE Tick \/ (\E t \in Tasks : MarkTaskDispatched(t) \/ RemoveTask(t)) \/ UNCHANGED vars
  BY <1>2, <1>5 DEF Tick, MarkTaskDispatched, RemoveTask, vars
<1> QED BY <1>3, <1>4, <1>5, DaemonAssumption DEF Next

\* In every behaviour the passes of every replica are in order.
THEOREM DaemonInvariant == Spec => [](TypeOK /\ DaemonInv)
<1>1. Init => DaemonInv
  BY FS_EmptySet DEF Init, DaemonInv, Keyed, PassInv, PassCoversDueRuns, PassNeverRepeats, InPass
<1>2. TypeOK /\ DaemonInv /\ [Next]_vars => DaemonInv'
  BY DaemonInvStep
<1> QED BY <1>1, <1>2, TypeCorrect, PTL DEF Spec

\* No row is skipped, for any number of rows, any page size and any insertions.
THEOREM PassCoversDueRunsHolds == Spec => []PassCoversDueRuns
<1>1. DaemonInv => PassCoversDueRuns
  BY DEF DaemonInv
<1> QED BY <1>1, DaemonInvariant, PTL

\* No row is taken up twice or out of order.
THEOREM PassNeverRepeatsHolds == Spec => []PassNeverRepeats
<1>1. DaemonInv => PassNeverRepeats
  BY DEF DaemonInv
<1> QED BY <1>1, DaemonInvariant, PTL

\* A pass without a failed query ends with all that was due taken up.
THEOREM CompletePassHandlesDueRunsHolds == Spec => CompletePassHandlesDueRuns
<1> DEFINE Complete == \A r \in Replicas : InPass(r) /\ ~InPass(r)' /\ r \notin unread' =>
                          Stamped(due[r]) \subseteq Stamped(handled[r])
<1>1. TypeOK /\ DaemonInv /\ [Next]_vars => [Complete]_vars
  <2> SUFFICES ASSUME TypeOK, DaemonInv, Next, NEW r \in Replicas,
                      InPass(r), ~InPass(r)', r \notin unread'
               PROVE  Stamped(due[r]) \subseteq Stamped(handled[r])
    OBVIOUS
  <2>1. pc[r] = "read" /\ page[r] = {} /\ cursor[r] = None
    <3> USE DEF InPass, TypeOK
    <3>1. CASE Tick \/ \E t \in Tasks : ScheduleStep(t) \/ MarkTaskDispatched(t) \/ RemoveTask(t)
      BY <3>1 DEF Tick, ScheduleStep, StoreTask, StoreConsignment, StampRun, CreateScheduledRun,
         ScheduleFails, MarkTaskDispatched, RemoveTask, daemonVars
    <3>2. ASSUME NEW q \in Replicas, DaemonStep(q) PROVE pc[r] = "read" /\ page[r] = {} /\ cursor[r] = None
      BY <3>2 DEF DaemonStep, StartPass, QueryPage, QueryFails, ReadTask, SkipTask, SendTask,
         SendFails, FinishPage, PassEnds
    <3>3. ASSUME NEW q \in MayCrash, Crash(q) PROVE FALSE
      BY <3>3 DEF Crash
    <3> QED BY <3>1, <3>2, <3>3 DEF Next
  <2>2. ToCome(r) = {}
    BY <2>1 DEF ToCome, Stamped
  <2> QED BY <2>2 DEF DaemonInv, PassCoversDueRuns
<1> QED BY <1>1, DaemonInvariant, PTL DEF Spec, CompletePassHandlesDueRuns

-----------------------------------------------------------------------------
(* Removal.                                                                *)

\* A removed task about which nothing is under way is in no replica's hands and
\* its row does not come back: only an INSERT of Schedule or the mark of a message
\* would write it, and only a row that was read is sent.
THEOREM RemovedTaskIsNotRunHolds == Spec => RemovedTaskIsNotRun
<1> DEFINE Dead == \A t \in Tasks : RemovedRunIsDead(t) => RemovedRunIsDead(t)' /\ sent'[t] = sent[t]
<1>1. TypeOK /\ [Next]_vars => [Dead]_vars
  <2> SUFFICES ASSUME TypeOK, Next, NEW t \in Tasks, RemovedRunIsDead(t)
               PROVE  RemovedRunIsDead(t)' /\ sent'[t] = sent[t]
    OBVIOUS
  <2> USE DEF TypeOK, TablesTypeOK, RemovedRunIsDead, AtTask, tableVars
  <2>1. CASE Tick
    BY <2>1 DEF Tick, daemonVars
  <2>2. ASSUME NEW u \in Tasks, ScheduleStep(u) PROVE RemovedRunIsDead(t)' /\ sent'[t] = sent[t]
    BY <2>2 DEF ScheduleStep, StoreTask, StoreConsignment, StampRun, CreateScheduledRun,
       ScheduleFails, InsertTask, InsertConsignment, daemonVars
  <2>3. ASSUME NEW u \in Tasks, MarkTaskDispatched(u) \/ RemoveTask(u)
        PROVE RemovedRunIsDead(t)' /\ sent'[t] = sent[t]
    BY <2>3 DEF MarkTaskDispatched, SetTaskStatus, RemoveTask, DeleteTask, daemonVars
  <2>4. ASSUME NEW r \in Replicas, DaemonStep(r) PROVE RemovedRunIsDead(t)' /\ sent'[t] = sent[t]
    <3>1. CASE StartPass(r) \/ QueryFails(r) \/ SkipTask(r) \/ SendFails(r) \/ FinishPage(r)
      BY <3>1 DEF StartPass, QueryFails, SkipTask, SendFails, FinishPage, PassEnds
    <3>2. CASE QueryPage(r)
      BY <3>2 DEF QueryPage
    <3>3. CASE ReadTask(r)
      BY <3>3 DEF ReadTask, ItemRead
    <3>4. CASE SendTask(r)
      <4>1. First(page[r]).task # t
        BY <3>4 DEF SendTask
      <4> QED BY <3>4, <4>1 DEF SendTask
    <3> QED BY <2>4, <3>1, <3>2, <3>3, <3>4 DEF DaemonStep
  <2>5. ASSUME NEW r \in MayCrash, Crash(r) PROVE RemovedRunIsDead(t)' /\ sent'[t] = sent[t]
    BY <2>5 DEF Crash
  <2> QED BY <2>1, <2>2, <2>3, <2>4, <2>5 DEF Next
<1> QED BY <1>1, TypeCorrect, PTL DEF Spec, RemovedTaskIsNotRun
=============================================================================
