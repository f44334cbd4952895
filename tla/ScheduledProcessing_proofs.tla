----------------------- MODULE ScheduledProcessing_proofs -----------------------
(***************************************************************************)
(* The scheduled job: the scan for due dates is long enough, for any zones,*)
(* offsets, windows, lag of up to a day and lookback; and for any number   *)
(* of overlapping invocations, any dates and employees, crashes and        *)
(* failures, what the invariant below says of each invocation.             *)
(***************************************************************************)
EXTENDS ScheduledProcessing, FiniteSetTheorems, WellFoundedInduction, TLAPS

-----------------------------------------------------------------------------
(* The scan of computeDueWorkDates is long enough                          *)

\* Whatever the zones and windows, a date four days before today in UTC is due.
\* (Three days before need not be: midnight half a day behind UTC, a shift ending
\* just before it on the next date, and a lag of a day.)
LEMMA FourDaysOldIsDue ==
    ASSUME NEW t \in Int, NEW d \in FirstDate..LastDate, d + 4 <= UtcDate(t)
    PROVE  Due(d, t)
<1>1. /\ Day \in Nat \ {0} /\ Lag \in 0..Day
      /\ FirstDate \in Int /\ LastDate \in Int /\ d \in Int
    BY DueDatesAssumption
<1>2. UtcDate(t) \in Int /\ UtcDate(t) * Day <= t
    BY <1>1, SMT DEF UtcDate
<1>3. (d + 4) * Day <= UtcDate(t) * Day
    BY <1>1, <1>2, SMT
<1>4. (d + 4) * Day = d * Day + 4 * Day /\ (d + 1) * Day = d * Day + Day
    BY <1>1, SMT
<1>5. d * Day \in Int
    BY <1>1, SMT
<1>6. d * Day + 4 * Day <= t
    BY <1>1, <1>2, <1>3, <1>4, <1>5, SMT
<1> SUFFICES ASSUME NEW z \in Zones
             PROVE  /\ Utc(d + 1, 0, z) + Lag <= t
                    /\ \A w \in Windows : WindowEnd(w, d, z) + Lag <= t
    BY DEF Due
<1>7. /\ Offset(z, d) \in Int /\ -Day <= 2 * Offset(z, d)
      /\ Offset(z, d + 1) \in Int /\ -Day <= 2 * Offset(z, d + 1)
    BY <1>1, DueDatesAssumption
<1>8. Utc(d + 1, 0, z) + Lag <= t
    BY <1>1, <1>4, <1>5, <1>6, <1>7, SMT DEF Utc
<1>9. ASSUME NEW w \in Windows
      PROVE  WindowEnd(w, d, z) + Lag <= t
    <2>1. w.end \in 0..(Day - 1)
        BY DueDatesAssumption
    <2>2. Utc(d, w.end, z) + Lag <= t /\ Utc(d + 1, w.end, z) + Lag <= t
        BY <2>1, <1>1, <1>4, <1>5, <1>6, <1>7, SMT DEF Utc
    <2> QED
        BY <2>2 DEF WindowEnd
<1> QED
    BY <1>8, <1>9

\* No date after tomorrow in UTC is due: the scan need not look any further ahead.
LEMMA DueByTomorrow ==
    ASSUME NEW t \in Int, NEW d \in FirstDate..LastDate, Due(d, t)
    PROVE  d <= UtcDate(t) + 1
<1>1. /\ Day \in Nat \ {0} /\ Lag \in 0..Day
      /\ FirstDate \in Int /\ LastDate \in Int /\ d \in Int
    BY DueDatesAssumption
<1>2. PICK z \in Zones : TRUE
    BY DueDatesAssumption
<1>3. Offset(z, d + 1) \in Int /\ Offset(z, d + 1) <= Day + Day
    BY <1>1, DueDatesAssumption
<1>4. Utc(d + 1, 0, z) + Lag <= t
    BY <1>2 DEF Due
<1>5. UtcDate(t) \in Int /\ t < (UtcDate(t) + 1) * Day
    BY <1>1, SMT DEF UtcDate
<1>6. (d + 1) * Day \in Int
    BY <1>1, SMT
<1>7. (d + 1) * Day <= t + 2 * Day
    BY <1>1, <1>3, <1>4, <1>6, SMT DEF Utc
<1>8. SUFFICES ASSUME d >= UtcDate(t) + 2 PROVE FALSE
    BY <1>1, <1>5, SMT
<1>9. (d + 1) * Day >= (UtcDate(t) + 3) * Day
    BY <1>1, <1>5, <1>8, SMT
<1>10. (UtcDate(t) + 3) * Day = (UtcDate(t) + 1) * Day + 2 * Day
    BY <1>1, <1>5, SMT
<1> QED
    BY <1>1, <1>5, <1>6, <1>7, <1>9, <1>10, SMT
-----------------------------------------------------------------------------
\* computeDueWorkDates: of all the due dates there are, its scan of lookback + 5
\* days finds the newest ones, as many as the lookback says.
THEOREM ScanSuffices ==
    ASSUME NEW t \in Int, UtcDate(t) - 4 \in FirstDate..LastDate,
           \A d \in Scanned(t) : Due(d, t) => d \in FirstDate..LastDate
    PROVE  ComputeDueWorkDates(t) = Newest({d \in FirstDate..LastDate : Due(d, t)}, Lookback)
<1> DEFINE found == {d \in Scanned(t) : Due(d, t)}
           due == {d \in FirstDate..LastDate : Due(d, t)}
           oldest == UtcDate(t) - (Lookback + 3)
<1>1. /\ Lookback \in Nat \ {0} /\ FirstDate \in Int /\ LastDate \in Int
      /\ UtcDate(t) \in Int /\ oldest \in Int
    BY DueDatesAssumption DEF UtcDate
<1>2. IsFiniteSet(due)
    <2>1. IsFiniteSet(FirstDate..LastDate)
        BY <1>1, FS_Interval
    <2> QED
        BY <2>1, FS_Subset
<1>3. found \subseteq due
    OBVIOUS
<1>4. ASSUME NEW d \in due, d >= oldest
      PROVE  d \in found
    <2>1. d \in Int /\ d <= UtcDate(t) + 1
        BY <1>1, DueByTomorrow
    <2>2. UtcDate(t) - d \in -1..(Lookback + 3) /\ d = UtcDate(t) - (UtcDate(t) - d)
        BY <1>1, <1>4, <2>1
    <2>3. d \in Scanned(t)
        BY <2>2 DEF Scanned
    <2> QED
        BY <2>3
<1>5. ASSUME NEW d \in found
      PROVE  d >= oldest /\ d \in Int
    BY <1>1 DEF Scanned
\* A date before the scan has as many due dates after it as the lookback takes.
<1>6. ASSUME NEW d \in due, d < oldest
      PROVE  ~(Cardinality({x \in due : x > d}) < Lookback)
    <2> DEFINE later == oldest..(UtcDate(t) - 4)
    <2>1. later \subseteq {x \in due : x > d}
        <3> SUFFICES ASSUME NEW x \in later PROVE x \in due /\ x > d
            OBVIOUS
        <3>1. d \in Int /\ x \in Int /\ x > d /\ x + 4 <= UtcDate(t)
            BY <1>1, <1>6
        <3>2. x \in FirstDate..LastDate
            BY <1>1, <1>6, <3>1
        <3>3. Due(x, t)
            BY <3>1, <3>2, FourDaysOldIsDue
        <3> QED
            BY <3>1, <3>2, <3>3
    <2>2. IsFiniteSet({x \in due : x > d})
        BY <1>2, FS_Subset
    <2>3. Cardinality(later) <= Cardinality({x \in due : x > d})
        BY <2>1, <2>2, FS_Subset
    <2>4. Cardinality(later) = Lookback
        <3>1. UtcDate(t) - 4 \in Int /\ oldest <= UtcDate(t) - 4
            BY <1>1
        <3>2. Cardinality(later) = (UtcDate(t) - 4) - oldest + 1
            <4>1. ASSUME NEW a \in Int, NEW b \in Int, a <= b
                  PROVE  Cardinality(a..b) = b - a + 1
                <5>1. Cardinality(a..b) = IF a > b THEN 0 ELSE b - a + 1
                    BY FS_Interval
                <5> QED
                    BY <4>1, <5>1
            <4> HIDE DEF oldest
            <4> QED
                BY <1>1, <3>1, <4>1
        <3> QED
            BY <1>1, <3>2
    <2>5. Cardinality({x \in due : x > d}) \in Nat
        BY <2>2, FS_CardinalityType
    <2> QED
        BY <1>1, <2>3, <2>4, <2>5
<1>7. ASSUME NEW d \in found
      PROVE  {x \in found : x > d} = {x \in due : x > d}
    <2>1. ASSUME NEW x \in due, x > d
          PROVE  x \in found
        <3>1. x \in Int /\ x >= oldest
            BY <1>1, <1>5, <2>1
        <3> QED
            BY <1>4, <3>1
    <2> QED
        BY <1>3, <2>1
<1>8. Newest(found, Lookback) = Newest(due, Lookback)
    <2>1. ASSUME NEW d \in due, Cardinality({x \in due : x > d}) < Lookback
          PROVE  d \in found
        <3>1. d \in Int /\ ~(d < oldest)
            BY <1>1, <1>6, <2>1
        <3> QED
            BY <1>1, <1>4, <3>1
    <2> QED
        BY <1>3, <1>7, <2>1 DEF Newest
<1> QED
    BY <1>8 DEF ComputeDueWorkDates

-----------------------------------------------------------------------------
(* The inductive invariant                                                 *)

\* The employees with a record of the date, in some set of records.
In(rec, d) == {e \in Employees : [employee |-> e, date |-> d] \in rec}

AfterRead == {"abandon", "insert", "loop", "release"}

\* What holds of an invocation i in state q at time t, given the records and the
\* RUNNING rows: it works on dates that were due, knows whom it still has to reach,
\* and the row of its date is absent when it inserts it and its own in the loop.
Sound(q, i, t, rec, run) ==
    /\ \A d \in q.dates : Due(d, t)
    /\ q.date # None => Due(q.date, t)
    /\ q.pc \in Holding \cup {"lock"} => q.date \in Dates
    /\ q.pc \in AfterRead => q.missing \subseteq EligibleOn(q.date)
    /\ q.pc \in {"abandon", "insert", "loop"} =>
          EligibleOn(q.date) \subseteq In(rec, q.date) \cup q.missing \cup q.failed \cup q.skipped
    /\ q.pc = "insert" => run[q.date] = None
    /\ q.pc = "loop" => run[q.date] = i
    /\ q.pc # "release" => q.status = "RUNNING"

AllSound == \A i \in Invocations : Sound(invocation[i], i, now, record, running)

\* The lock: no two invocations have the same date between taking it and giving
\* it up.
Exclusive ==
    \A i, j \in Invocations :
        i # j /\ invocation[i].pc \in Holding /\ invocation[j].pc \in Holding
        => invocation[i].date # invocation[j].date

IInv == TypeOK /\ AllSound /\ Exclusive
-----------------------------------------------------------------------------
(* Types and monotonicity                                                  *)

\* What the assumptions say of the constants.
LEMMA Constants ==
    /\ FirstDate \in Int /\ LastDate \in Int /\ StartTime \in Int /\ LastTime \in Int
    /\ Dates \subseteq Int /\ Instants \subseteq Int
    /\ None \notin Invocations /\ None \notin Dates
    /\ Budget \in Nat \ {0} /\ MaxInterference \in Nat
BY DueDatesAssumption, ProcessingAssumption DEF Dates, Instants

\* A date that is due stays due.
LEMMA DueStays ==
    ASSUME NEW d \in Dates, NEW t \in Int, NEW u \in Int, t <= u, Due(d, t)
    PROVE  Due(d, u)
<1>1. d \in Int /\ FirstDate \in Int /\ LastDate \in Int
    BY Constants
<1> SUFFICES ASSUME NEW z \in Zones
             PROVE  /\ Utc(d + 1, 0, z) + Lag <= u
                    /\ \A w \in Windows : WindowEnd(w, d, z) + Lag <= u
    BY DEF Due
<1>2. /\ Day \in Nat \ {0} /\ Lag \in 0..Day
      /\ Offset(z, d) \in Int /\ Offset(z, d + 1) \in Int
    BY <1>1, DueDatesAssumption DEF Dates
<1>3. d * Day \in Int /\ (d + 1) * Day \in Int
    BY <1>1, <1>2, SMT
<1>4. Utc(d + 1, 0, z) \in Int /\ Utc(d + 1, 0, z) + Lag <= t
    BY <1>1, <1>2, <1>3 DEF Utc, Due
<1>5. ASSUME NEW w \in Windows
      PROVE  WindowEnd(w, d, z) \in Int /\ WindowEnd(w, d, z) + Lag <= t
    <2>1. w.end \in Int
        BY <1>2, DueDatesAssumption
    <2>2. Utc(d, w.end, z) \in Int /\ Utc(d + 1, w.end, z) \in Int
        BY <1>1, <1>2, <1>3, <2>1 DEF Utc
    <2>3. WindowEnd(w, d, z) \in Int
        BY <2>2 DEF WindowEnd
    <2>4. WindowEnd(w, d, z) + Lag <= t
        BY DEF Due
    <2> QED
        BY <2>3, <2>4
<1> QED
    BY <1>2, <1>4, <1>5

\* Time and records only help; another's RUNNING rows do not matter.
LEMMA SoundStays ==
    ASSUME NEW q \in Invocation, NEW i, NEW t \in Int, NEW u \in Int, t <= u,
           NEW rec, NEW rec2, rec \subseteq rec2, NEW run, NEW run2,
           q.pc \in {"insert", "loop"} => run2[q.date] = run[q.date],
           Sound(q, i, t, rec, run)
    PROVE  Sound(q, i, u, rec2, run2)
<1>1. q.dates \subseteq Dates /\ q.date \in Dates \cup {None}
    BY DEF Invocation
<1>2. \A d \in Dates : Due(d, t) => Due(d, u)
    BY DueStays
<1>3. In(rec, q.date) \subseteq In(rec2, q.date)
    BY DEF In
<1> QED
    BY <1>1, <1>2, <1>3 DEF Sound

\* All that a step of one invocation has to show.
LEMMA OneMoves ==
    ASSUME IInv, NEW i \in Invocations, NEW q \in Invocation, Become(i, q),
           now' \in Int, now <= now', record \subseteq record',
           Sound(q, i, now', record', running'),
           \A j \in Invocations \ {i} :
              invocation[j].pc \in {"insert", "loop"} =>
                 running'[invocation[j].date] = running[invocation[j].date],
           q.pc \in Holding =>
              \A j \in Invocations \ {i} :
                 invocation[j].pc \in Holding => invocation[j].date # q.date
    PROVE  /\ invocation' \in [Invocations -> Invocation]
           /\ AllSound' /\ Exclusive'
<1>1. /\ invocation \in [Invocations -> Invocation] /\ now \in Int
      /\ invocation' = [invocation EXCEPT ![i] = q]
    BY Constants DEF IInv, TypeOK, Become
<1>2. /\ invocation' \in [Invocations -> Invocation]
      /\ invocation'[i] = q
      /\ \A j \in Invocations \ {i} : invocation'[j] = invocation[j]
    BY <1>1
<1>3. ASSUME NEW j \in Invocations \ {i}
      PROVE  Sound(invocation'[j], j, now', record', running')
    <2>1. invocation[j] \in Invocation /\ Sound(invocation[j], j, now, record, running)
        BY <1>1 DEF IInv, AllSound
    <2>2. Sound(invocation[j], j, now', record', running')
        BY <1>1, <2>1, SoundStays
    <2> QED
        BY <1>2, <2>2
<1>4. AllSound'
    BY <1>2, <1>3 DEF AllSound
<1>5. Exclusive'
    BY <1>2 DEF IInv, Exclusive
<1> QED
    BY <1>2, <1>4, <1>5
-----------------------------------------------------------------------------
(* Steps                                                                   *)

\* An invocation that does nothing is sound.
LEMMA IdleSound ==
    ASSUME NEW i, NEW t, NEW rec, NEW run
    PROVE  Idle \in Invocation /\ Sound(Idle, i, t, rec, run) /\ Idle.pc \notin Holding
BY Constants DEF Idle, Invocation, Pcs, Sound, Holding, AfterRead

\* So is one that goes on to its next date.
LEMMA NextDateSound ==
    ASSUME NEW q \in Invocation, NEW i, NEW t, NEW rec, NEW run, Sound(q, i, t, rec, run)
    PROVE  /\ NextDate(q) \in Invocation /\ Sound(NextDate(q), i, t, rec, run)
           /\ NextDate(q).pc \notin Holding
BY Constants DEF NextDate, Idle, Invocation, Pcs, Sound, Holding, AfterRead

\* The same with the date just chosen, as CheckPeriod uses it.
LEMMA NextDateOfSound ==
    ASSUME NEW q \in Invocation, NEW d \in Dates, NEW i, NEW t, NEW rec, NEW run,
           Sound(q, i, t, rec, run)
    PROVE  /\ NextDate([q EXCEPT !.date = d]) \in Invocation
           /\ Sound(NextDate([q EXCEPT !.date = d]), i, t, rec, run)
           /\ NextDate([q EXCEPT !.date = d]).pc \notin Holding
BY Constants DEF NextDate, Idle, Invocation, Pcs, Sound, Holding, AfterRead

\* What a scan selects is due and is a date of the instance.
LEMMA SelectedAreDue ==
    ASSUME NEW t \in Instants
    PROVE  ComputeDueWorkDates(t) \subseteq {d \in Dates : Due(d, t)}
BY DatesAssumption DEF ComputeDueWorkDates, Newest

\* The oldest date chosen is one of those chosen from.
LEMMA OldestIsOne ==
    ASSUME NEW dates \in SUBSET Dates, dates # {}
    PROVE  Oldest(dates) \in dates
<1>1. \A d \in dates : d \in Int /\ FirstDate <= d
    BY Constants DEF Dates
<1>a. PICK e \in dates : TRUE
    OBVIOUS
<1> DEFINE less == {ss \in Nat \X Nat : ss[1] < ss[2]}
           offsets == {d - FirstDate : d \in dates}
<1>2. IsWellFoundedOn(less, Nat)
    BY NatLessThanWellFounded DEF OpToRel
<1>3. offsets \subseteq Nat /\ offsets # {}
    BY <1>1, Constants
<1>4. PICK n \in offsets : \A k \in offsets : <<k, n>> \notin less
    <2> HIDE DEF less, offsets
    <2> QED
        BY <1>2, <1>3, WFMin
<1>5. PICK d \in dates : n = d - FirstDate
    BY <1>4
<1>6. ASSUME NEW x \in dates
      PROVE  d <= x
    <2>1. x - FirstDate \in offsets /\ x - FirstDate \in Nat /\ n \in Nat
        BY <1>3, <1>4
    <2>2. ~(x - FirstDate < n)
        BY <1>4, <2>1
    <2> QED
        BY <1>1, <1>5, <2>1, <2>2, Constants
<1> QED
    BY <1>6 DEF Oldest
-----------------------------------------------------------------------------
\* What a step of one invocation that does not move the clock has to show: it holds
\* no lock afterwards, or the one it had, or one that nobody had; and it changes no
\* RUNNING row but that of the date whose lock it has.
LEMMA Proceeds ==
    ASSUME IInv, NEW i \in Invocations, NEW q \in Invocation, Become(i, q),
           UNCHANGED <<now, closed>>, used' \in 0..MaxInterference,
           record \subseteq record', record' \subseteq Day1,
           running' \in [Dates -> Invocations \cup {None}],
           Sound(q, i, now, record', running'),
           \/ q.pc \notin Holding
           \/ invocation[i].pc \in Holding /\ q.date = invocation[i].date
           \/ ~Held(q.date),
           \/ running' = running
           \/ /\ invocation[i].pc \in Holding
              /\ \A d \in Dates \ {invocation[i].date} : running'[d] = running[d]
    PROVE  IInv'
<1>1. now \in Int /\ now' = now /\ now <= now'
    BY Constants DEF IInv, TypeOK
<1>2. ASSUME NEW j \in Invocations \ {i}, invocation[j].pc \in {"insert", "loop"}
      PROVE  running'[invocation[j].date] = running[invocation[j].date]
    <2>1. invocation[j].pc \in Holding
        BY <1>2 DEF Holding
    <2>2. invocation[j].date \in Dates
        BY <2>1 DEF IInv, AllSound, Sound
    <2>3. invocation[i].pc \in Holding => invocation[j].date # invocation[i].date
        BY <2>1 DEF IInv, Exclusive
    <2> QED
        BY <2>2, <2>3
<1>3. ASSUME q.pc \in Holding, NEW j \in Invocations \ {i}, invocation[j].pc \in Holding
      PROVE  invocation[j].date # q.date
    BY <1>3 DEF IInv, Exclusive, Held
<1>4. /\ invocation' \in [Invocations -> Invocation] /\ AllSound' /\ Exclusive'
    BY <1>1, <1>2, <1>3, OneMoves
<1> QED
    BY <1>4 DEF IInv, TypeOK

\* The state of one invocation, with everything IInv says of it.
LEMMA Known ==
    ASSUME IInv, NEW i \in Invocations
    PROVE  /\ invocation[i] \in Invocation
           /\ Sound(invocation[i], i, now, record, running)
           /\ now \in Instants /\ now \in Int /\ used \in 0..MaxInterference
           /\ record \subseteq Day1 /\ running \in [Dates -> Invocations \cup {None}]
BY Constants DEF IInv, TypeOK, AllSound

\* An invocation that ends, its slot idle again, keeps IInv.
LEMMA Idles ==
    ASSUME IInv, NEW i \in Invocations, Become(i, Idle),
           UNCHANGED <<now, closed, record, running>>, used' \in 0..MaxInterference
    PROVE  IInv'
<1> DEFINE q == Idle
<1>1. q \in Invocation /\ Sound(q, i, now, record', running') /\ q.pc \notin Holding
    BY IdleSound
<1>2. Become(i, q)
    OBVIOUS
<1> HIDE DEF q
<1> QED
    BY <1>1, <1>2, Known, Proceeds

\* An invocation that goes on to its next date keeps IInv.
LEMMA GoesToNextDate ==
    ASSUME IInv, NEW i \in Invocations, Become(i, NextDate(invocation[i])),
           UNCHANGED <<now, closed, record, running, used>>
    PROVE  IInv'
<1> DEFINE q == NextDate(invocation[i])
<1>1. q \in Invocation /\ Sound(q, i, now, record', running') /\ q.pc \notin Holding
    BY Known, NextDateSound
<1>2. Become(i, q)
    OBVIOUS
<1> HIDE DEF q
<1> QED
    BY <1>1, <1>2, Known, Proceeds
-----------------------------------------------------------------------------
\* Invoke keeps IInv.
LEMMA InvokeInv ==
    ASSUME IInv, NEW i \in Invocations, Invoke(i)
    PROVE  IInv'
<1> DEFINE q == [Idle EXCEPT !.pc = "inputs", !.budget = Budget]
<1>1. Budget \in 0..Budget
    BY Constants
<1>2. /\ q.pc = "inputs" /\ q.dates = {} /\ q.date = None /\ q.status = "RUNNING"
      /\ q \in Invocation
    BY <1>1, IdleSound DEF Idle, Invocation, Pcs
<1>3. Sound(q, i, now, record', running') /\ q.pc \notin Holding
    <2> HIDE DEF q
    <2> QED
        BY <1>2 DEF Sound, Holding, AfterRead
<1>4. Become(i, q) /\ UNCHANGED <<now, closed, record, running, used>>
    BY DEF Invoke
<1> HIDE DEF q
<1> QED
    BY <1>2, <1>3, <1>4, Known, Proceeds

\* SelectDates keeps IInv.
LEMMA SelectDatesInv ==
    ASSUME IInv, NEW i \in Invocations, SelectDates(i)
    PROVE  IInv'
<1> DEFINE q == [invocation[i] EXCEPT !.pc = "date", !.dates = ComputeDueWorkDates(now)]
<1>1. ComputeDueWorkDates(now) \subseteq {d \in Dates : Due(d, now)}
    BY Known, SelectedAreDue
<1>2. q \in Invocation /\ Sound(q, i, now, record', running') /\ q.pc \notin Holding
    BY <1>1, Known DEF SelectDates, Invocation, Pcs, Sound, Holding, AfterRead
<1>3. Become(i, q) /\ UNCHANGED <<now, closed, record, running, used>>
    BY DEF SelectDates
<1> HIDE DEF q
<1> QED
    BY <1>2, <1>3, Known, Proceeds

\* CheckPeriod keeps IInv.
LEMMA CheckPeriodInv ==
    ASSUME IInv, NEW i \in Invocations, CheckPeriod(i)
    PROVE  IInv'
<1> DEFINE d == Oldest(invocation[i].dates)
           skip == NextDate([invocation[i] EXCEPT !.date = d])
           go == [invocation[i] EXCEPT !.pc = "lock", !.date = d]
<1>1. d \in Dates /\ Due(d, now)
    <2>1. invocation[i].dates \in SUBSET Dates /\ invocation[i].dates # {}
        BY Known DEF CheckPeriod, Invocation
    <2>2. d \in invocation[i].dates
        BY <2>1, OldestIsOne
    <2> QED
        BY <2>1, <2>2, Known DEF Sound
<1>2. UNCHANGED <<now, closed, record, running, used>>
    BY DEF CheckPeriod
<1>3. CASE Become(i, skip)
    <2>1. skip \in Invocation /\ Sound(skip, i, now, record, running) /\ skip.pc \notin Holding
        <3> HIDE DEF d
        <3> QED
            BY <1>1, Known, NextDateOfSound
    <2> HIDE DEF skip
    <2> QED
        BY <1>2, <1>3, <2>1, Known, Proceeds
<1>4. CASE Become(i, go)
    <2>1. go \in Invocation /\ Sound(go, i, now, record, running) /\ go.pc \notin Holding
        <3> HIDE DEF d
        <3>1. invocation[i] \in Invocation /\ Sound(invocation[i], i, now, record, running)
            BY Known
        <3>2. /\ go.pc = "lock" /\ go.date = d /\ go.dates = invocation[i].dates
              /\ go.status = invocation[i].status /\ go \in Invocation
            BY <1>1, <3>1, Constants DEF Invocation, Pcs
        <3>3. (\A x \in go.dates : Due(x, now)) /\ go.status = "RUNNING"
            BY <3>1, <3>2 DEF Sound, CheckPeriod
        <3> HIDE DEF go
        <3> QED
            BY <1>1, <3>2, <3>3 DEF Sound, Holding, AfterRead
    <2> HIDE DEF go
    <2> QED
        BY <1>2, <1>4, <2>1, Known, Proceeds
<1> QED
    BY <1>3, <1>4 DEF CheckPeriod

\* TryLock keeps IInv.
LEMMA TryLockInv ==
    ASSUME IInv, NEW i \in Invocations, TryLock(i)
    PROVE  IInv'
<1> DEFINE q == [invocation[i] EXCEPT !.pc = "eligible"]
<1>1. UNCHANGED <<now, closed, record, running, used>>
    BY DEF TryLock
<1>2. CASE Held(invocation[i].date)
    BY <1>1, <1>2, GoesToNextDate DEF TryLock
<1>3. CASE ~Held(invocation[i].date)
    <2>1. q \in Invocation /\ Sound(q, i, now, record, running) /\ ~Held(q.date)
        BY <1>3, Known DEF TryLock, Invocation, Pcs, Sound, Holding, AfterRead
    <2>2. Become(i, q)
        BY <1>3 DEF TryLock
    <2> HIDE DEF q
    <2> QED
        BY <1>1, <2>1, <2>2, Known, Proceeds
<1> QED
    BY <1>2, <1>3

\* ReadMissing keeps IInv.
LEMMA ReadMissingInv ==
    ASSUME IInv, NEW i \in Invocations, ReadMissing(i)
    PROVE  IInv'
<1> DEFINE missing == EligibleOn(invocation[i].date) \ Recorded(invocation[i].date)
           q == [invocation[i] EXCEPT !.pc = "abandon", !.missing = missing]
<1>1. UNCHANGED <<now, closed, record, running, used>>
    BY DEF ReadMissing
<1>2. CASE missing = {}
    BY <1>1, <1>2, GoesToNextDate DEF ReadMissing
<1>3. CASE missing # {}
    <2>1. invocation[i].date \in Dates /\ invocation[i].pc \in Holding
        BY Known DEF ReadMissing, Sound, Holding
    <2>2. missing \subseteq Employees /\ missing \subseteq EligibleOn(invocation[i].date)
        BY <2>1, ProcessingAssumption
    <2>3. EligibleOn(invocation[i].date) \subseteq In(record, invocation[i].date) \cup missing
        BY DEF In, Recorded
    <2>4. q \in Invocation /\ Sound(q, i, now, record, running) /\ q.date = invocation[i].date
        <3> HIDE DEF missing
        <3>1. invocation[i] \in Invocation /\ Sound(invocation[i], i, now, record, running)
            BY Known
        <3>2. /\ q.pc = "abandon" /\ q.missing = missing
              /\ q.date = invocation[i].date /\ q.dates = invocation[i].dates
              /\ q.status = invocation[i].status /\ q \in Invocation
            BY <2>2, <3>1 DEF Invocation, Pcs
        <3>3. invocation[i].pc = "eligible"
            BY DEF ReadMissing
        <3> HIDE DEF q
        <3>4. /\ \A x \in q.dates : Due(x, now)
              /\ q.date \in Dates /\ Due(q.date, now) /\ q.status = "RUNNING"
            BY <2>1, <3>1, <3>2, <3>3, Constants DEF Sound
        <3> QED
            BY <2>2, <2>3, <3>2, <3>4 DEF Sound, Holding, AfterRead
    <2>5. Become(i, q)
        BY <1>3 DEF ReadMissing
    <2> HIDE DEF q
    <2> QED
        BY <1>1, <2>1, <2>4, <2>5, Known, Proceeds
<1> QED
    BY <1>2, <1>3

\* AbandonStaleRunning keeps IInv.
LEMMA AbandonStaleRunningInv ==
    ASSUME IInv, NEW i \in Invocations, AbandonStaleRunning(i)
    PROVE  IInv'
<1> DEFINE q == [invocation[i] EXCEPT !.pc = "insert"]
<1>1. invocation[i].date \in Dates /\ invocation[i].pc \in Holding
    BY Known DEF AbandonStaleRunning, Sound, Holding
<1>2. /\ running' \in [Dates -> Invocations \cup {None}]
      /\ running'[invocation[i].date] = None
      /\ \A d \in Dates \ {invocation[i].date} : running'[d] = running[d]
    BY <1>1, Known DEF AbandonStaleRunning
<1>3. q \in Invocation /\ Sound(q, i, now, record, running') /\ q.date = invocation[i].date
    BY <1>1, <1>2, Known DEF AbandonStaleRunning, Invocation, Pcs, Sound, Holding, AfterRead
<1>4. Become(i, q) /\ UNCHANGED <<now, closed, record, used>>
    BY DEF AbandonStaleRunning
<1> HIDE DEF q
<1> QED
    BY <1>1, <1>2, <1>3, <1>4, Known, Proceeds

\* InsertRunning keeps IInv.
LEMMA InsertRunningInv ==
    ASSUME IInv, NEW i \in Invocations, InsertRunning(i)
    PROVE  /\ IInv'
           /\ invocation'[i].pc = "loop"
<1> DEFINE q == [invocation[i] EXCEPT !.pc = "loop"]
<1>1. /\ invocation[i].date \in Dates /\ invocation[i].pc \in Holding
      /\ running[invocation[i].date] = None
    BY Known DEF InsertRunning, Sound, Holding
<1>2. /\ running' \in [Dates -> Invocations \cup {None}]
      /\ running'[invocation[i].date] = i
      /\ \A d \in Dates \ {invocation[i].date} : running'[d] = running[d]
    BY <1>1, Known DEF InsertRunning
<1>3. /\ q \in Invocation /\ Sound(q, i, now, record, running')
      /\ q.date = invocation[i].date /\ q.pc = "loop"
    BY <1>1, <1>2, Known DEF InsertRunning, Invocation, Pcs, Sound, Holding, AfterRead
<1>4. Become(i, q) /\ UNCHANGED <<now, closed, record, used>>
    BY <1>1 DEF InsertRunning
<1>5. invocation'[i] = q
    BY <1>4 DEF Become, IInv, TypeOK
<1> HIDE DEF q
<1> QED
    BY <1>1, <1>2, <1>3, <1>4, <1>5, Known, Proceeds

\* q0 has counted e as reached, or as failed or skipped.
Counts(q0, q, e) ==
    /\ q \in Invocation /\ q.pc = "loop" /\ q.date = q0.date /\ q.dates = q0.dates
    /\ q.status = q0.status /\ q.missing = q0.missing \ {e}
    /\ q0.failed \subseteq q.failed /\ q0.skipped \subseteq q.skipped

\* An employee a run has dealt with is counted once, as created, skipped or failed.
LEMMA Counted ==
    ASSUME NEW q0 \in Invocation, q0.pc = "loop", q0.budget > 0, NEW e \in q0.missing,
           NEW next, next = [q0 EXCEPT !.missing = @ \ {e}, !.budget = @ - 1]
    PROVE  /\ Counts(q0, next, e)
           /\ LET q == [next EXCEPT !.skipped = @ \cup {e}] IN Counts(q0, q, e) /\ e \in q.skipped
           /\ LET q == [next EXCEPT !.failed = @ \cup {e}] IN Counts(q0, q, e) /\ e \in q.failed
<1>1. q0.budget - 1 \in 0..Budget /\ e \in Employees
    BY Constants DEF Invocation
<1>2. next = [pc |-> q0.pc, dates |-> q0.dates, date |-> q0.date, missing |-> q0.missing \ {e},
              failed |-> q0.failed, skipped |-> q0.skipped, budget |-> q0.budget - 1,
              status |-> q0.status]
    BY DEF Invocation
<1>3. Counts(q0, next, e) /\ next.failed = q0.failed /\ next.skipped = q0.skipped
    BY <1>1, <1>2 DEF Counts, Invocation
<1>4. Counts(q0, [next EXCEPT !.skipped = @ \cup {e}], e)
    BY <1>1, <1>3 DEF Counts, Invocation
<1>5. Counts(q0, [next EXCEPT !.failed = @ \cup {e}], e)
    BY <1>1, <1>3 DEF Counts, Invocation
<1>6. /\ e \in [next EXCEPT !.skipped = @ \cup {e}].skipped
      /\ e \in [next EXCEPT !.failed = @ \cup {e}].failed
    BY <1>3 DEF Counts, Invocation
<1> QED
    BY <1>3, <1>4, <1>5, <1>6

\* An invocation in the loop goes on in it, having created a record for e, or counted
\* it.
LEMMA GoesOnInLoop ==
    ASSUME IInv, NEW i \in Invocations, NEW q, Become(i, q), invocation[i].pc = "loop",
           NEW e, Counts(invocation[i], q, e),
           e \in In(record', q.date) \cup q.failed \cup q.skipped,
           UNCHANGED <<now, closed, running>>, used' \in 0..MaxInterference,
           record \subseteq record', record' \subseteq Day1
    PROVE  IInv' /\ invocation'[i].pc = "loop"
<1>1. invocation[i].pc \in Holding /\ q \in Invocation /\ q.date = invocation[i].date
    BY DEF Holding, Counts
<1>2. In(record, q.date) \subseteq In(record', q.date)
    BY DEF In
<1>3. Sound(q, i, now, record', running')
    BY <1>2, Known DEF Counts, Sound, Holding, AfterRead
<1>4. invocation'[i] = q
    BY DEF IInv, TypeOK, Become
<1> QED
    BY <1>1, <1>3, <1>4, Known, Proceeds DEF Counts

\* Materialize keeps IInv.
LEMMA MaterializeInv ==
    ASSUME IInv, NEW i \in Invocations, Materialize(i)
    PROVE  /\ IInv'
           /\ invocation'[i].pc = "loop"
           /\ \A x \in record' \ record :
                 /\ x.date = invocation[i].date /\ x.employee \in invocation[i].missing
                 /\ ~PeriodLocked(x.date)
<1> DEFINE q0 == invocation[i]
           next(e) == [q0 EXCEPT !.missing = @ \ {e}, !.budget = @ - 1]
           day(e) == [employee |-> e, date |-> q0.date]
<1>1. /\ q0.pc = "loop" /\ q0.budget > 0
      /\ UNCHANGED <<now, closed, running, used>>
    BY DEF Materialize
<1>2. PICK e \in q0.missing :
         \/ Become(i, [next(e) EXCEPT !.skipped = @ \cup {e}]) /\ UNCHANGED record
         \/ Become(i, [next(e) EXCEPT !.failed = @ \cup {e}]) /\ UNCHANGED record
         \/ ~PeriodLocked(q0.date) /\ Become(i, next(e)) /\ record' = record \cup {day(e)}
    BY Zenon DEF Materialize
<1>3. q0 \in Invocation /\ q0.date \in Dates /\ e \in Employees
    BY <1>1, Known DEF Invocation, Sound, Holding
<1>4. /\ Counts(q0, next(e), e)
      /\ Counts(q0, [next(e) EXCEPT !.skipped = @ \cup {e}], e)
      /\ e \in [next(e) EXCEPT !.skipped = @ \cup {e}].skipped
      /\ Counts(q0, [next(e) EXCEPT !.failed = @ \cup {e}], e)
      /\ e \in [next(e) EXCEPT !.failed = @ \cup {e}].failed
    BY <1>1, <1>3, Counted, Zenon
<1> HIDE DEF next
<1>5. CASE Become(i, [next(e) EXCEPT !.skipped = @ \cup {e}]) /\ UNCHANGED record
    <2> DEFINE q == [next(e) EXCEPT !.skipped = @ \cup {e}]
    <2>1. Become(i, q) /\ Counts(q0, q, e) /\ e \in q.skipped
        BY <1>4, <1>5
    <2> HIDE DEF q
    <2> QED
        BY <1>1, <1>5, <2>1, Known, GoesOnInLoop
<1>6. CASE Become(i, [next(e) EXCEPT !.failed = @ \cup {e}]) /\ UNCHANGED record
    <2> DEFINE q == [next(e) EXCEPT !.failed = @ \cup {e}]
    <2>1. Become(i, q) /\ Counts(q0, q, e) /\ e \in q.failed
        BY <1>4, <1>6
    <2> HIDE DEF q
    <2> QED
        BY <1>1, <1>6, <2>1, Known, GoesOnInLoop
<1>7. CASE ~PeriodLocked(q0.date) /\ Become(i, next(e)) /\ record' = record \cup {day(e)}
    <2>1. e \in In(record', next(e).date)
        BY <1>3, <1>4, <1>7 DEF In, Counts
    <2>2. record' \subseteq Day1
        BY <1>3, <1>7, Known DEF Day1
    <2>3. IInv' /\ invocation'[i].pc = "loop"
        BY <1>1, <1>4, <1>7, <2>1, <2>2, Known, GoesOnInLoop
    <2> QED
        BY <1>7, <2>3
<1> QED
    BY <1>2, <1>5, <1>6, <1>7

\* FailMaterialize keeps IInv.
LEMMA FailMaterializeInv ==
    ASSUME IInv, NEW i \in Invocations, FailMaterialize(i)
    PROVE  IInv' /\ invocation'[i].pc = "loop" /\ record' = record
<1> DEFINE q0 == invocation[i]
           next(e) == [q0 EXCEPT !.missing = @ \ {e}, !.budget = @ - 1]
<1>1. /\ q0.pc = "loop" /\ q0.budget > 0 /\ q0 \in Invocation
      /\ UNCHANGED <<now, closed, running, record>> /\ used' \in 0..MaxInterference
    BY Known, Constants DEF FailMaterialize, Interfere
<1>2. PICK e \in q0.missing : Become(i, [next(e) EXCEPT !.failed = @ \cup {e}])
    BY Zenon DEF FailMaterialize
<1> DEFINE q == [next(e) EXCEPT !.failed = @ \cup {e}]
<1>3. Counts(q0, q, e) /\ e \in q.failed
    BY <1>1, Counted, Zenon
<1>4. Become(i, q)
    BY <1>2
<1> HIDE DEF q
<1> QED
    BY <1>1, <1>3, <1>4, Known, GoesOnInLoop

\* The RUNNING row that finish and the handler of its failure leave alone or remove.
LEMMA FinishedType ==
    ASSUME IInv, NEW i \in Invocations, invocation[i].pc = "loop",
           Finished(i) \/ UNCHANGED running
    PROVE  /\ invocation[i].date \in Dates
           /\ running' \in [Dates -> Invocations \cup {None}]
           /\ \A d \in Dates \ {invocation[i].date} : running'[d] = running[d]
<1>1. invocation[i].date \in Dates
    BY Known DEF Sound, Holding
<1> QED
    BY <1>1, Known DEF Finished

\* Finish keeps IInv.
LEMMA FinishInv ==
    ASSUME IInv, NEW i \in Invocations, Finish(i)
    PROVE  /\ IInv' /\ record' = record
           /\ invocation'[i].status = "COMPLETED" => invocation[i].missing = {}
<1> DEFINE q == [invocation[i] EXCEPT !.pc = "release", !.status = Outcome(invocation[i])]
<1>1. /\ invocation[i].pc = "loop" /\ invocation[i].pc \in Holding
      /\ UNCHANGED <<now, closed, record, used>> /\ Finished(i) /\ Become(i, q)
    BY DEF Finish, Holding
<1>2. Outcome(invocation[i]) \in {"COMPLETED", "FAILED"}
    BY DEF Outcome
<1>3. /\ q \in Invocation /\ q.date = invocation[i].date
      /\ q.status = "COMPLETED" => invocation[i].missing = {}
    BY <1>2, Known DEF Invocation, Pcs, Outcome
<1>4. Sound(q, i, now, record', running')
    <2>1. /\ q.pc = "release" /\ q.dates = invocation[i].dates
          /\ q.missing = invocation[i].missing
        BY Known DEF Invocation
    <2> HIDE DEF q
    <2> QED
        BY <1>1, <1>3, <2>1, Known DEF Sound, Holding, AfterRead
<1>5. invocation'[i] = q
    BY <1>1 DEF IInv, TypeOK, Become
<1> HIDE DEF q
<1> QED
    BY <1>1, <1>3, <1>4, <1>5, Known, FinishedType, Proceeds

\* FailFinish keeps IInv.
LEMMA FailFinishInv ==
    ASSUME IInv, NEW i \in Invocations, FailFinish(i)
    PROVE  IInv' /\ record' = record /\ invocation'[i].status = "FAILED"
<1> DEFINE q == [invocation[i] EXCEPT !.pc = "release", !.status = "FAILED", !.missing = {}]
<1>1. /\ invocation[i].pc = "loop" /\ invocation[i].pc \in Holding
      /\ UNCHANGED <<now, closed, record>> /\ used' \in 0..MaxInterference
      /\ Finished(i) \/ UNCHANGED running
      /\ Become(i, q)
    BY Known, Constants DEF FailFinish, Holding, Interfere
<1>2. /\ q \in Invocation /\ q.date = invocation[i].date /\ q.status = "FAILED"
      /\ q.pc = "release" /\ q.dates = invocation[i].dates /\ q.missing = {}
    BY Known DEF Invocation, Pcs
<1> HIDE DEF q
<1>3. Sound(q, i, now, record', running')
    BY <1>1, <1>2, Known DEF Sound, Holding, AfterRead
<1>4. invocation'[i] = q
    BY <1>1 DEF IInv, TypeOK, Become
<1> QED
    BY <1>1, <1>2, <1>3, <1>4, Known, FinishedType, Proceeds

\* Release keeps IInv.
LEMMA ReleaseInv ==
    ASSUME IInv, NEW i \in Invocations, Release(i)
    PROVE  IInv'
<1>1. UNCHANGED <<now, closed, record, running, used>>
    BY DEF Release
<1>2. CASE Incomplete(invocation[i])
    BY <1>1, <1>2, Known, Idles DEF Release
<1>3. CASE ~Incomplete(invocation[i])
    BY <1>1, <1>3, GoesToNextDate DEF Release
<1> QED
    BY <1>2, <1>3

\* Stop keeps IInv.
LEMMA StopInv ==
    ASSUME IInv, NEW i \in Invocations,
           Stop(i) \/ FailStatement(i) \/ Crash(i)
    PROVE  IInv'
<1>1. Become(i, Idle) /\ UNCHANGED <<now, closed, record, running>>
    BY DEF Stop, FailStatement, Crash
<1>2. used' \in 0..MaxInterference
    BY Known, Constants DEF Stop, FailStatement, Crash, Interfere
<1> QED
    BY <1>1, <1>2, Idles

\* A step that leaves the invocations and the RUNNING rows alone.
LEMMA OthersMove ==
    ASSUME IInv, UNCHANGED <<running, invocation>>,
           now' \in Instants, now <= now', closed' \subseteq Months,
           record \subseteq record', record' \subseteq Day1, used' \in 0..MaxInterference
    PROVE  IInv'
<1>1. now \in Int /\ now' \in Int
    BY Constants DEF IInv, TypeOK
<1>2. ASSUME NEW i \in Invocations
      PROVE  Sound(invocation'[i], i, now', record', running')
    BY <1>1, Known, SoundStays
<1>3. AllSound'
    BY <1>2 DEF AllSound
<1>4. Exclusive'
    BY DEF IInv, Exclusive
<1> QED
    BY <1>3, <1>4 DEF IInv, TypeOK

\* TogglePeriod keeps IInv.
LEMMA TogglePeriodInv ==
    ASSUME IInv, NEW m \in Months, TogglePeriod(m)
    PROVE  IInv'
<1>1. UNCHANGED <<now, record, running, invocation>> /\ used' \in 0..MaxInterference
    BY Constants DEF TogglePeriod, Interfere, IInv, TypeOK
<1>2. closed' \subseteq Months
    <2>1. closed \subseteq Months /\ (closed' = closed \ {m} \/ closed' = closed \cup {m})
        BY DEF TogglePeriod, IInv, TypeOK
    <2> QED
        BY <2>1
<1>3. now' \in Instants /\ now <= now' /\ record' \subseteq Day1
    BY <1>1, Constants DEF IInv, TypeOK
<1> QED
    BY <1>1, <1>2, <1>3, OthersMove

\* RecordOtherwise keeps IInv.
LEMMA RecordOtherwiseInv ==
    ASSUME IInv, NEW e \in Employees, NEW d \in Dates, RecordOtherwise(e, d)
    PROVE  IInv'
<1>1. UNCHANGED <<now, closed, running, invocation>> /\ used' \in 0..MaxInterference
    BY Constants DEF RecordOtherwise, Interfere, IInv, TypeOK
<1>2. record \subseteq record' /\ record' \subseteq Day1
    BY DEF RecordOtherwise, IInv, TypeOK, Day1
<1>3. now' \in Instants /\ now <= now' /\ closed' \subseteq Months
    BY <1>1, Constants DEF IInv, TypeOK
<1> QED
    BY <1>1, <1>2, <1>3, OthersMove

\* Tick keeps IInv.
LEMMA TickInv ==
    ASSUME IInv, Tick
    PROVE  IInv'
<1>1. UNCHANGED <<closed, record, running, invocation, used>>
    BY DEF Tick
<1>2. now' \in Instants /\ now <= now'
    BY Constants DEF Tick, IInv, TypeOK, Instants
<1>3. closed' \subseteq Months /\ record' \subseteq Day1 /\ used' \in 0..MaxInterference
    BY <1>1 DEF IInv, TypeOK
<1> QED
    BY <1>1, <1>2, <1>3, OthersMove
-----------------------------------------------------------------------------
(* The invariant                                                           *)

\* IInv holds initially.
LEMMA InitInv ==
    ASSUME Init
    PROVE  IInv
<1>1. now \in Instants /\ 0 \in 0..MaxInterference
    BY Constants, ProcessingAssumption DEF Init, Instants
<1>2. \A i \in Invocations : invocation[i] = Idle
    BY DEF Init
<1>3. TypeOK
    BY <1>1, IdleSound DEF Init, TypeOK
<1>4. AllSound
    BY <1>2, IdleSound DEF AllSound
<1>5. Exclusive
    BY <1>2, IdleSound DEF Exclusive
<1> QED
    BY <1>3, <1>4, <1>5 DEF IInv

\* Every step keeps IInv.
LEMMA StepInv ==
    ASSUME IInv, [Next]_vars
    PROVE  IInv'
<1>1. ASSUME NEW i \in Invocations, Step(i)
      PROVE  IInv'
    BY <1>1, SelectDatesInv, StopInv, CheckPeriodInv, TryLockInv, ReadMissingInv,
       AbandonStaleRunningInv, InsertRunningInv, MaterializeInv, FinishInv, ReleaseInv DEF Step
<1>2. CASE UNCHANGED vars
    BY <1>2 DEF vars, IInv, TypeOK, AllSound, Exclusive, Recorded
<1>3. CASE Next
    BY <1>1, <1>3, InvokeInv, StopInv, FailMaterializeInv, FailFinishInv, TogglePeriodInv,
       RecordOtherwiseInv, TickInv DEF Next
<1> QED
    BY <1>2, <1>3

\* Whatever overlaps, fails or crashes, and for any budget, lag and lookback: every
\* invocation works on due dates under a lock it has alone, and the clock, the
\* periods, the records and the RUNNING rows are well formed.
THEOREM InvocationsSound == Spec => []IInv
<1>1. Init => IInv
    BY InitInv
<1>2. IInv /\ [Next]_vars => IInv'
    BY StepInv
<1> QED
    BY <1>1, <1>2, PTL DEF Spec

\* Every variable of the scheduled processing keeps its type.
THEOREM TypeCorrect == Spec => []TypeOK
<1>1. IInv => TypeOK
    BY DEF IInv
<1> QED
    BY <1>1, InvocationsSound, PTL

\* computeDueWorkDates finds the newest due dates at every instant of every run.
THEOREM NothingMissed == Spec => []NothingDueIsMissed
<1>1. IInv => NothingDueIsMissed
    <2> SUFFICES ASSUME IInv PROVE NothingDueIsMissed
        OBVIOUS
    <2>1. now \in Int /\ now \in Instants
        BY Constants DEF IInv, TypeOK
    <2>2. UtcDate(now) - 4 \in FirstDate..LastDate
        BY <2>1, DatesAssumption DEF Dates
    <2>3. \A d \in Scanned(now) : Due(d, now) => d \in FirstDate..LastDate
        BY <2>1, DatesAssumption DEF Dates
    <2>4. ComputeDueWorkDates(now) = Newest({d \in FirstDate..LastDate : Due(d, now)}, Lookback)
        BY <2>1, <2>2, <2>3, ScanSuffices
    <2> QED
        BY <2>4 DEF NothingDueIsMissed, Dates
<1> QED
    BY <1>1, InvocationsSound, PTL
-----------------------------------------------------------------------------
(* What a step may do                                                      *)

\* Every action of the job is a step of one invocation.
LEMMA OneAtATime ==
    ASSUME IInv, Next, NEW i \in Invocations, ByTheJob(i)
    PROVE  \/ Invoke(i) \/ Step(i)
           \/ FailStatement(i) \/ FailMaterialize(i) \/ FailFinish(i) \/ Crash(i)
<1> DEFINE moves(j) == \/ Invoke(j) \/ Step(j)
                       \/ FailStatement(j) \/ FailMaterialize(j) \/ FailFinish(j) \/ Crash(j)
<1>1. ASSUME NEW j \in Invocations, NEW q, Become(j, q), j # i
      PROVE  FALSE
    BY <1>1 DEF Become, ByTheJob, IInv, TypeOK
<1>2. ASSUME NEW j \in Invocations, moves(j)
      PROVE  \E q : Become(j, q)
    <2>1. CASE Invoke(j)
        BY <2>1 DEF Invoke
    <2>2. CASE Step(j)
        <3>1. CASE Materialize(j)
            BY <3>1 DEF Materialize
        <3>2. CASE SelectDates(j) \/ Stop(j) \/ CheckPeriod(j) \/ TryLock(j) \/ ReadMissing(j)
            BY <3>2 DEF SelectDates, Stop, CheckPeriod, TryLock, ReadMissing
        <3>3. CASE AbandonStaleRunning(j) \/ InsertRunning(j) \/ Finish(j) \/ Release(j)
            BY <3>3 DEF AbandonStaleRunning, InsertRunning, Finish, Release
        <3> QED
            BY <2>2, <3>1, <3>2, <3>3 DEF Step
    <2>3. CASE FailMaterialize(j)
        BY <2>3 DEF FailMaterialize
    <2>4. CASE FailStatement(j) \/ FailFinish(j) \/ Crash(j)
        BY <2>4 DEF FailStatement, FailFinish, Crash
    <2> QED
        BY <1>2, <2>1, <2>2, <2>3, <2>4
<1>3. ASSUME NEW j \in Invocations, moves(j)
      PROVE  moves(i)
    <2>1. j = i
        BY <1>1, <1>2, <1>3
    <2> QED
        BY <1>3, <2>1
<1>4. ~(\E m \in Months : TogglePeriod(m)) /\ ~Tick
      /\ ~(\E e \in Employees, d \in Dates : RecordOtherwise(e, d))
    BY DEF TogglePeriod, RecordOtherwise, Tick, ByTheJob
<1> QED
    BY <1>3, <1>4 DEF Next

\* Of a step of the job only Materialize creates a record.
LEMMA OnlyMaterializeRecords ==
    ASSUME IInv, Next, NEW i \in Invocations, ByTheJob(i), record' # record
    PROVE  Materialize(i)
<1>1. ~(Invoke(i) \/ FailStatement(i) \/ FailMaterialize(i) \/ FailFinish(i) \/ Crash(i))
    BY DEF Invoke, FailStatement, FailMaterialize, FailFinish, Crash
<1>2. ~(SelectDates(i) \/ Stop(i) \/ CheckPeriod(i) \/ TryLock(i) \/ ReadMissing(i))
    BY DEF SelectDates, Stop, CheckPeriod, TryLock, ReadMissing
<1>3. ~(AbandonStaleRunning(i) \/ InsertRunning(i) \/ Finish(i) \/ Release(i))
    BY DEF AbandonStaleRunning, InsertRunning, Finish, Release
<1> QED
    BY <1>1, <1>2, <1>3, OneAtATime DEF Step

\* Whoever was due is over everywhere, its windows too.
LEMMA DueIsOver ==
    ASSUME NEW d \in Dates, NEW t \in Int, Due(d, t), NEW z \in Zones, NEW w \in Windows
    PROVE  LET nights == IF w.start < w.end THEN 0 ELSE 1 IN
           t >= d * Day + Lag + (IF nights = 0 THEN 0 ELSE Day) + w.end - Offset(z, d + nights)
<1>1. /\ d \in Int /\ Day \in Int /\ Lag \in Int /\ w.start \in Int /\ w.end \in Int
      /\ Offset(z, d) \in Int /\ Offset(z, d + 1) \in Int
    BY Constants, DueDatesAssumption DEF Dates
<1>2. WindowEnd(w, d, z) + Lag <= t
    BY DEF Due
<1>3. d * Day \in Int /\ (d + 1) * Day = d * Day + Day
    BY <1>1, SMT
<1>4. CASE w.start < w.end
    <2>1. ~SpansMidnight(w) /\ d + 0 = d
        BY <1>1, <1>4 DEF SpansMidnight
    <2>2. d * Day + w.end - Offset(z, d) + Lag <= t
        BY <1>2, <2>1 DEF WindowEnd, Utc
    <2> QED
        BY <1>1, <1>3, <1>4, <2>1, <2>2
<1>5. CASE ~(w.start < w.end)
    <2>1. SpansMidnight(w)
        BY <1>1, <1>5 DEF SpansMidnight
    <2>2. d * Day + Day + w.end - Offset(z, d + 1) + Lag <= t
        BY <1>2, <1>3, <2>1 DEF WindowEnd, Utc
    <2> QED
        BY <1>1, <1>3, <1>5, <2>2
<1> QED
    BY <1>4, <1>5

\* The job creates a record in an open period only, for an eligible employee, of a
\* date that is over in every zone, whatever happens between its checks and the write.
THEOREM WritesOnlyWhereItMay == Spec => JobWritesOnlyWhereItMay
<1>1. ASSUME IInv, [Next]_vars, NEW i \in Invocations, NEW x \in record' \ record, ByTheJob(i)
      PROVE  /\ MonthOf(x.date) \notin closed
             /\ x.employee \in EligibleOn(x.date)
             /\ \A z \in Zones, w \in Windows :
                   LET nights == IF w.start < w.end THEN 0 ELSE 1 IN
                   now >= x.date * Day + Lag + (IF nights = 0 THEN 0 ELSE Day) + w.end
                            - Offset(z, x.date + nights)
    <2>1. Next /\ record' # record
        BY <1>1 DEF vars
    <2>2. Materialize(i)
        BY <1>1, <2>1, OnlyMaterializeRecords
    <2>3. /\ x.date = invocation[i].date /\ x.employee \in invocation[i].missing
          /\ MonthOf(x.date) \notin closed
        BY <1>1, <2>2, MaterializeInv DEF PeriodLocked
    <2>4. /\ x.date \in Dates /\ Due(x.date, now) /\ x.employee \in EligibleOn(x.date)
          /\ now \in Int
        BY <1>1, <2>2, <2>3, Known, Constants DEF Materialize, Sound, Holding, AfterRead
    <2> QED
        BY <2>3, <2>4, DueIsOver
<1>2. IInv /\ [Next]_vars =>
         [\A i \in Invocations, x \in record' \ record :
            ByTheJob(i) =>
               /\ MonthOf(x.date) \notin closed
               /\ x.employee \in EligibleOn(x.date)
               /\ \A z \in Zones, w \in Windows :
                     LET nights == IF w.start < w.end THEN 0 ELSE 1 IN
                     now >= x.date * Day + Lag + (IF nights = 0 THEN 0 ELSE Day) + w.end
                              - Offset(z, x.date + nights)]_vars
    BY <1>1
<1> QED
    BY <1>2, InvocationsSound, PTL DEF Spec, JobWritesOnlyWhereItMay

\* The row of a run still in its loop stays that run's, and no insert of a row is
\* refused.
THEOREM RunsKeepApart == Spec => RunsDoNotDisturbEachOther
<1>1. ASSUME IInv, [Next]_vars, NEW i \in Invocations
      PROVE  /\ invocation[i].pc = "loop" /\ invocation'[i] = invocation[i] =>
                   running'[invocation[i].date] = i
             /\ InsertRunning(i) => invocation'[i].pc = "loop"
    <2>1. IInv'
        BY <1>1, StepInv
    <2>2. invocation'[i].pc = "loop" => running'[invocation'[i].date] = i
        BY <2>1 DEF IInv, AllSound, Sound
    <2>3. InsertRunning(i) => invocation'[i].pc = "loop"
        BY <1>1, InsertRunningInv
    <2> QED
        BY <2>2, <2>3
<1>2. IInv /\ [Next]_vars =>
         [\A i \in Invocations :
            /\ invocation[i].pc = "loop" /\ invocation'[i] = invocation[i] =>
                  running'[invocation[i].date] = i
            /\ InsertRunning(i) => invocation'[i].pc = "loop"]_vars
    BY <1>1
<1> QED
    BY <1>2, InvocationsSound, PTL DEF Spec, RunsDoNotDisturbEachOther

\* Of a step of the job only Finish marks a run COMPLETED.
LEMMA OnlyFinishCompletes ==
    ASSUME IInv, [Next]_vars, NEW i \in Invocations,
           invocation[i].status = "RUNNING", invocation'[i].status = "COMPLETED"
    PROVE  Finish(i)
<1>1. Next /\ ByTheJob(i)
    BY DEF vars, ByTheJob
<1>2. invocation'[i].pc = "release"
    <2>1. IInv'
        BY StepInv
    <2> QED
        BY <2>1 DEF IInv, AllSound, Sound
<1>3. \A q : Become(i, q) => invocation'[i] = q
    BY DEF IInv, TypeOK, Become
<1>4. ~(Invoke(i) \/ FailStatement(i) \/ Crash(i) \/ Stop(i))
    <2>1. Idle.pc # "release" /\ [Idle EXCEPT !.pc = "inputs", !.budget = Budget].pc # "release"
        BY DEF Idle
    <2> QED
        BY <1>2, <1>3, <2>1 DEF Invoke, FailStatement, Crash, Stop
<1>5. ~(FailMaterialize(i) \/ Materialize(i) \/ FailFinish(i) \/ InsertRunning(i))
    BY <1>2, FailMaterializeInv, MaterializeInv, FailFinishInv, InsertRunningInv
<1>6. ~SelectDates(i)
    BY <1>2, <1>3, Known DEF SelectDates, Invocation
<1>7. \A q : NextDate(q).pc = "date"
    BY DEF NextDate, Idle
<1>8. ~(CheckPeriod(i) \/ TryLock(i))
    BY <1>2, <1>3, <1>7, Known DEF CheckPeriod, TryLock, Invocation
<1>9. ~(ReadMissing(i) \/ AbandonStaleRunning(i))
    BY <1>2, <1>3, <1>7, Known DEF ReadMissing, AbandonStaleRunning, Invocation
<1>10. ~Release(i)
    <2>1. Idle.pc # "release" /\ NextDate(invocation[i]).pc # "release"
        BY <1>7 DEF Idle
    <2> QED
        BY <1>2, <1>3, <2>1 DEF Release
<1> QED
    BY <1>1, <1>4, <1>5, <1>6, <1>8, <1>9, <1>10, OneAtATime DEF Step

\* A run marked COMPLETED reached everybody it had to.
THEOREM CompletedReached == Spec => CompletedMeansReached
<1>1. ASSUME IInv, [Next]_vars, NEW i \in Invocations,
             invocation[i].status = "RUNNING", invocation'[i].status = "COMPLETED"
      PROVE  EligibleOn(invocation[i].date) \subseteq
                Recorded(invocation[i].date) \cup invocation[i].failed \cup invocation[i].skipped
    <2>1. Finish(i)
        BY <1>1, OnlyFinishCompletes
    <2>2. invocation[i].missing = {} /\ invocation[i].pc = "loop"
        BY <1>1, <2>1, FinishInv DEF Finish
    <2>3. EligibleOn(invocation[i].date) \subseteq In(record, invocation[i].date)
             \cup invocation[i].missing \cup invocation[i].failed \cup invocation[i].skipped
        BY <1>1, <2>2, Known DEF Sound
    <2> QED
        BY <2>2, <2>3 DEF In, Recorded
<1>2. IInv /\ [Next]_vars =>
         [\A i \in Invocations :
            LET q == invocation[i] IN
            q.status = "RUNNING" /\ invocation'[i].status = "COMPLETED" =>
               EligibleOn(q.date) \subseteq Recorded(q.date) \cup q.failed \cup q.skipped]_vars
    BY <1>1
<1> QED
    BY <1>2, InvocationsSound, PTL DEF Spec, CompletedMeansReached
=============================================================================
