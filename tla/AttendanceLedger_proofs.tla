----------------------- MODULE AttendanceLedger_proofs -----------------------
(***************************************************************************)
(* What AttendanceLedger promises for every number of employees, calls,    *)
(* sessions, corrections and keys and for every calendar.                  *)
(***************************************************************************)
EXTENDS AttendanceLedger, TLAPS

-----------------------------------------------------------------------------
(* Type correctness.  TypeOK is not inductive: the date of a row or of a    *)
(* call may be 0 (null) as far as its type goes, and MonthOf[0] is nothing. *)

\* A row that exists belongs to an employee and a work date.
Rows ==
    /\ \A s \in SessionIds :
          session[s].status # "NONE" =>
             session[s].date \in Dates /\ session[s].emp \in Employees
    /\ \A c \in CorrectionIds :
          correction[c].status # "NONE" =>
             correction[c].date \in Dates /\ correction[c].emp \in Employees

\* What a call has established by the stage it has reached.
CallTyped(q, L) ==
    /\ q.pc = "resolve" => q.at \in Times
    /\ q.op \in PeriodOps => q.pc \in {"period", "body", "commit"}
    /\ q.pc \notin {"idle", "correction"} /\ q.op \notin PeriodOps => q.emp \in Employees
    /\ q.pc \in {"period", "day", "row", "rowWait", "body", "commit"} => q.date \in Dates
    /\ q.pc = "peek" /\ q.op = "CHECK_IN" => q.date \in Dates
    /\ q.pc = "correction" => q.op \in Reviews
    /\ q.op \in Reviews =>
          q.corr \in CorrectionIds /\ correction[q.corr].status # "NONE"
    /\ q.pc \in {"idle", "resolve", "peek", "correction", "period"} =>
          \A e \in Employees, d \in Dates : DayLock(e, d) \notin L
    /\ q.pc = "day" => \E d \in DaysOf(q) : DayLock(q.emp, d) \notin L
    /\ q.pc = "rowWait" => q.seen \in SessionIds
    /\ q.seen \in SessionIds => session[q.seen].status # "NONE"

Calls == \A r \in Requests : CallTyped(req[r], locks[r])

TypeInv == TypeOK /\ Rows /\ Calls

\* The initial state is typed.
LEMMA InitTyped == Init => TypeInv
  <1> SUFFICES ASSUME Init PROVE TypeInv
    OBVIOUS
  <1> USE DEF Init
  <1>1. now \in Times
    BY BoundsAssumption DEF Times
  <1>2. session \in [SessionIds -> Session]
    <2>1. NoSession \in Session
      BY BoundsAssumption DEF NoSession, Session
    <2> QED
      BY <2>1
  <1>3. correction \in [CorrectionIds -> Correction]
    <2>1. NoCorrection \in Correction
      BY BoundsAssumption DEF NoCorrection, Correction
    <2> QED
      BY <2>1
  <1>4. Idle \in Call
    BY BoundsAssumption DEF Idle, Call
  <1>5. TypeOK
    BY <1>1, <1>2, <1>3, <1>4 DEF TypeOK
  <1>6. Rows
    BY DEF Rows, NoSession, NoCorrection
  <1>7. Calls
    BY NoneAssumption DEF Calls, CallTyped, Idle, PeriodOps, Reviews
  <1> QED
    BY <1>5, <1>6, <1>7 DEF TypeInv

\* A step that stores nothing and moves one call to a typed stage.
LEMMA MoveTyped ==
    ASSUME TypeInv, NEW r \in Requests, NEW q \in Call, NEW L \in SUBSET Lock,
           req' = [req EXCEPT ![r] = q], locks' = [locks EXCEPT ![r] = L],
           now' \in Times, UNCHANGED stored, CallTyped(q, L)
    PROVE  TypeInv'
  <1>1. TypeOK'
    BY DEF TypeInv, TypeOK, stored
  <1>2. Rows'
    BY DEF TypeInv, Rows, stored
  <1>3. Calls'
    <2> SUFFICES ASSUME NEW p \in Requests PROVE CallTyped(req[p], locks[p])'
      BY DEF Calls
    <2>1. CASE p = r
      <3>1. req'[p] = q /\ locks'[p] = L
        BY <2>1 DEF TypeInv, TypeOK
      <3> QED
        BY <3>1 DEF CallTyped, stored, DaysOf, DayLock
    <2>2. CASE p # r
      <3>1. req'[p] = req[p] /\ locks'[p] = locks[p]
        BY <2>2 DEF TypeInv, TypeOK
      <3>2. CallTyped(req[p], locks[p])
        BY DEF TypeInv, Calls
      <3> QED
        BY <3>1, <3>2 DEF CallTyped, stored, DaysOf, DayLock
    <2> QED
      BY <2>1, <2>2
  <1> QED
    BY <1>1, <1>2, <1>3 DEF TypeInv

\* The null call is typed.
LEMMA IdleTyped == Idle \in Call /\ CallTyped(Idle, {})
  <1>1. Idle \in Call
    BY BoundsAssumption DEF Idle, Call
  <1>2. CallTyped(Idle, {})
    BY NoneAssumption DEF CallTyped, Idle, PeriodOps, Reviews
  <1> QED
    BY <1>1, <1>2

\* A refused, failed or abandoned call changes nothing else.
LEMMA RefusalTyped ==
    ASSUME TypeInv, NEW r \in Requests, Finish(r), UNCHANGED <<now, stored>>
    PROVE  TypeInv'
  <1>1. now' \in Times
    BY DEF TypeInv, TypeOK
  <1>2. {} \in SUBSET Lock
    OBVIOUS
  <1> QED
    BY <1>1, <1>2, IdleTyped, MoveTyped DEF Finish, Goto

\* The same step when the call keeps its locks.
LEMMA GotoTyped ==
    ASSUME TypeInv, NEW r \in Requests, NEW q \in Call, Goto(r, q),
           UNCHANGED <<now, stored, locks>>, CallTyped(q, locks[r])
    PROVE  TypeInv'
  <1>1. locks[r] \in SUBSET Lock /\ locks' = [locks EXCEPT ![r] = locks[r]]
    BY DEF TypeInv, TypeOK
  <1>2. now' \in Times
    BY DEF TypeInv, TypeOK
  <1> QED
    BY <1>1, <1>2, MoveTyped DEF Goto

\* The same step when the call takes one more lock.
LEMMA TakeTyped ==
    ASSUME TypeInv, NEW r \in Requests, NEW q \in Call, NEW l \in Lock,
           Goto(r, q), Take(r, l), UNCHANGED <<now, stored>>,
           CallTyped(q, locks[r] \cup {l})
    PROVE  TypeInv'
  <1>1. locks[r] \cup {l} \in SUBSET Lock
    BY DEF TypeInv, TypeOK
  <1>2. now' \in Times /\ locks' = [locks EXCEPT ![r] = locks[r] \cup {l}]
    BY DEF TypeInv, TypeOK, Take
  <1> QED
    BY <1>1, <1>2, MoveTyped DEF Goto

\* Every call arrives typed.
LEMMA ArriveTyped ==
    ASSUME TypeInv, NEW r \in Requests, Arrive(r)
    PROVE  TypeInv'
  <1> USE DEF Start
  <1>0. now \in Times /\ Times \subseteq 0..LastTime /\ Dates \subseteq 0..LastDate
    BY BoundsAssumption DEF TypeInv, TypeOK, Times, Dates
  <1>b. ASSUME NEW q, Start(r, q)
        PROVE  \A e \in Employees, d \in Dates : DayLock(e, d) \notin locks[r]
    BY <1>b DEF TypeInv, Calls, CallTyped, Idle
  <1>1. ASSUME NEW e \in Employees, NEW k \in Keys \cup {None}, ArriveCheckIn(r, e, k)
        PROVE  TypeInv'
    <2> DEFINE q == [Idle EXCEPT !.pc = "resolve", !.op = "CHECK_IN", !.emp = e,
                                 !.key = k, !.at = now]
    <2>0. Start(r, q)
      BY <1>1 DEF ArriveCheckIn
    <2>1. q \in Call
      BY <1>0, IdleTyped DEF Idle, Call, AllOps, Punches
    <2>2. CallTyped(q, locks[r])
      BY <1>0, <1>b, <2>0, NoneAssumption DEF CallTyped, Idle, PeriodOps, Reviews
    <2> QED
      BY <1>1, <2>1, <2>2, GotoTyped DEF ArriveCheckIn
  <1>2. ASSUME NEW op \in Punches \ {"CHECK_IN"}, NEW e \in Employees,
               NEW k \in Keys \cup {None}, ArrivePunch(r, op, e, k)
        PROVE  TypeInv'
    <2> DEFINE q == [Idle EXCEPT !.pc = "peek", !.op = op, !.emp = e,
                                 !.key = k, !.at = now]
    <2>0. Start(r, q)
      BY <1>2 DEF ArrivePunch
    <2>1. q \in Call
      BY <1>0, IdleTyped DEF Idle, Call, AllOps
    <2>2. CallTyped(q, locks[r])
      BY <1>0, <1>b, <2>0, NoneAssumption DEF CallTyped, Idle, PeriodOps, Reviews, Punches
    <2> QED
      BY <1>2, <2>1, <2>2, GotoTyped DEF ArrivePunch
  <1>3. ASSUME NEW op \in DayOps, NEW e \in Employees, NEW d \in Dates,
               ArriveDay(r, op, e, d)
        PROVE  TypeInv'
    <2> DEFINE q == [Idle EXCEPT !.pc = "period", !.op = op, !.emp = e, !.date = d]
    <2>0. Start(r, q)
      BY <1>3 DEF ArriveDay
    <2>1. q \in Call
      BY <1>0, IdleTyped DEF Idle, Call, AllOps
    <2>2. CallTyped(q, locks[r])
      BY <1>0, <1>b, <2>0, NoneAssumption DEF CallTyped, Idle, PeriodOps, Reviews, DayOps
    <2> QED
      BY <1>3, <2>1, <2>2, GotoTyped DEF ArriveDay
  <1>4. ASSUME NEW op \in PeriodOps, NEW d \in Dates, ArrivePeriod(r, op, d)
        PROVE  TypeInv'
    <2> DEFINE q == [Idle EXCEPT !.pc = "period", !.op = op, !.date = d]
    <2>0. Start(r, q)
      BY <1>4 DEF ArrivePeriod
    <2>1. q \in Call
      BY <1>0, IdleTyped DEF Idle, Call, AllOps
    <2>2. CallTyped(q, locks[r])
      BY <1>0, <1>b, <2>0, NoneAssumption DEF CallTyped, Idle, PeriodOps, Reviews
    <2> QED
      BY <1>4, <2>1, <2>2, GotoTyped DEF ArrivePeriod
  <1>5. ASSUME NEW e \in Employees, NEW d \in Dates, NEW f \in Fields,
               NEW v \in 0..LastTime, ArriveRequest(r, e, d, f, v)
        PROVE  TypeInv'
    <2> DEFINE q == [Idle EXCEPT !.pc = "period", !.op = "REQUEST", !.emp = e,
                                 !.date = d, !.field = f, !.value = v]
    <2>0. Start(r, q)
      BY <1>5 DEF ArriveRequest
    <2>1. q \in Call
      BY <1>0, IdleTyped, OpsAssumption DEF Idle, Call, AllOps
    <2>2. CallTyped(q, locks[r])
      BY <1>0, <1>b, <2>0, NoneAssumption DEF CallTyped, Idle, PeriodOps, Reviews
    <2> QED
      BY <1>5, <2>1, <2>2, GotoTyped DEF ArriveRequest
  <1>6. ASSUME NEW op \in Reviews, NEW c \in CorrectionIds, ArriveReview(r, op, c)
        PROVE  TypeInv'
    <2> DEFINE q == [Idle EXCEPT !.pc = "correction", !.op = op, !.corr = c]
    <2>0. Start(r, q)
      BY <1>6 DEF ArriveReview
    <2>1. q \in Call
      BY <1>0, IdleTyped DEF Idle, Call, AllOps
    <2>2. CallTyped(q, locks[r])
      BY <1>6, <1>0, <1>b, <2>0, NoneAssumption DEF CallTyped, Idle, PeriodOps, Reviews, ArriveReview
    <2> QED
      BY <1>6, <2>1, <2>2, GotoTyped DEF ArriveReview
  <1> QED
    BY <1>1, <1>2, <1>3, <1>4, <1>5, <1>6 DEF Arrive

\* The unlocked reads find rows that exist.
LEMMA PeekTyped ==
    ASSUME TypeInv, NEW r \in Requests,
           Resolve(r) \/ PeekCheckIn(r) \/ PeekOpen(r) \/ PeekNothing(r)
    PROVE  TypeInv'
  <1> DEFINE q == req[r]
  <1>0. q \in Call /\ CallTyped(q, locks[r])
    BY DEF TypeInv, TypeOK, Calls
  <1>1. ASSUME NEW e \in Employees, NEW s \in SessionsOf(e)
        PROVE  s \in SessionIds /\ session[s].status # "NONE" /\ session[s].date \in Dates
    BY DEF TypeInv, Rows, SessionsOf
  <1>2. Dates \subseteq 0..LastDate
    BY BoundsAssumption DEF Dates
  <1>3. CASE Resolve(r)
    <2>1. PICK prior \in FindMostRecentForEmployee(q.emp) :
             Goto(r, [q EXCEPT !.pc = "peek", !.date = WorkDate(q.at, prior)])
      BY <1>3 DEF Resolve
    <2>2. q.pc = "resolve" /\ q.at \in Times
      BY <1>0, <1>3 DEF Resolve, CallTyped
    <2>3. q.op \notin PeriodOps /\ q.emp \in Employees
      BY <1>0, <2>2 DEF CallTyped
    <2>4. prior # None => prior \in SessionsOf(q.emp)
      BY DEF FindMostRecentForEmployee
    <2>5. WorkDate(q.at, prior) \in Dates
      BY <1>1, <2>2, <2>3, <2>4, CalendarAssumption DEF WorkDate
    <2>6. [q EXCEPT !.pc = "peek", !.date = WorkDate(q.at, prior)] \in Call
      BY <1>0, <1>2, <2>5 DEF Call
    <2>7. CallTyped([q EXCEPT !.pc = "peek", !.date = WorkDate(q.at, prior)], locks[r])
      BY <1>0, <2>2, <2>3, <2>5 DEF CallTyped, Call
    <2> QED
      BY <1>3, <2>1, <2>6, <2>7, GotoTyped DEF Resolve
  <1>4. CASE PeekCheckIn(r)
    <2>1. PICK s \in FindOpenForEmployee(q.emp) :
             Goto(r, [q EXCEPT !.pc = "period",
                        !.prev = IF s # None /\ session[s].date # q.date
                                 THEN session[s].date ELSE 0])
      BY <1>4 DEF PeekCheckIn
    <2>2. q.pc = "peek" /\ q.op = "CHECK_IN" /\ q.date \in Dates
      BY <1>0, <1>4 DEF PeekCheckIn, CallTyped
    <2>3. q.op \notin PeriodOps /\ q.emp \in Employees
      BY <1>0, <2>2 DEF CallTyped, PeriodOps
    <2>4. s # None => s \in SessionsOf(q.emp)
      BY DEF FindOpenForEmployee, OpenSessions
    <2> DEFINE p == IF s # None /\ session[s].date # q.date THEN session[s].date ELSE 0
    <2>5. p \in 0..LastDate
      <3>1. 0 \in 0..LastDate
        BY BoundsAssumption
      <3>2. s # None => session[s].date \in 0..LastDate
        BY <1>1, <1>2, <2>3, <2>4
      <3> QED
        BY <3>1, <3>2
    <2> HIDE DEF p
    <2>6. [q EXCEPT !.pc = "period", !.prev = p] \in Call
      BY <1>0, <2>5 DEF Call
    <2>7. CallTyped([q EXCEPT !.pc = "period", !.prev = p], locks[r])
      BY <1>0, <2>2, <2>3 DEF CallTyped, Call
    <2>8. Goto(r, [q EXCEPT !.pc = "period", !.prev = p])
      BY <2>1 DEF p
    <2> QED
      BY <1>4, <2>6, <2>7, <2>8, GotoTyped DEF PeekCheckIn
  <1>5. CASE PeekOpen(r)
    <2>1. PICK s \in OpenSessions(q.emp) :
             Goto(r, [q EXCEPT !.pc = "period", !.peek = s, !.date = session[s].date])
      BY <1>5 DEF PeekOpen
    <2>2. q.pc = "peek" /\ q.op # "CHECK_IN" /\ q.op \notin PeriodOps /\ q.emp \in Employees
      BY <1>0, <1>5 DEF PeekOpen, CallTyped
    <2>3. s \in SessionIds /\ session[s].date \in Dates
      BY <1>1, <2>2 DEF OpenSessions
    <2>4. [q EXCEPT !.pc = "period", !.peek = s, !.date = session[s].date] \in Call
      BY <1>0, <1>2, <2>3 DEF Call
    <2>5. CallTyped([q EXCEPT !.pc = "period", !.peek = s, !.date = session[s].date], locks[r])
      BY <1>0, <2>2, <2>3 DEF CallTyped, Call
    <2> QED
      BY <1>5, <2>1, <2>4, <2>5, GotoTyped DEF PeekOpen
  <1>6. CASE PeekNothing(r)
    BY <1>6, RefusalTyped DEF PeekNothing
  <1> QED
    BY <1>3, <1>4, <1>5, <1>6

\* What taking a lock can add to what a transaction holds.
LEMMA LockTypes ==
    /\ \A d \in Dates : PeriodShare(MonthOf[d]) \in Lock /\ PeriodExclusive(MonthOf[d]) \in Lock
    /\ \A e \in Employees, d \in Dates : DayLock(e, d) \in Lock
    /\ \A s \in SessionIds : SessionRow(s) \in Lock
    /\ \A c \in CorrectionIds : CorrectionRow(c) \in Lock
  BY DEF Lock, Months

\* The locks of different kinds, and those of different days, are different.
LEMMA DayLockDistinct ==
    ASSUME NEW e, NEW d
    PROVE  /\ \A m : DayLock(e, d) # PeriodShare(m) /\ DayLock(e, d) # PeriodExclusive(m)
           /\ \A s : DayLock(e, d) # SessionRow(s)
           /\ \A c : DayLock(e, d) # CorrectionRow(c)
           /\ \A f, x : DayLock(e, d) = DayLock(f, x) => e = f /\ d = x
  BY DEF DayLock, PeriodShare, PeriodExclusive, SessionRow, CorrectionRow

\* One of at most two numbers is the smallest.
LEMMA SmallestOfTwo ==
    ASSUME NEW D \in SUBSET Nat, NEW a, NEW b, D \subseteq {a, b}, D # {}
    PROVE  \E d \in D : \A x \in D : d <= x
  <1>1. CASE a \in D /\ b \in D
    <2>1. a <= a /\ b <= b /\ (a <= b \/ b <= a)
      BY <1>1
    <2>2. CASE a <= b
      BY <1>1, <2>1, <2>2
    <2>3. CASE b <= a
      BY <1>1, <2>1, <2>3
    <2> QED
      BY <2>1, <2>2, <2>3
  <1>2. CASE a \notin D
    <2>1. D = {b} /\ b \in Nat
      BY <1>2
    <2> QED
      BY <2>1
  <1>3. CASE b \notin D
    <2>1. D = {a} /\ a \in Nat
      BY <1>3
    <2> QED
      BY <2>1
  <1> QED
    BY <1>1, <1>2, <1>3

\* A call that still has days to lock takes one of them.
LEMMA NextDay ==
    ASSUME TypeInv, NEW r \in Requests, req[r].pc = "day"
    PROVE  NextDayToLock(r) \in DaysToLock(r) /\ DaysToLock(r) \subseteq Dates
  <1>1. req[r] \in Call /\ CallTyped(req[r], locks[r])
    BY DEF TypeInv, TypeOK, Calls
  <1>2. DaysToLock(r) # {}
    BY <1>1 DEF CallTyped, DaysToLock
  <1>3. DaysOf(req[r]) \subseteq {req[r].date, req[r].prev}
    BY DEF DaysOf
  <1>4. DaysOf(req[r]) \subseteq Dates
    BY <1>1, BoundsAssumption DEF DaysOf, CallTyped, Call, Dates
  <1>5. Dates \subseteq Nat
    BY BoundsAssumption DEF Dates
  <1>6. \E d \in DaysToLock(r) : \A x \in DaysToLock(r) : d <= x
    <2>1. DaysToLock(r) \subseteq {req[r].date, req[r].prev} /\ DaysToLock(r) \subseteq Nat
      BY <1>3, <1>4, <1>5 DEF DaysToLock
    <2> QED
      BY <1>2, <2>1, SmallestOfTwo
  <1> QED
    BY <1>4, <1>6 DEF NextDayToLock, DaysToLock

\* Taking the correction's, the month's and the days' locks.
LEMMA AcquireTyped ==
    ASSUME TypeInv, NEW r \in Requests,
           \/ LockCorrection(r) \/ LockPeriodShare(r) \/ LockPeriodExclusive(r)
           \/ LockDay(r)
    PROVE  TypeInv'
  <1> DEFINE q == req[r]
  <1>0. q \in Call /\ CallTyped(q, locks[r])
    BY DEF TypeInv, TypeOK, Calls
  <1>1. CASE LockCorrection(r)
    <2> DEFINE c == correction[q.corr]
    <2>1. q.pc = "correction" /\ q.corr \in CorrectionIds /\ c.status # "NONE"
      BY <1>0, <1>1 DEF LockCorrection, CallTyped
    <2>2. c \in Correction /\ c.emp \in Employees /\ c.date \in Dates
      BY <2>1 DEF TypeInv, TypeOK, Rows
    <2>3. q.op \notin PeriodOps
      BY <1>0, <2>1 DEF CallTyped
    <2> DEFINE t == [q EXCEPT !.pc = "period", !.emp = c.emp, !.date = c.date,
                              !.field = c.field, !.value = c.value]
    <2>4. t \in Call
      <3> DEFINE a == [q EXCEPT !.pc = "period"]
                 b == [a EXCEPT !.emp = c.emp]
                 d == [b EXCEPT !.date = c.date]
                 e == [d EXCEPT !.field = c.field]
                 f == [e EXCEPT !.value = c.value]
      <3>1. t = f
        BY <1>0 DEF Call
      <3>2. a \in Call
        BY <1>0 DEF Call
      <3> HIDE DEF a
      <3>3. b \in Call
        BY <2>2, <3>2 DEF Call
      <3> HIDE DEF b
      <3>4. d \in Call
        BY <2>2, <3>3 DEF Call, Correction
      <3> HIDE DEF d
      <3>5. e \in Call
        BY <2>2, <3>4 DEF Call, Correction
      <3> HIDE DEF e
      <3>6. f \in Call
        BY <2>2, <3>5 DEF Call, Correction
      <3> QED
        BY <3>1, <3>6
    <2>5. CallTyped(t, locks[r] \cup {CorrectionRow(q.corr)})
      BY <1>0, <2>1, <2>2, <2>3, DayLockDistinct DEF CallTyped, Call
    <2>6. CASE c.status # "PENDING"
      BY <1>1, <2>6, RefusalTyped DEF LockCorrection
    <2>7. CASE c.status = "PENDING"
      <3>1. Goto(r, t) /\ Take(r, CorrectionRow(q.corr)) /\ UNCHANGED <<now, stored>>
        BY <1>1, <2>7 DEF LockCorrection
      <3> QED
        BY <2>1, <2>4, <2>5, <3>1, LockTypes, TakeTyped
    <2> QED
      BY <2>6, <2>7
  <1>2. CASE LockPeriodShare(r)
    <2>1. q.pc = "period" /\ q.op \notin PeriodOps /\ q.date \in Dates /\ q.emp \in Employees
      BY <1>0, <1>2 DEF LockPeriodShare, CallTyped
    <2> DEFINE t == [q EXCEPT !.pc = AfterPeriod(q)]
               l == PeriodShare(MonthOf[q.date])
    <2>2. t \in Call /\ t.pc \in {"body", "day"}
      BY <1>0 DEF Call, AfterPeriod
    <2>3. q.date \in DaysOf(t)
      BY <1>0 DEF DaysOf, Call
    <2>4. DayLock(q.emp, q.date) \notin locks[r] \cup {l}
      BY <1>0, <2>1, DayLockDistinct DEF CallTyped
    <2>5. CallTyped(t, locks[r] \cup {l})
      BY <1>0, <2>1, <2>2, <2>3, <2>4 DEF CallTyped, Call
    <2>6. CASE period[MonthOf[q.date]] = "CLOSED"
      BY <1>2, <2>6, RefusalTyped DEF LockPeriodShare
    <2>7. CASE period[MonthOf[q.date]] # "CLOSED"
      <3>1. Goto(r, t) /\ Take(r, l) /\ UNCHANGED <<now, stored>>
        BY <1>2, <2>7 DEF LockPeriodShare
      <3> QED
        BY <2>1, <2>2, <2>5, <3>1, LockTypes, TakeTyped
    <2> QED
      BY <2>6, <2>7
  <1>3. CASE LockPeriodExclusive(r)
    <2>1. q.pc = "period" /\ q.op \in PeriodOps /\ q.date \in Dates
      BY <1>0, <1>3 DEF LockPeriodExclusive, CallTyped
    <2> DEFINE t == [q EXCEPT !.pc = "body"]
               l == PeriodExclusive(MonthOf[q.date])
    <2>2. t \in Call
      BY <1>0 DEF Call
    <2>3. CallTyped(t, locks[r] \cup {l})
      BY <1>0, <2>1 DEF CallTyped, Call
    <2>4. Goto(r, t) /\ Take(r, l) /\ UNCHANGED <<now, stored>>
      BY <1>3 DEF LockPeriodExclusive
    <2> QED
      BY <2>1, <2>2, <2>3, <2>4, LockTypes, TakeTyped
  <1>4. CASE LockDay(r)
    <2>1. q.pc = "day" /\ q.op \notin PeriodOps /\ q.date \in Dates /\ q.emp \in Employees
      BY <1>0, <1>4 DEF LockDay, CallTyped, PeriodOps
    <2>2. NextDayToLock(r) \in DaysToLock(r) /\ DaysToLock(r) \subseteq Dates
      BY <2>1, NextDay
    <2> DEFINE d == NextDayToLock(r)
               l == DayLock(q.emp, d)
               t == [q EXCEPT !.pc = IF DaysToLock(r) # {d} THEN "day"
                                     ELSE IF LocksRow(q) THEN "row" ELSE "body"]
    <2>3. t \in Call
      BY <1>0 DEF Call
    <2>4. DaysOf(t) = DaysOf(q) /\ t.emp = q.emp
      BY <1>0 DEF DaysOf, Call
    <2>5. t.pc = "day" => \E x \in DaysOf(t) : DayLock(t.emp, x) \notin locks[r] \cup {l}
      <3> SUFFICES ASSUME t.pc = "day"
                   PROVE  \E x \in DaysOf(t) : DayLock(t.emp, x) \notin locks[r] \cup {l}
        OBVIOUS
      <3>1. DaysToLock(r) # {d}
        BY <1>0 DEF Call
      <3>2. PICK x \in DaysToLock(r) : x # d
        BY <2>2, <3>1
      <3> QED
        BY <2>4, <3>2, DayLockDistinct DEF DaysToLock
    <2>6. CallTyped(t, locks[r] \cup {l})
      BY <1>0, <2>1, <2>3, <2>5 DEF CallTyped, Call
    <2>7. Goto(r, t) /\ Take(r, l) /\ UNCHANGED <<now, stored>>
      BY <1>4 DEF LockDay
    <2> QED
      BY <2>1, <2>2, <2>3, <2>6, <2>7, LockTypes, TakeTyped
  <1> QED
    BY <1>1, <1>2, <1>3, <1>4

\* Locking the open session, waiting for it, or finding none.
LEMMA RowTyped ==
    ASSUME TypeInv, NEW r \in Requests,
           ReplayUnderLock(r) \/ LockOpenSession(r) \/ RowReleased(r)
    PROVE  TypeInv'
  <1> DEFINE q == req[r]
  <1>0. q \in Call /\ CallTyped(q, locks[r])
    BY DEF TypeInv, TypeOK, Calls
  <1>1. CASE ReplayUnderLock(r)
    BY <1>1, RefusalTyped DEF ReplayUnderLock
  <1>2. CASE LockOpenSession(r)
    <2>1. q.pc = "row" /\ q.op \notin PeriodOps /\ q.date \in Dates /\ q.emp \in Employees
      BY <1>0, <1>2 DEF LockOpenSession, CallTyped, PeriodOps
    <2>2. PICK s \in FindOpenForEmployee(q.emp) :
             IF s # None /\ HeldByOther(r, SessionRow(s))
             THEN /\ Goto(r, [q EXCEPT !.pc = "rowWait", !.seen = s])
                  /\ UNCHANGED locks
             ELSE /\ Goto(r, [q EXCEPT !.pc = "body", !.seen = s])
                  /\ IF s = None THEN UNCHANGED locks ELSE Take(r, SessionRow(s))
      BY <1>2 DEF LockOpenSession
    <2>3. s # None => s \in SessionIds /\ session[s].status # "NONE"
      BY DEF FindOpenForEmployee, OpenSessions, SessionsOf
    <2>4. UNCHANGED <<now, stored>>
      BY <1>2 DEF LockOpenSession
    <2>5. CASE s # None /\ HeldByOther(r, SessionRow(s))
      <3> DEFINE t == [q EXCEPT !.pc = "rowWait", !.seen = s]
      <3>1. t \in Call
        BY <1>0, <2>3, <2>5 DEF Call
      <3>2. CallTyped(t, locks[r])
        BY <1>0, <2>1, <2>3, <2>5 DEF CallTyped, Call
      <3>3. Goto(r, t) /\ UNCHANGED locks
        BY <2>2, <2>5
      <3> QED
        BY <2>4, <3>1, <3>2, <3>3, GotoTyped
    <2>6. CASE ~(s # None /\ HeldByOther(r, SessionRow(s)))
      <3> DEFINE t == [q EXCEPT !.pc = "body", !.seen = s]
      <3>1. t \in Call
        BY <1>0, <2>3 DEF Call
      <3>2. CallTyped(t, locks[r]) /\ CallTyped(t, locks[r] \cup {SessionRow(s)})
        BY <1>0, <2>1, <2>3, NoneAssumption DEF CallTyped, Call
      <3>3. Goto(r, t)
        BY <2>2, <2>6
      <3>4. CASE s = None
        <4>1. UNCHANGED locks
          BY <2>2, <2>6, <3>4
        <4> QED
          BY <2>4, <3>1, <3>2, <3>3, <4>1, GotoTyped
      <3>5. CASE s # None
        <4>1. Take(r, SessionRow(s))
          BY <2>2, <2>6, <3>5
        <4> QED
          BY <2>3, <2>4, <3>1, <3>2, <3>3, <3>5, <4>1, LockTypes, TakeTyped
      <3> QED
        BY <3>4, <3>5
    <2> QED
      BY <2>5, <2>6
  <1>3. CASE RowReleased(r)
    <2>1. /\ q.pc = "rowWait" /\ q.seen \in SessionIds
          /\ q.op \notin PeriodOps /\ q.date \in Dates /\ q.emp \in Employees
      BY <1>0, <1>3 DEF RowReleased, CallTyped, PeriodOps
    <2>2. UNCHANGED <<now, stored>>
      BY <1>3 DEF RowReleased
    <2>3. CASE session[q.seen].status = "OPEN"
      <3> DEFINE t == [q EXCEPT !.pc = "body"]
      <3>1. t \in Call
        BY <1>0 DEF Call
      <3>2. CallTyped(t, locks[r] \cup {SessionRow(q.seen)})
        BY <1>0, <2>1 DEF CallTyped, Call
      <3>3. Goto(r, t) /\ Take(r, SessionRow(q.seen))
        BY <1>3, <2>3 DEF RowReleased
      <3> QED
        BY <2>1, <2>2, <3>1, <3>2, <3>3, LockTypes, TakeTyped
    <2>4. CASE session[q.seen].status # "OPEN"
      <3> DEFINE t == [q EXCEPT !.pc = "body", !.seen = None]
      <3>1. t \in Call
        BY <1>0 DEF Call
      <3>2. CallTyped(t, locks[r])
        BY <1>0, <2>1, NoneAssumption DEF CallTyped, Call
      <3>3. Goto(r, t) /\ UNCHANGED locks
        BY <1>3, <2>4 DEF RowReleased
      <3> QED
        BY <2>2, <3>1, <3>2, <3>3, GotoTyped
    <2> QED
      BY <2>3, <2>4
  <1> QED
    BY <1>1, <1>2, <1>3

-----------------------------------------------------------------------------
(* What a transaction writes.                                              *)

\* A locked session that is written stays a session of the same employee and
\* work date, and no write reopens it.
LEMMA WrittenTyped ==
    ASSUME NEW q \in Call, NEW x \in Session
    PROVE  /\ Written(q, x) \in Session
           /\ Written(q, x).emp = x.emp /\ Written(q, x).date = x.date
           /\ Written(q, x).status = "OPEN" => x.status = "OPEN"
           /\ x.status # "NONE" => Written(q, x).status # "NONE"
  <1> USE DEF Session, Call
  <1>1. CASE q.op = "CHECK_IN"
    BY <1>1 DEF Written
  <1>2. CASE q.op = "CHECK_OUT"
    BY <1>2 DEF Written
  <1>3. CASE q.op \in {"BREAK_START", "BREAK_END"}
    <2> DEFINE start == q.op = "BREAK_START"
               last == IF q.at < x.lastBreak THEN x.lastBreak ELSE q.at
               on == IF q.at < x.lastBreak THEN x.onBreak ELSE start
    <2>1. start \in BOOLEAN
      OBVIOUS
    <2>2. x.breaks + 1 \in Nat /\ last \in 0..LastTime /\ x.onBreak \in BOOLEAN
      OBVIOUS
    <2>3. on \in BOOLEAN
      <3> HIDE DEF start
      <3>1. CASE q.at < x.lastBreak
        BY <2>2, <3>1
      <3>2. CASE ~(q.at < x.lastBreak)
        BY <2>1, <3>2
      <3> QED
        BY <3>1, <3>2
    <2>4. Written(q, x) = [x EXCEPT !.breaks = x.breaks + 1, !.lastBreak = last, !.onBreak = on]
      BY <1>3, Zenon DEF Written, BreakEvent
    <2> HIDE DEF start, last, on
    <2> QED
      BY <2>2, <2>3, <2>4
  <1>4. CASE q.op = "APPROVE" /\ x.date = q.date
    BY <1>4 DEF Written
  <1>5. CASE /\ q.op \notin {"CHECK_IN", "CHECK_OUT", "BREAK_START", "BREAK_END"}
             /\ ~(q.op = "APPROVE" /\ x.date = q.date)
    BY <1>5 DEF Written
  <1> QED
    BY <1>1, <1>2, <1>3, <1>4, <1>5

\* The sessions after a call's writes are typed rows and none disappears.
LEMMA SessionAfterTyped ==
    ASSUME TypeInv, NEW q \in Call, q.date \in Dates, q.emp \in Employees,
           q.seen \in SessionIds => session[q.seen].status # "NONE"
    PROVE  /\ SessionAfter(q) \in [SessionIds -> Session]
           /\ \A s \in SessionIds :
                 LET y == SessionAfter(q)[s] IN
                 /\ y.status # "NONE" => y.date \in Dates /\ y.emp \in Employees
                 /\ session[s].status # "NONE" => y.status # "NONE"
  <1>1. Inserted(q) \in Session
    <2>1. NoSession \in Session
      BY BoundsAssumption DEF NoSession, Session
    <2> QED
      BY <2>1 DEF Inserted, Session, Call
  <1>2. Inserted(q).status = "OPEN" /\ Inserted(q).date = q.date /\ Inserted(q).emp = q.emp
    BY DEF Inserted, NoSession
  <1>3. \A s \in SessionIds : session[s] \in Session
    BY DEF TypeInv, TypeOK
  <1>4. ASSUME NEW s \in SessionIds
        PROVE  /\ SessionAfter(q)[s] \in Session
               /\ SessionAfter(q)[s].status # "NONE" =>
                     /\ SessionAfter(q)[s].date \in Dates
                     /\ SessionAfter(q)[s].emp \in Employees
               /\ session[s].status # "NONE" => SessionAfter(q)[s].status # "NONE"
    <2>1. CASE s = q.new
      BY <1>1, <1>2, <2>1 DEF SessionAfter
    <2>2. CASE s # q.new /\ s = q.seen
      <3>1. SessionAfter(q)[s] = Written(q, session[s])
        BY <2>2 DEF SessionAfter
      <3>2. session[s].date \in Dates /\ session[s].emp \in Employees
        BY <2>2 DEF TypeInv, Rows
      <3> QED
        BY <1>3, <3>1, <3>2, WrittenTyped
    <2>3. CASE s # q.new /\ s # q.seen
      BY <1>3, <2>3 DEF SessionAfter, TypeInv, Rows
    <2> QED
      BY <2>1, <2>2, <2>3
  <1>5. SessionAfter(q) = [s \in SessionIds |-> SessionAfter(q)[s]]
    BY DEF SessionAfter
  <1> QED
    BY <1>4, <1>5

\* The corrections after a call's writes are typed rows and none disappears.
LEMMA CorrectionAfterTyped ==
    ASSUME TypeInv, NEW q \in Call, q.date \in Dates, q.emp \in Employees,
           q.op \in Reviews => q.corr \in CorrectionIds /\ correction[q.corr].status # "NONE"
    PROVE  /\ CorrectionAfter(q) \in [CorrectionIds -> Correction]
           /\ \A c \in CorrectionIds :
                 LET y == CorrectionAfter(q)[c] IN
                 /\ y.status # "NONE" => y.date \in Dates /\ y.emp \in Employees
                 /\ correction[c].status # "NONE" => y.status # "NONE"
  <1>1. /\ correction \in [CorrectionIds -> Correction]
        /\ \A c \in CorrectionIds :
              correction[c].status # "NONE" =>
                 correction[c].date \in Dates /\ correction[c].emp \in Employees
    BY DEF TypeInv, TypeOK, Rows
  <1>2. CASE q.op = "REQUEST"
    <2> DEFINE n == [status |-> "PENDING", emp |-> q.emp, date |-> q.date,
                     field |-> q.field, value |-> q.value]
    <2>1. n \in Correction /\ n.status # "NONE" /\ n.date \in Dates /\ n.emp \in Employees
      BY DEF Correction, Call
    <2>2. CorrectionAfter(q) = [correction EXCEPT ![q.corr] = n]
      BY <1>2 DEF CorrectionAfter
    <2> HIDE DEF n
    <2> QED
      BY <1>1, <2>1, <2>2
  <1>3. ASSUME NEW v \in {"APPROVED", "REJECTED"}, q.op \in Reviews,
               CorrectionAfter(q) = [correction EXCEPT ![q.corr].status = v]
        PROVE  /\ CorrectionAfter(q) \in [CorrectionIds -> Correction]
               /\ \A c \in CorrectionIds :
                     LET y == CorrectionAfter(q)[c] IN
                     /\ y.status # "NONE" => y.date \in Dates /\ y.emp \in Employees
                     /\ correction[c].status # "NONE" => y.status # "NONE"
    <2>1. q.corr \in CorrectionIds /\ correction[q.corr].status # "NONE"
      BY <1>3
    <2>2. [correction[q.corr] EXCEPT !.status = v] \in Correction
      BY <1>1, <2>1 DEF Correction
    <2> QED
      BY <1>1, <1>3, <2>1, <2>2 DEF Correction
  <1>4. CASE q.op = "APPROVE"
    BY <1>3, <1>4 DEF CorrectionAfter, Reviews
  <1>5. CASE q.op = "REJECT"
    BY <1>3, <1>5 DEF CorrectionAfter, Reviews
  <1>6. CASE q.op \notin {"REQUEST", "APPROVE", "REJECT"}
    <2>1. CorrectionAfter(q) = correction
      BY <1>6 DEF CorrectionAfter
    <2> QED
      BY <1>1, <2>1
  <1> QED
    BY <1>2, <1>4, <1>5, <1>6

\* A calculated record refers to sessions and corrections that exist.
LEMMA CalculatedTyped ==
    ASSUME TypeInv, NEW q \in Call, q.date \in Dates,
           q.op \notin PeriodOps => q.emp \in Employees,
           q.seen \in SessionIds => session[q.seen].status # "NONE"
    PROVE  Calculated(q) \in [Dates -> DayRecord \cup {None}]
  <1>1. CASE q.op \in PeriodOps
    <2>1. CalculatedDates(q) = {}
      BY <1>1 DEF CalculatedDates, PeriodOps, DayOps
    <2> QED
      BY <2>1 DEF Calculated
  <1>2. CASE q.op \notin PeriodOps
    <2>1. SessionAfter(q) \in [SessionIds -> Session]
      BY <1>2, SessionAfterTyped
    <2>2. ASSUME NEW d \in Dates
          PROVE  DayInputs(SessionAfter(q), CorrectionAfter(q), q.emp, d) \in DayRecord
      BY <2>1 DEF DayInputs, DaySessions, Approved, DayRecord
    <2> QED
      BY <2>2 DEF Calculated
  <1> QED
    BY <1>1, <1>2

\* A commit that stores typed rows and lets none disappear.
LEMMA StoreTyped ==
    ASSUME TypeInv, NEW r \in Requests, Finish(r), UNCHANGED now,
           session' \in [SessionIds -> Session],
           period' \in [Months -> {"OPEN", "CLOSED"}],
           record' \in [Employees -> [Dates -> DayRecord \cup {None}]],
           correction' \in [CorrectionIds -> Correction],
           keyed' \in [Employees -> [Keys -> Punches \cup {"NONE"}]],
           Rows',
           \A s \in SessionIds : session[s].status # "NONE" => session'[s].status # "NONE",
           \A c \in CorrectionIds :
              correction[c].status # "NONE" => correction'[c].status # "NONE"
    PROVE  TypeInv'
  <1>1. req' = [req EXCEPT ![r] = Idle] /\ locks' = [locks EXCEPT ![r] = {}]
    BY DEF Finish, Goto
  <1>2. TypeOK'
    BY <1>1, IdleTyped DEF TypeInv, TypeOK
  <1>3. Calls'
    <2> SUFFICES ASSUME NEW p \in Requests PROVE CallTyped(req[p], locks[p])'
      BY DEF Calls
    <2>1. CASE p = r
      <3>1. req'[p] = Idle /\ locks'[p] = {}
        BY <1>1, <2>1 DEF TypeInv, TypeOK
      <3> QED
        BY <3>1, NoneAssumption DEF CallTyped, Idle, PeriodOps, Reviews
    <2>2. CASE p # r
      <3>1. req'[p] = req[p] /\ locks'[p] = locks[p]
        BY <1>1, <2>2 DEF TypeInv, TypeOK
      <3>2. CallTyped(req[p], locks[p])
        BY DEF TypeInv, Calls
      <3> QED
        BY <3>1, <3>2 DEF CallTyped, DaysOf, DayLock
    <2> QED
      BY <2>1, <2>2
  <1> QED
    BY <1>2, <1>3 DEF TypeInv

\* The body prepares typed rows.
LEMMA BodyTyped ==
    ASSUME TypeInv, NEW r \in Requests, Body(r)
    PROVE  TypeInv'
  <1>0. req[r] \in Call /\ CallTyped(req[r], locks[r])
    BY DEF TypeInv, TypeOK, Calls
  <1>1. PICK n \in NewSession(req[r]), c \in NewCorrection(req[r]) :
           LET q == [req[r] EXCEPT !.new = n, !.corr = c] IN
           Goto(r, [q EXCEPT !.pc = "commit", !.calc = Calculated(q)])
    BY DEF Body
  <1>2. n \in SessionIds \cup {None} /\ c \in CorrectionIds \cup {None}
    BY <1>0 DEF NewSession, NewCorrection, FreshSessions, FreshCorrections, Call
  <1>3. req[r].op \in Reviews => c = req[r].corr
    BY DEF NewCorrection, Reviews
  <1> DEFINE q == [req[r] EXCEPT !.new = n, !.corr = c]
             t == [q EXCEPT !.pc = "commit", !.calc = Calculated(q)]
  <1>4. req[r].pc = "body" /\ UNCHANGED <<now, stored, locks>> /\ Goto(r, t)
    BY <1>1 DEF Body
  <1>5. q \in Call
    BY <1>0, <1>2 DEF Call
  <1>6. /\ q.op = req[r].op /\ q.emp = req[r].emp /\ q.date = req[r].date
        /\ q.seen = req[r].seen /\ q.corr = c
    BY <1>0 DEF Call
  <1>7. /\ q.date \in Dates /\ (q.op \notin PeriodOps => q.emp \in Employees)
        /\ (q.seen \in SessionIds => session[q.seen].status # "NONE")
    BY <1>0, <1>4, <1>6 DEF CallTyped
  <1> HIDE DEF q
  <1>8. Calculated(q) \in [Dates -> DayRecord \cup {None}]
    BY <1>5, <1>7, CalculatedTyped
  <1>9. t \in Call
    BY <1>5, <1>8 DEF Call
  <1>10. /\ t.pc = "commit" /\ t.op = q.op /\ t.emp = q.emp /\ t.date = q.date
         /\ t.seen = q.seen /\ t.corr = q.corr
    BY <1>5 DEF Call
  <1>11. CallTyped(t, locks[r])
    BY <1>0, <1>3, <1>6, <1>7, <1>10 DEF CallTyped
  <1> QED
    BY <1>4, <1>9, <1>11, GotoTyped

\* Every commit stores typed rows.
LEMMA CommitTyped ==
    ASSUME TypeInv, NEW r \in Requests, Commit(r)
    PROVE  TypeInv'
  <1> DEFINE q == req[r]
  <1>0. q \in Call /\ CallTyped(q, locks[r]) /\ q.date \in 0..LastDate
    BY DEF TypeInv, TypeOK, Calls, Call
  <1>1. /\ session \in [SessionIds -> Session]
        /\ period \in [Months -> {"OPEN", "CLOSED"}]
        /\ record \in [Employees -> [Dates -> DayRecord \cup {None}]]
        /\ correction \in [CorrectionIds -> Correction]
        /\ keyed \in [Employees -> [Keys -> Punches \cup {"NONE"}]]
        /\ Rows
    BY DEF TypeInv, TypeOK
  <1>2. ASSUME NEW ops, Commits(r, ops)
        PROVE  /\ q.pc = "commit" /\ q.op \in ops /\ q.date \in Dates /\ Finish(r) /\ UNCHANGED now
               /\ q.op \notin PeriodOps => q.emp \in Employees
               /\ q.seen \in SessionIds => session[q.seen].status # "NONE"
               /\ q.op \in Reviews =>
                     q.corr \in CorrectionIds /\ correction[q.corr].status # "NONE"
    BY <1>0, <1>2 DEF Commits, CallTyped
  <1>3. RecordsAfter(q) \in [Employees -> [Dates -> DayRecord \cup {None}]]
    <2> DEFINE row == [d \in Dates |-> IF \/ q.calc[d] = None
                                          \/ q.op = "MATERIALIZE" /\ record[q.emp][d] # None
                                       THEN record[q.emp][d] ELSE q.calc[d]]
    <2>1. CASE q.emp \in Employees
      <3>1. q.calc \in [Dates -> DayRecord \cup {None}]
        BY <1>0 DEF Call
      <3>2. record[q.emp] \in [Dates -> DayRecord \cup {None}]
        BY <1>1, <2>1
      <3>3. row \in [Dates -> DayRecord \cup {None}]
        BY <3>1, <3>2
      <3>4. RecordsAfter(q) = [record EXCEPT ![q.emp] = row]
        BY DEF RecordsAfter
      <3> HIDE DEF row
      <3> QED
        BY <1>1, <3>3, <3>4
    <2>2. CASE q.emp \notin Employees
      BY <1>1, <2>2 DEF RecordsAfter
    <2> QED
      BY <2>1, <2>2
  <1>4. CASE CommitPunch(r)
    <2>1. q.op \in Punches /\ q.op \notin PeriodOps
      BY <1>2, <1>4 DEF CommitPunch, Punches, PeriodOps
    <2>2. KeysAfter(q) \in [Employees -> [Keys -> Punches \cup {"NONE"}]]
      BY <1>1, <2>1 DEF KeysAfter
    <2>3. /\ session' = SessionAfter(q) /\ record' = RecordsAfter(q) /\ keyed' = KeysAfter(q)
          /\ UNCHANGED <<period, correction>> /\ Commits(r, Punches)
      BY <1>4 DEF CommitPunch
    <2>4. Rows' /\ \A s \in SessionIds :
                      session[s].status # "NONE" => session'[s].status # "NONE"
      BY <1>0, <1>1, <1>2, <2>1, <2>3, SessionAfterTyped DEF Rows
    <2>5. SessionAfter(q) \in [SessionIds -> Session]
      BY <1>0, <1>2, <2>1, <2>3, SessionAfterTyped
    <2> QED
      BY <1>1, <1>2, <1>3, <2>2, <2>3, <2>4, <2>5, StoreTyped
  <1>5. CASE CommitDay(r)
    <2>1. record' = RecordsAfter(q) /\ UNCHANGED <<session, period, correction, keyed>>
      BY <1>5 DEF CommitDay
    <2>2. Finish(r) /\ UNCHANGED now
      BY <1>2, <1>5 DEF CommitDay
    <2>3. Rows'
      BY <1>1, <2>1 DEF Rows
    <2> QED
      BY <1>1, <1>3, <2>1, <2>2, <2>3, StoreTyped
  <1>6. CASE CommitPeriod(r)
    <2>1. period' \in [Months -> {"OPEN", "CLOSED"}]
      BY <1>1, <1>6 DEF CommitPeriod
    <2>2. Finish(r) /\ UNCHANGED now /\ UNCHANGED <<session, record, correction, keyed>>
      BY <1>2, <1>6 DEF CommitPeriod
    <2>3. Rows'
      BY <1>1, <2>2 DEF Rows
    <2> QED
      BY <1>1, <2>1, <2>2, <2>3, StoreTyped
  <1>7. CASE CommitRequest(r)
    <2>1. correction' = CorrectionAfter(q) /\ UNCHANGED <<session, period, record, keyed>>
      BY <1>7 DEF CommitRequest
    <2>2. Commits(r, {"REQUEST"})
      BY <1>7 DEF CommitRequest
    <2>3. q.op \notin PeriodOps /\ q.op \notin Reviews
      BY <1>2, <2>2 DEF PeriodOps, Reviews
    <2>4. Rows' /\ \A c \in CorrectionIds :
                      correction[c].status # "NONE" => correction'[c].status # "NONE"
      BY <1>0, <1>1, <1>2, <2>1, <2>2, <2>3, CorrectionAfterTyped DEF Rows
    <2>5. CorrectionAfter(q) \in [CorrectionIds -> Correction]
      BY <1>0, <1>2, <2>2, <2>3, CorrectionAfterTyped
    <2> QED
      BY <1>1, <1>2, <2>1, <2>2, <2>4, <2>5, StoreTyped
  <1>8. CASE CommitReview(r)
    <2>1. /\ session' = SessionAfter(q) /\ record' = RecordsAfter(q)
          /\ correction' = CorrectionAfter(q) /\ UNCHANGED <<period, keyed>>
      BY <1>8 DEF CommitReview
    <2>2. Commits(r, Reviews)
      BY <1>8 DEF CommitReview
    <2>3. q.op \notin PeriodOps
      BY <1>2, <2>2 DEF PeriodOps, Reviews
    <2>4. /\ CorrectionAfter(q) \in [CorrectionIds -> Correction]
          /\ SessionAfter(q) \in [SessionIds -> Session]
      BY <1>0, <1>2, <2>2, <2>3, CorrectionAfterTyped, SessionAfterTyped
    <2>5. /\ Rows'
          /\ \A s \in SessionIds : session[s].status # "NONE" => session'[s].status # "NONE"
          /\ \A c \in CorrectionIds :
                correction[c].status # "NONE" => correction'[c].status # "NONE"
      BY <1>0, <1>2, <2>1, <2>2, <2>3, CorrectionAfterTyped, SessionAfterTyped DEF Rows
    <2> QED
      BY <1>1, <1>2, <1>3, <2>1, <2>2, <2>4, <2>5, StoreTyped
  <1> QED
    BY <1>4, <1>5, <1>6, <1>7, <1>8 DEF Commit

\* Every step of the system keeps TypeInv.
LEMMA StepTyped == TypeInv /\ [Next]_vars => TypeInv'
  <1> SUFFICES ASSUME TypeInv, [Next]_vars PROVE TypeInv'
    OBVIOUS
  <1>1. CASE UNCHANGED vars
    BY <1>1 DEF vars, TypeInv, TypeOK, Rows, Calls, CallTyped, DaysOf, DayLock
  <1>2. CASE Tick
    <2>1. now' \in Times /\ UNCHANGED <<stored, req, locks>>
      BY <1>2, BoundsAssumption DEF Tick, TypeInv, TypeOK, Times
    <2> QED
      BY <2>1 DEF stored, TypeInv, TypeOK, Rows, Calls, CallTyped, DaysOf, DayLock
  <1>3. ASSUME NEW r \in Requests, Arrive(r) PROVE TypeInv'
    BY <1>3, ArriveTyped
  <1>4. ASSUME NEW r \in Requests, Step(r) PROVE TypeInv'
    <2>1. CASE Resolve(r) \/ PeekCheckIn(r) \/ PeekOpen(r) \/ PeekNothing(r)
      BY <2>1, PeekTyped
    <2>2. CASE Acquire(r) \/ ReplayUnderLock(r)
      BY <2>2, AcquireTyped, RowTyped DEF Acquire
    <2>3. CASE RefuseBody(r) \/ RecalculationFailed(r) \/ DuplicateRefused(r)
      BY <2>3, RefusalTyped DEF RefuseBody, RecalculationFailed, DuplicateRefused
    <2>4. CASE Body(r)
      BY <2>4, BodyTyped
    <2>5. CASE Commit(r)
      BY <2>5, CommitTyped
    <2> QED
      BY <1>4, <2>1, <2>2, <2>3, <2>4, <2>5 DEF Step
  <1>5. ASSUME NEW r \in Requests, Abort(r) PROVE TypeInv'
    BY <1>5, RefusalTyped DEF Abort
  <1> QED
    BY <1>1, <1>2, <1>3, <1>4, <1>5 DEF Next

\* TypeInv holds in every reachable state.
LEMMA AlwaysTyped == Spec => []TypeInv
  BY InitTyped, StepTyped, PTL DEF Spec

\* Every variable always holds rows, calls and locks of the shapes declared,
\* whatever the calls do: no write stores a date outside the calendar, an
\* unknown status or a record of something that does not exist.
THEOREM TypeCorrect == Spec => []TypeOK
  <1>1. TypeInv => TypeOK
    BY DEF TypeInv
  <1> QED
    BY <1>1, AlwaysTyped, PTL

-----------------------------------------------------------------------------
(* Closing a month.  That a closed month has no open session is inductive   *)
(* only together with what the locks on the month's row guarantee between   *)
(* the check of a call and its commit.                                      *)

\* The stages at which a call relies on its check that the month is open.
Inside == {"day", "row", "rowWait", "body", "commit"}

\* A call past assertAttendancePeriodOpen shares the lock of its month, which is
\* still open; closing and reopening hold the month's lock alone, and a closing
\* that has counted the open sessions has found none, also now.
HoldsPeriod(q, L) ==
    LET m == MonthOf[q.date] IN
    /\ q.op \notin PeriodOps /\ q.pc \in Inside =>
          PeriodShare(m) \in L /\ period[m] = "OPEN"
    /\ q.op \in PeriodOps /\ q.pc \in {"body", "commit"} => PeriodExclusive(m) \in L
    /\ q.op = "CLOSE" /\ q.pc = "commit" =>
          \A s \in SessionIds :
             session[s].status = "OPEN" => MonthOf[session[s].date] # m

\* Whoever holds a month's lock exclusively is its only holder.
PeriodExclusion ==
    \A r, p \in Requests, m \in Months :
        r # p /\ PeriodExclusive(m) \in locks[r] =>
            PeriodShare(m) \notin locks[p] /\ PeriodExclusive(m) \notin locks[p]

PeriodInv ==
    /\ \A r \in Requests : HoldsPeriod(req[r], locks[r])
    /\ PeriodExclusion
    /\ ClosedPeriodHasNoOpenSession

\* A step that stores no session and no period and moves one call.
LEMMA PeriodMove ==
    ASSUME TypeInv, PeriodInv, NEW r \in Requests, NEW q, NEW L,
           req' = [req EXCEPT ![r] = q], locks' = [locks EXCEPT ![r] = L],
           UNCHANGED <<session, period>>, HoldsPeriod(q, L),
           \A p \in Requests \ {r}, m \in Months :
              /\ PeriodExclusive(m) \in L =>
                    PeriodShare(m) \notin locks[p] /\ PeriodExclusive(m) \notin locks[p]
              /\ PeriodExclusive(m) \in locks[p] =>
                    PeriodShare(m) \notin L /\ PeriodExclusive(m) \notin L
    PROVE  PeriodInv'
  <1>1. /\ req'[r] = q /\ locks'[r] = L
        /\ \A p \in Requests \ {r} : req'[p] = req[p] /\ locks'[p] = locks[p]
    BY DEF TypeInv, TypeOK
  <1>2. ASSUME NEW p \in Requests PROVE HoldsPeriod(req[p], locks[p])'
    <2>1. HoldsPeriod(req'[p], locks'[p])
      BY <1>1 DEF PeriodInv
    <2> QED
      BY <2>1 DEF HoldsPeriod
  <1>3. PeriodExclusion'
    <2> SUFFICES ASSUME NEW a \in Requests, NEW p \in Requests, NEW m \in Months, a # p,
                        PeriodExclusive(m) \in locks'[a]
                 PROVE  PeriodShare(m) \notin locks'[p] /\ PeriodExclusive(m) \notin locks'[p]
      BY DEF PeriodExclusion, PeriodShare, PeriodExclusive
    <2>1. CASE a # r /\ p # r
      BY <1>1, <2>1 DEF PeriodInv, PeriodExclusion
    <2>2. CASE a = r
      BY <1>1, <2>2
    <2>3. CASE p = r
      BY <1>1, <2>3
    <2> QED
      BY <2>1, <2>2, <2>3
  <1>4. ClosedPeriodHasNoOpenSession'
    BY DEF PeriodInv, ClosedPeriodHasNoOpenSession
  <1> QED
    BY <1>2, <1>3, <1>4 DEF PeriodInv

\* The end of a call that stored no session and no period.
LEMMA PeriodFinish ==
    ASSUME TypeInv, PeriodInv, NEW r \in Requests, Finish(r), UNCHANGED <<session, period>>
    PROVE  PeriodInv'
  <1>1. HoldsPeriod(Idle, {})
    BY DEF HoldsPeriod, Idle, Inside, PeriodOps
  <1> QED
    BY <1>1, PeriodMove DEF Finish, Goto

\* A call that moves on with the locks it holds.
LEMMA PeriodGoto ==
    ASSUME TypeInv, PeriodInv, NEW r \in Requests, NEW q, Goto(r, q),
           UNCHANGED <<session, period, locks>>, HoldsPeriod(q, locks[r])
    PROVE  PeriodInv'
  <1>1. locks' = [locks EXCEPT ![r] = locks[r]]
    BY DEF TypeInv, TypeOK
  <1>2. PeriodExclusion
    BY DEF PeriodInv
  <1> QED
    BY <1>1, <1>2, PeriodMove DEF Goto, PeriodExclusion

\* A call that takes a lock on no month.
LEMMA PeriodTake ==
    ASSUME TypeInv, PeriodInv, NEW r \in Requests, NEW q, NEW l, Goto(r, q), Take(r, l),
           \A m : l # PeriodShare(m) /\ l # PeriodExclusive(m),
           UNCHANGED <<session, period>>, HoldsPeriod(q, locks[r] \cup {l})
    PROVE  PeriodInv'
  <1>1. locks' = [locks EXCEPT ![r] = locks[r] \cup {l}]
    BY DEF TypeInv, TypeOK, Take
  <1>2. PeriodExclusion
    BY DEF PeriodInv
  <1> QED
    BY <1>1, <1>2, PeriodMove DEF Goto, PeriodExclusion

\* The locks on months are distinct from each other and from all others.
LEMMA PeriodLockDistinct ==
    ASSUME NEW m
    PROVE  /\ \A n : PeriodShare(m) # PeriodExclusive(n)
           /\ \A n : PeriodShare(m) = PeriodShare(n) => m = n
           /\ \A n : PeriodExclusive(m) = PeriodExclusive(n) => m = n
           /\ \A e, d : DayLock(e, d) # PeriodShare(m) /\ DayLock(e, d) # PeriodExclusive(m)
           /\ \A s : SessionRow(s) # PeriodShare(m) /\ SessionRow(s) # PeriodExclusive(m)
           /\ \A c : CorrectionRow(c) # PeriodShare(m) /\ CorrectionRow(c) # PeriodExclusive(m)
  BY DEF DayLock, PeriodShare, PeriodExclusive, SessionRow, CorrectionRow

\* Arrivals and unlocked reads: the call has not reached its month's check.
LEMMA PeriodOutside ==
    ASSUME TypeInv, PeriodInv, NEW r \in Requests,
           \/ Arrive(r) \/ Resolve(r) \/ PeekCheckIn(r) \/ PeekOpen(r)
    PROVE  PeriodInv'
  <1>0. Idle \in Call /\ req[r] \in Call /\ req \in [Requests -> Call]
    BY IdleTyped DEF TypeInv, TypeOK
  <1> DEFINE Outside == {"resolve", "peek", "period", "correction"}
  <1>1. UNCHANGED <<session, period, locks>> /\ Goto(r, req'[r]) /\ req'[r].pc \in Outside
    <2>1. CASE Resolve(r) \/ PeekCheckIn(r) \/ PeekOpen(r)
      <3>1. CASE Resolve(r)
        <4>1. PICK prior \in FindMostRecentForEmployee(req[r].emp) :
                 Goto(r, [req[r] EXCEPT !.pc = "peek", !.date = WorkDate(req[r].at, prior)])
          BY <3>1 DEF Resolve
        <4> DEFINE t == [req[r] EXCEPT !.pc = "peek", !.date = WorkDate(req[r].at, prior)]
        <4>2. t.pc \in Outside
          BY <1>0 DEF Call
        <4>3. UNCHANGED <<session, period, locks>> /\ Goto(r, t)
          BY <3>1, <4>1 DEF Resolve, stored
        <4> HIDE DEF t
        <4> QED
          BY <1>0, <4>2, <4>3 DEF Goto
      <3>2. CASE PeekCheckIn(r)
        <4>1. PICK s \in FindOpenForEmployee(req[r].emp) :
                 Goto(r, [req[r] EXCEPT !.pc = "period",
                      !.prev = IF s # None /\ session[s].date # req[r].date
                               THEN session[s].date ELSE 0])
          BY <3>2 DEF PeekCheckIn
        <4> DEFINE t == [req[r] EXCEPT !.pc = "period",
                      !.prev = IF s # None /\ session[s].date # req[r].date
                               THEN session[s].date ELSE 0]
        <4>2. t.pc \in Outside
          BY <1>0 DEF Call
        <4>3. UNCHANGED <<session, period, locks>> /\ Goto(r, t)
          BY <3>2, <4>1 DEF PeekCheckIn, stored
        <4> HIDE DEF t
        <4> QED
          BY <1>0, <4>2, <4>3 DEF Goto
      <3>3. CASE PeekOpen(r)
        <4>1. PICK s \in OpenSessions(req[r].emp) :
                 Goto(r, [req[r] EXCEPT !.pc = "period", !.peek = s, !.date = session[s].date])
          BY <3>3 DEF PeekOpen
        <4> DEFINE t == [req[r] EXCEPT !.pc = "period", !.peek = s, !.date = session[s].date]
        <4>2. t.pc \in Outside
          BY <1>0 DEF Call
        <4>3. UNCHANGED <<session, period, locks>> /\ Goto(r, t)
          BY <3>3, <4>1 DEF PeekOpen, stored
        <4> HIDE DEF t
        <4> QED
          BY <1>0, <4>2, <4>3 DEF Goto
      <3> QED
        BY <2>1, <3>1, <3>2, <3>3
    <2>2. ASSUME NEW e \in Employees, NEW k \in Keys \cup {None}, ArriveCheckIn(r, e, k)
          PROVE  UNCHANGED <<session, period, locks>> /\ Goto(r, req'[r]) /\ req'[r].pc \in Outside
      BY <1>0, <2>2 DEF ArriveCheckIn, Start, Goto, stored, Call
    <2>3. ASSUME NEW op, NEW e \in Employees, NEW k \in Keys \cup {None},
                 ArrivePunch(r, op, e, k)
          PROVE  UNCHANGED <<session, period, locks>> /\ Goto(r, req'[r]) /\ req'[r].pc \in Outside
      BY <1>0, <2>3 DEF ArrivePunch, Start, Goto, stored, Call
    <2>4. ASSUME NEW op, NEW e \in Employees, NEW d \in Dates, ArriveDay(r, op, e, d)
          PROVE  UNCHANGED <<session, period, locks>> /\ Goto(r, req'[r]) /\ req'[r].pc \in Outside
      BY <1>0, <2>4 DEF ArriveDay, Start, Goto, stored, Call
    <2>5. ASSUME NEW op, NEW d \in Dates, ArrivePeriod(r, op, d)
          PROVE  UNCHANGED <<session, period, locks>> /\ Goto(r, req'[r]) /\ req'[r].pc \in Outside
      BY <1>0, <2>5 DEF ArrivePeriod, Start, Goto, stored, Call
    <2>6. ASSUME NEW e \in Employees, NEW d \in Dates, NEW f \in Fields,
                 NEW v \in 0..LastTime, ArriveRequest(r, e, d, f, v)
          PROVE  UNCHANGED <<session, period, locks>> /\ Goto(r, req'[r]) /\ req'[r].pc \in Outside
      BY <1>0, <2>6 DEF ArriveRequest, Start, Goto, stored, Call
    <2>7. ASSUME NEW op, NEW c \in CorrectionIds, ArriveReview(r, op, c)
          PROVE  UNCHANGED <<session, period, locks>> /\ Goto(r, req'[r]) /\ req'[r].pc \in Outside
      BY <1>0, <2>7 DEF ArriveReview, Start, Goto, stored, Call
    <2> QED
      BY <2>1, <2>2, <2>3, <2>4, <2>5, <2>6, <2>7 DEF Arrive
  <1>2. HoldsPeriod(req'[r], locks[r])
    BY <1>1 DEF HoldsPeriod, Inside
  <1> QED
    BY <1>1, <1>2, PeriodGoto

\* Taking a month's lock: shared past an open month, exclusively to close it.
LEMMA PeriodAcquire ==
    ASSUME TypeInv, PeriodInv, NEW r \in Requests,
           LockPeriodShare(r) \/ LockPeriodExclusive(r)
    PROVE  PeriodInv'
  <1> DEFINE q == req[r]
             n == MonthOf[q.date]
  <1>0. q \in Call /\ CallTyped(q, locks[r]) /\ PeriodExclusion /\ HoldsPeriod(q, locks[r])
    BY DEF TypeInv, TypeOK, Calls, PeriodInv
  <1>1. q.pc = "period" /\ n \in Months /\ Blockers(r) = {} /\ UNCHANGED <<session, period>>
    BY <1>0 DEF CallTyped, LockPeriodShare, LockPeriodExclusive, Months, stored
  <1>2. CASE LockPeriodShare(r)
    <2>1. CASE period[n] = "CLOSED"
      BY <1>1, <1>2, <2>1, PeriodFinish DEF LockPeriodShare
    <2>2. CASE period[n] # "CLOSED"
      <3> DEFINE t == [q EXCEPT !.pc = AfterPeriod(q)]
                 L == locks[r] \cup {PeriodShare(n)}
      <3>1. Goto(r, t) /\ Take(r, PeriodShare(n)) /\ q.op \notin PeriodOps
        BY <1>2, <2>2 DEF LockPeriodShare
      <3>2. period[n] = "OPEN"
        BY <1>1, <2>2 DEF TypeInv, TypeOK
      <3>3. t.op = q.op /\ t.date = q.date
        BY <1>0 DEF Call
      <3>4. HoldsPeriod(t, L)
        BY <3>1, <3>2, <3>3 DEF HoldsPeriod, PeriodOps
      <3>5. \A p \in Requests \ {r} : PeriodExclusive(n) \notin locks[p]
        BY <1>1, <3>1 DEF Blockers, Wanted
      <3>6. ASSUME NEW p \in Requests \ {r}, NEW m \in Months
            PROVE  /\ PeriodExclusive(m) \in L =>
                        PeriodShare(m) \notin locks[p] /\ PeriodExclusive(m) \notin locks[p]
                   /\ PeriodExclusive(m) \in locks[p] =>
                        PeriodShare(m) \notin L /\ PeriodExclusive(m) \notin L
        <4>1. PeriodExclusive(m) # PeriodShare(n) /\ (PeriodShare(m) = PeriodShare(n) => m = n)
          BY PeriodLockDistinct
        <4>2. /\ PeriodExclusive(m) \in locks[r] =>
                    PeriodShare(m) \notin locks[p] /\ PeriodExclusive(m) \notin locks[p]
              /\ PeriodExclusive(m) \in locks[p] =>
                    PeriodShare(m) \notin locks[r] /\ PeriodExclusive(m) \notin locks[r]
          BY <1>0 DEF PeriodExclusion
        <4> QED
          BY <3>5, <4>1, <4>2
      <3>7. locks' = [locks EXCEPT ![r] = L]
        BY <3>1 DEF Take
      <3>8. req' = [req EXCEPT ![r] = t]
        BY <3>1 DEF Goto
      <3> HIDE DEF t, L
      <3> QED
        BY <1>1, <3>4, <3>6, <3>7, <3>8, PeriodMove
    <2> QED
      BY <2>1, <2>2
  <1>3. CASE LockPeriodExclusive(r)
    <2> DEFINE t == [q EXCEPT !.pc = "body"]
               L == locks[r] \cup {PeriodExclusive(n)}
    <2>1. Goto(r, t) /\ Take(r, PeriodExclusive(n)) /\ q.op \in PeriodOps
      BY <1>3 DEF LockPeriodExclusive
    <2>2. t.op = q.op /\ t.date = q.date /\ t.pc = "body"
      BY <1>0 DEF Call
    <2>3. HoldsPeriod(t, L)
      BY <2>1, <2>2 DEF HoldsPeriod
    <2>4. \A p \in Requests \ {r} :
             PeriodExclusive(n) \notin locks[p] /\ PeriodShare(n) \notin locks[p]
      BY <1>1, <2>1 DEF Blockers, Wanted
    <2>5. ASSUME NEW p \in Requests \ {r}, NEW m \in Months
          PROVE  /\ PeriodExclusive(m) \in L =>
                      PeriodShare(m) \notin locks[p] /\ PeriodExclusive(m) \notin locks[p]
                 /\ PeriodExclusive(m) \in locks[p] =>
                      PeriodShare(m) \notin L /\ PeriodExclusive(m) \notin L
      <3>1. /\ PeriodShare(m) # PeriodExclusive(n)
            /\ PeriodExclusive(m) = PeriodExclusive(n) => m = n
        BY PeriodLockDistinct
      <3>2. /\ PeriodExclusive(m) \in locks[r] =>
                  PeriodShare(m) \notin locks[p] /\ PeriodExclusive(m) \notin locks[p]
            /\ PeriodExclusive(m) \in locks[p] =>
                  PeriodShare(m) \notin locks[r] /\ PeriodExclusive(m) \notin locks[r]
        BY <1>0 DEF PeriodExclusion
      <3> QED
        BY <2>4, <3>1, <3>2
    <2>6. locks' = [locks EXCEPT ![r] = L]
      BY <2>1 DEF Take
    <2>7. req' = [req EXCEPT ![r] = t]
      BY <2>1 DEF Goto
    <2> HIDE DEF t, L
    <2> QED
      BY <1>1, <2>3, <2>5, <2>6, <2>7, PeriodMove
  <1> QED
    BY <1>2, <1>3

\* The other locks leave the months alone.
LEMMA PeriodOtherLocks ==
    ASSUME TypeInv, PeriodInv, NEW r \in Requests,
           LockCorrection(r) \/ LockDay(r) \/ LockOpenSession(r) \/ RowReleased(r)
    PROVE  PeriodInv'
  <1> DEFINE q == req[r]
  <1>0. q \in Call /\ HoldsPeriod(q, locks[r]) /\ CallTyped(q, locks[r])
    BY DEF TypeInv, TypeOK, Calls, PeriodInv
  <1>1. UNCHANGED <<session, period>>
    BY DEF LockCorrection, LockDay, LockOpenSession, RowReleased, stored
  <1>2. ASSUME NEW t, t.op = q.op, t.date = q.date, t.pc \in Inside \ {"commit"},
               q.pc \in {"day", "row", "rowWait"}, NEW l
        PROVE  HoldsPeriod(t, locks[r]) /\ HoldsPeriod(t, locks[r] \cup {l})
    BY <1>0, <1>2 DEF HoldsPeriod, Inside, CallTyped
  <1>3. CASE LockCorrection(r)
    <2> DEFINE c == correction[q.corr]
               t == [q EXCEPT !.pc = "period", !.emp = c.emp, !.date = c.date,
                              !.field = c.field, !.value = c.value]
    <2>1. CASE c.status # "PENDING"
      BY <1>1, <1>3, <2>1, PeriodFinish DEF LockCorrection
    <2>2. CASE c.status = "PENDING"
      <3>1. Goto(r, t) /\ Take(r, CorrectionRow(q.corr))
        BY <1>3, <2>2 DEF LockCorrection
      <3>2. t.pc = "period"
        BY <1>0 DEF Call
      <3>3. HoldsPeriod(t, locks[r] \cup {CorrectionRow(q.corr)})
        BY <3>2 DEF HoldsPeriod, Inside
      <3> HIDE DEF t
      <3> QED
        BY <1>1, <3>1, <3>3, PeriodTake, PeriodLockDistinct
    <2> QED
      BY <2>1, <2>2
  <1>4. CASE LockDay(r)
    <2> DEFINE d == NextDayToLock(r)
               t == [q EXCEPT !.pc = IF DaysToLock(r) # {d} THEN "day"
                                     ELSE IF LocksRow(q) THEN "row" ELSE "body"]
    <2>1. Goto(r, t) /\ Take(r, DayLock(q.emp, d)) /\ q.pc = "day"
      BY <1>4 DEF LockDay
    <2>2. t.op = q.op /\ t.date = q.date /\ t.pc \in Inside \ {"commit"}
      BY <1>0 DEF Call, Inside
    <2> HIDE DEF t, d
    <2>3. HoldsPeriod(t, locks[r] \cup {DayLock(q.emp, d)})
      BY <1>2, <2>1, <2>2
    <2> QED
      BY <1>1, <2>1, <2>3, PeriodTake, PeriodLockDistinct
  <1>5. CASE LockOpenSession(r)
    <2>1. PICK s : IF s # None /\ HeldByOther(r, SessionRow(s))
                   THEN /\ Goto(r, [q EXCEPT !.pc = "rowWait", !.seen = s])
                        /\ UNCHANGED locks
                   ELSE /\ Goto(r, [q EXCEPT !.pc = "body", !.seen = s])
                        /\ IF s = None THEN UNCHANGED locks ELSE Take(r, SessionRow(s))
      BY <1>5 DEF LockOpenSession
    <2>2. q.pc = "row"
      BY <1>5 DEF LockOpenSession
    <2> DEFINE w == [q EXCEPT !.pc = "rowWait", !.seen = s]
               b == [q EXCEPT !.pc = "body", !.seen = s]
    <2>3. /\ w.op = q.op /\ w.date = q.date /\ w.pc \in Inside \ {"commit"}
          /\ b.op = q.op /\ b.date = q.date /\ b.pc \in Inside \ {"commit"}
      BY <1>0 DEF Call, Inside
    <2>4. \/ (Goto(r, w) \/ Goto(r, b)) /\ UNCHANGED locks
          \/ Goto(r, b) /\ Take(r, SessionRow(s))
      BY <2>1
    <2> HIDE DEF w, b
    <2>5. HoldsPeriod(w, locks[r]) /\ HoldsPeriod(b, locks[r])
      BY <1>2, <2>2, <2>3
    <2>6. HoldsPeriod(b, locks[r] \cup {SessionRow(s)})
      BY <1>2, <2>2, <2>3
    <2>7. CASE (Goto(r, w) \/ Goto(r, b)) /\ UNCHANGED locks
      BY <1>1, <2>5, <2>7, PeriodGoto
    <2>8. CASE Goto(r, b) /\ Take(r, SessionRow(s))
      BY <1>1, <2>6, <2>8, PeriodTake, PeriodLockDistinct
    <2> QED
      BY <2>4, <2>7, <2>8
  <1>6. CASE RowReleased(r)
    <2> DEFINE b == [q EXCEPT !.pc = "body"]
               n == [q EXCEPT !.pc = "body", !.seen = None]
    <2>1. /\ q.pc = "rowWait"
          /\ \/ Goto(r, b) /\ Take(r, SessionRow(q.seen))
             \/ Goto(r, n) /\ UNCHANGED locks
      BY <1>6 DEF RowReleased
    <2>2. /\ b.op = q.op /\ b.date = q.date /\ b.pc \in Inside \ {"commit"}
          /\ n.op = q.op /\ n.date = q.date /\ n.pc \in Inside \ {"commit"}
      BY <1>0 DEF Call, Inside
    <2> HIDE DEF b, n
    <2>3. HoldsPeriod(b, locks[r] \cup {SessionRow(q.seen)}) /\ HoldsPeriod(n, locks[r])
      BY <1>2, <2>1, <2>2
    <2>4. CASE Goto(r, b) /\ Take(r, SessionRow(q.seen))
      BY <1>1, <2>3, <2>4, PeriodTake, PeriodLockDistinct
    <2>5. CASE Goto(r, n) /\ UNCHANGED locks
      BY <1>1, <2>3, <2>5, PeriodGoto
    <2> QED
      BY <2>1, <2>4, <2>5
  <1> QED
    BY <1>3, <1>4, <1>5, <1>6

\* A closing that goes on to its commit has found no open session.
LEMMA PeriodBody ==
    ASSUME TypeInv, PeriodInv, NEW r \in Requests, Body(r)
    PROVE  PeriodInv'
  <1>0. req[r] \in Call /\ HoldsPeriod(req[r], locks[r])
    BY DEF TypeInv, TypeOK, PeriodInv
  <1>1. PICK n \in NewSession(req[r]), c \in NewCorrection(req[r]) :
           LET q == [req[r] EXCEPT !.new = n, !.corr = c] IN
           Goto(r, [q EXCEPT !.pc = "commit", !.calc = Calculated(q)])
    BY DEF Body
  <1> DEFINE q == [req[r] EXCEPT !.new = n, !.corr = c]
             t == [q EXCEPT !.pc = "commit", !.calc = Calculated(q)]
  <1>2. /\ req[r].pc = "body" /\ BodyAllows(req[r]) /\ Goto(r, t)
        /\ UNCHANGED <<session, period, locks>>
    BY <1>1 DEF Body, stored
  <1>3. t.op = req[r].op /\ t.date = req[r].date /\ t.pc = "commit"
    <2>1. q.op = req[r].op /\ q.date = req[r].date /\ q = [q EXCEPT !.new = n]
      BY <1>0 DEF Call
    <2> QED
      BY <1>0, <2>1 DEF Call
  <1>4. req[r].op = "CLOSE" =>
           \A s \in SessionIds :
              session[s].status = "OPEN" => MonthOf[session[s].date] # MonthOf[req[r].date]
    BY <1>2 DEF BodyAllows, PeriodAllows, PeriodOps, Punches, DayOps
  <1> HIDE DEF t
  <1>5. HoldsPeriod(t, locks[r])
    BY <1>0, <1>2, <1>3, <1>4 DEF HoldsPeriod, Inside
  <1> QED
    BY <1>2, <1>5, PeriodGoto

\* A session that is open after a call's writes was open before them, or is the
\* one the call inserts, on its own work date.
LEMMA OpenAfter ==
    ASSUME TypeInv, NEW q \in Call, NEW s \in SessionIds, SessionAfter(q)[s].status = "OPEN"
    PROVE  \/ session[s].status = "OPEN" /\ SessionAfter(q)[s].date = session[s].date
           \/ SessionAfter(q)[s].date = q.date
  <1>1. session[s] \in Session
    BY DEF TypeInv, TypeOK
  <1>2. CASE s = q.new
    BY <1>2 DEF SessionAfter, Inserted, NoSession
  <1>3. CASE s # q.new /\ s = q.seen
    BY <1>1, <1>3, WrittenTyped DEF SessionAfter
  <1>4. CASE s # q.new /\ s # q.seen
    BY <1>4 DEF SessionAfter
  <1> QED
    BY <1>2, <1>3, <1>4

\* A call that stores sessions opens none in a month that is closed or closing.
LEMMA PeriodStoreSessions ==
    ASSUME TypeInv, PeriodInv, NEW r \in Requests, Finish(r), UNCHANGED period,
           req[r].pc = "commit", req[r].op \notin PeriodOps, session' = SessionAfter(req[r])
    PROVE  PeriodInv'
  <1> DEFINE q == req[r]
             n == MonthOf[q.date]
  <1>1. q \in Call /\ HoldsPeriod(q, locks[r]) /\ CallTyped(q, locks[r]) /\ PeriodExclusion
    BY DEF TypeInv, TypeOK, Calls, PeriodInv
  <1>2. PeriodShare(n) \in locks[r] /\ period[n] = "OPEN" /\ n \in Months
    BY <1>1 DEF HoldsPeriod, Inside, CallTyped, Months
  <1>3. /\ req'[r] = Idle /\ locks'[r] = {}
        /\ \A p \in Requests \ {r} : req'[p] = req[p] /\ locks'[p] = locks[p]
    BY DEF Finish, Goto, TypeInv, TypeOK
  <1>4. \A s \in SessionIds : session'[s].status = "OPEN" =>
           \/ session[s].status = "OPEN" /\ session'[s].date = session[s].date
           \/ session'[s].date = q.date
    BY <1>1, OpenAfter
  <1>5. ASSUME NEW p \in Requests PROVE HoldsPeriod(req[p], locks[p])'
    <2>1. CASE p = r
      BY <1>3, <2>1 DEF HoldsPeriod, Idle, PeriodOps, Inside
    <2>2. CASE p # r
      <3> DEFINE m == MonthOf[req[p].date]
      <3>1. HoldsPeriod(req[p], locks[p]) /\ CallTyped(req[p], locks[p])
        BY DEF PeriodInv, TypeInv, Calls
      <3>2. req[p].op = "CLOSE" /\ req[p].pc = "commit" => m # n
        BY <1>1, <1>2, <2>2, <3>1 DEF HoldsPeriod, PeriodExclusion, PeriodOps
      <3>3. req[p].op = "CLOSE" /\ req[p].pc = "commit" =>
               \A s \in SessionIds : session'[s].status = "OPEN" => MonthOf[session'[s].date] # m
        BY <1>4, <3>1, <3>2 DEF HoldsPeriod
      <3> QED
        BY <1>3, <2>2, <3>1, <3>3 DEF HoldsPeriod
    <2> QED
      BY <2>1, <2>2
  <1>6. PeriodExclusion'
    BY <1>1, <1>3 DEF PeriodExclusion, PeriodShare, PeriodExclusive
  <1>7. ClosedPeriodHasNoOpenSession'
    BY <1>2, <1>4 DEF PeriodInv, ClosedPeriodHasNoOpenSession
  <1> QED
    BY <1>5, <1>6, <1>7 DEF PeriodInv

\* Closing and reopening change a month on whose status no other call relies.
LEMMA PeriodStorePeriod ==
    ASSUME TypeInv, PeriodInv, NEW r \in Requests, CommitPeriod(r)
    PROVE  PeriodInv'
  <1> DEFINE q == req[r]
             n == MonthOf[q.date]
  <1>0. /\ q.pc = "commit" /\ q.op \in PeriodOps /\ Finish(r) /\ UNCHANGED session
        /\ period' = [period EXCEPT ![n] = IF q.op = "CLOSE" THEN "CLOSED" ELSE "OPEN"]
    BY DEF CommitPeriod, Commits
  <1>1. q \in Call /\ HoldsPeriod(q, locks[r]) /\ CallTyped(q, locks[r]) /\ PeriodExclusion
    BY DEF TypeInv, TypeOK, Calls, PeriodInv
  <1>2. PeriodExclusive(n) \in locks[r] /\ n \in Months
    BY <1>0, <1>1 DEF HoldsPeriod, CallTyped, Months
  <1>3. /\ req'[r] = Idle /\ locks'[r] = {}
        /\ \A p \in Requests \ {r} : req'[p] = req[p] /\ locks'[p] = locks[p]
    BY <1>0 DEF Finish, Goto, TypeInv, TypeOK
  <1>4. period'[n] = (IF q.op = "CLOSE" THEN "CLOSED" ELSE "OPEN")
        /\ \A m \in Months : m # n => period'[m] = period[m]
    BY <1>0, <1>2 DEF TypeInv, TypeOK
  <1>5. ASSUME NEW p \in Requests PROVE HoldsPeriod(req[p], locks[p])'
    <2>1. CASE p = r
      BY <1>3, <2>1 DEF HoldsPeriod, Idle, PeriodOps, Inside
    <2>2. CASE p # r
      <3> DEFINE m == MonthOf[req[p].date]
      <3>1. HoldsPeriod(req[p], locks[p]) /\ CallTyped(req[p], locks[p])
        BY DEF PeriodInv, TypeInv, Calls
      <3>2. req[p].op \notin PeriodOps /\ req[p].pc \in Inside => m # n /\ m \in Months
        BY <1>1, <1>2, <2>2, <3>1
        DEF HoldsPeriod, PeriodExclusion, CallTyped, Months, Inside
      <3>3. req[p].op \notin PeriodOps /\ req[p].pc \in Inside =>
               PeriodShare(m) \in locks[p] /\ period'[m] = "OPEN"
        BY <1>4, <3>1, <3>2 DEF HoldsPeriod
      <3> QED
        BY <1>0, <1>3, <2>2, <3>1, <3>3 DEF HoldsPeriod
    <2> QED
      BY <2>1, <2>2
  <1>6. PeriodExclusion'
    BY <1>1, <1>3 DEF PeriodExclusion, PeriodShare, PeriodExclusive
  <1>7. ClosedPeriodHasNoOpenSession'
    <2> SUFFICES ASSUME NEW s \in SessionIds, session[s].status = "OPEN"
                 PROVE  period'[MonthOf[session[s].date]] = "OPEN"
      BY <1>0 DEF ClosedPeriodHasNoOpenSession
    <2> DEFINE m == MonthOf[session[s].date]
    <2>1. m \in Months /\ period[m] = "OPEN"
      BY DEF TypeInv, Rows, PeriodInv, ClosedPeriodHasNoOpenSession, Months
    <2>2. q.op = "CLOSE" => m # n
      BY <1>0, <1>1 DEF HoldsPeriod
    <2> QED
      BY <1>4, <2>1, <2>2
  <1> QED
    BY <1>5, <1>6, <1>7 DEF PeriodInv

\* Every step keeps PeriodInv.
LEMMA StepPeriod == TypeInv /\ PeriodInv /\ [Next]_vars => PeriodInv'
  <1> SUFFICES ASSUME TypeInv, PeriodInv, [Next]_vars PROVE PeriodInv'
    OBVIOUS
  <1>1. CASE UNCHANGED <<session, period, req, locks>>
    BY <1>1 DEF PeriodInv, HoldsPeriod, PeriodExclusion, ClosedPeriodHasNoOpenSession,
                PeriodShare, PeriodExclusive
  <1>2. ASSUME NEW r \in Requests, Finish(r), UNCHANGED <<now, stored>> PROVE PeriodInv'
    BY <1>2, PeriodFinish DEF stored
  <1>3. ASSUME NEW r \in Requests, Commit(r) PROVE PeriodInv'
    <2>1. CASE CommitPunch(r)
      BY <2>1, PeriodStoreSessions DEF CommitPunch, Commits, Punches, PeriodOps
    <2>2. CASE CommitReview(r)
      BY <2>2, PeriodStoreSessions DEF CommitReview, Commits, Reviews, PeriodOps
    <2>3. CASE CommitDay(r) \/ CommitRequest(r)
      BY <2>3, PeriodFinish DEF CommitDay, CommitRequest, Commits
    <2>4. CASE CommitPeriod(r)
      BY <2>4, PeriodStorePeriod
    <2> QED
      BY <1>3, <2>1, <2>2, <2>3, <2>4 DEF Commit
  <1>4. ASSUME NEW r \in Requests, Step(r) PROVE PeriodInv'
    <2>1. CASE Resolve(r) \/ PeekCheckIn(r) \/ PeekOpen(r)
      BY <2>1, PeriodOutside
    <2>2. CASE Acquire(r)
      BY <2>2, PeriodAcquire, PeriodOtherLocks DEF Acquire
    <2>3. CASE \/ PeekNothing(r) \/ ReplayUnderLock(r) \/ RefuseBody(r)
               \/ RecalculationFailed(r) \/ DuplicateRefused(r)
      BY <1>2, <2>3
      DEF PeekNothing, ReplayUnderLock, RefuseBody, RecalculationFailed, DuplicateRefused
    <2>4. CASE Body(r)
      BY <2>4, PeriodBody
    <2>5. CASE Commit(r)
      BY <1>3, <2>5
    <2> QED
      BY <1>4, <2>1, <2>2, <2>3, <2>4, <2>5 DEF Step
  <1>5. ASSUME NEW r \in Requests, Arrive(r) \/ Abort(r) PROVE PeriodInv'
    BY <1>2, <1>5, PeriodOutside DEF Abort
  <1>6. CASE UNCHANGED vars \/ Tick
    BY <1>1, <1>6 DEF vars, Tick, stored
  <1> QED
    BY <1>4, <1>5, <1>6 DEF Next

\* PeriodInv holds before any call.
LEMMA InitPeriod == Init => PeriodInv
  BY DEF Init, PeriodInv, HoldsPeriod, PeriodExclusion, ClosedPeriodHasNoOpenSession,
         Idle, Inside, PeriodOps, NoSession

\* PeriodInv holds in every reachable state.
LEMMA AlwaysPeriod == Spec => []PeriodInv
  BY AlwaysTyped, InitPeriod, StepPeriod, PTL DEF Spec

\* However many employees and calls there are and whatever the calendar, no
\* month is ever closed with a session of it open: a check-in that passed
\* assertAttendancePeriodOpen commits before the month's closing counts its open
\* sessions, or is refused after it.
THEOREM NoOpenSessionInClosedPeriod == Spec => []ClosedPeriodHasNoOpenSession
  <1>1. PeriodInv => ClosedPeriodHasNoOpenSession
    BY DEF PeriodInv
  <1> QED
    BY <1>1, AlwaysPeriod, PTL
=============================================================================
