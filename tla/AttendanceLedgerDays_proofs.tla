--------------------- MODULE AttendanceLedgerDays_proofs ---------------------
(***************************************************************************)
(* What AttendanceLedger does at most once, for every value of the         *)
(* constants: a key takes effect once, an employee has one open session.   *)
(* And what its locks give: while a call is under way nobody else changes  *)
(* the sessions and the days it has locked.  From this follow the history  *)
(* of a session, the freeze of a closed month, the freshness of the daily  *)
(* records, the uniqueness of live corrections and the absence of deadlock,*)
(* and that AttendanceLedger implements AttendanceBook.                    *)
(***************************************************************************)
EXTENDS AttendanceLedger_proofs, FiniteSetTheorems, WellFoundedInduction

-----------------------------------------------------------------------------
(* What one step of a call leaves alone                                    *)

\* A step of one call moves no other call and touches no lock of another.
LEMMA OthersUnmoved ==
    ASSUME TypeInv, NEW r \in Requests, Arrive(r) \/ Step(r) \/ Abort(r),
           NEW p \in Requests \ {r}
    PROVE  req'[p] = req[p] /\ locks'[p] = locks[p]
  <1>1. req \in [Requests -> Call] /\ locks \in [Requests -> SUBSET Lock]
    BY DEF TypeInv, TypeOK
  <1>2. ASSUME NEW q, Goto(r, q) PROVE req'[p] = req[p]
    BY <1>1, <1>2 DEF Goto
  <1>3. ASSUME NEW l, Take(r, l) PROVE locks'[p] = locks[p]
    BY <1>1, <1>3 DEF Take
  <1>4. ASSUME Finish(r) PROVE req'[p] = req[p] /\ locks'[p] = locks[p]
    BY <1>1, <1>4 DEF Finish, Goto
  <1>5. CASE Arrive(r)
    BY <1>2, <1>5 DEF Arrive, ArriveCheckIn, ArrivePunch, ArriveDay, ArrivePeriod,
                      ArriveRequest, ArriveReview, Start
  <1>6. CASE Resolve(r) \/ PeekCheckIn(r) \/ PeekOpen(r)
    BY <1>2, <1>6 DEF Resolve, PeekCheckIn, PeekOpen
  <1>7. CASE LockCorrection(r) \/ LockPeriodShare(r) \/ LockPeriodExclusive(r)
    BY <1>2, <1>3, <1>4, <1>7 DEF LockCorrection, LockPeriodShare, LockPeriodExclusive
  <1>8. CASE LockDay(r) \/ LockOpenSession(r) \/ RowReleased(r)
    BY <1>2, <1>3, <1>8 DEF LockDay, LockOpenSession, RowReleased
  <1>9. CASE Body(r)
    BY <1>2, <1>9 DEF Body
  <1>10. CASE Commit(r)
    BY <1>4, <1>10 DEF Commit, CommitPunch, CommitDay, CommitPeriod, CommitRequest,
                       CommitReview, Commits
  <1>11. CASE \/ PeekNothing(r) \/ ReplayUnderLock(r) \/ RefuseBody(r) \/ Abort(r)
              \/ RecalculationFailed(r) \/ DuplicateRefused(r)
    BY <1>4, <1>11 DEF PeekNothing, ReplayUnderLock, RefuseBody, Abort,
                       RecalculationFailed, DuplicateRefused
  <1> QED
    BY <1>5, <1>6, <1>7, <1>8, <1>9, <1>10, <1>11 DEF Step, Acquire

\* Only a commit stores anything.
LEMMA OnlyCommitStores ==
    ASSUME NEW r \in Requests, Arrive(r) \/ Step(r) \/ Abort(r), ~Commit(r)
    PROVE  UNCHANGED stored
  <1>1. CASE Arrive(r)
    BY <1>1 DEF Arrive, ArriveCheckIn, ArrivePunch, ArriveDay, ArrivePeriod,
                ArriveRequest, ArriveReview
  <1>2. CASE Resolve(r) \/ PeekCheckIn(r) \/ PeekOpen(r) \/ PeekNothing(r)
    BY <1>2 DEF Resolve, PeekCheckIn, PeekOpen, PeekNothing
  <1>3. CASE Acquire(r)
    BY <1>3 DEF Acquire, LockCorrection, LockPeriodShare, LockPeriodExclusive, LockDay,
                LockOpenSession, RowReleased
  <1>4. CASE \/ ReplayUnderLock(r) \/ Body(r) \/ RefuseBody(r) \/ RecalculationFailed(r)
             \/ DuplicateRefused(r) \/ Abort(r)
    BY <1>4 DEF ReplayUnderLock, Body, RefuseBody, RecalculationFailed, DuplicateRefused,
                Abort
  <1> QED
    BY <1>1, <1>2, <1>3, <1>4 DEF Step

-----------------------------------------------------------------------------
(* Only punches carry keys and only check-ins insert sessions.             *)

Intent(q) ==
    /\ q.key # None => q.op \in Punches
    /\ q.new # None => q.op = "CHECK_IN"

Intents == \A r \in Requests : Intent(req[r])

\* A slot with no call has no intent.
LEMMA IdleIntent == Intent(Idle)
  BY DEF Intent, Idle

\* The call that moves keeps its intent or ends.
LEMMA MoverIntent ==
    ASSUME TypeInv, Intents, NEW r \in Requests, Arrive(r) \/ Step(r) \/ Abort(r)
    PROVE  Intent(req'[r])
  <1>1. req \in [Requests -> Call] /\ req[r] \in Call /\ Intent(req[r])
    BY DEF TypeInv, TypeOK, Intents
  <1>2. ASSUME NEW q, Goto(r, q) PROVE req'[r] = q
    BY <1>1, <1>2 DEF Goto
  <1>3. ASSUME Finish(r) PROVE Intent(req'[r])
    BY <1>2, <1>3, IdleIntent DEF Finish
  <1>4. CASE Arrive(r)
    <2>1. ASSUME NEW e \in Employees, NEW k \in Keys \cup {None}, ArriveCheckIn(r, e, k)
          PROVE  Intent(req'[r])
      BY <1>1, <2>1 DEF ArriveCheckIn, Start, Goto, Intent, Idle, Punches
    <2>2. ASSUME NEW op \in Punches, NEW e \in Employees, NEW k \in Keys \cup {None},
                 ArrivePunch(r, op, e, k)
          PROVE  Intent(req'[r])
      BY <1>1, <2>2 DEF ArrivePunch, Start, Goto, Intent, Idle
    <2>3. ASSUME NEW op \in DayOps, NEW e \in Employees, NEW d \in Dates,
                 ArriveDay(r, op, e, d)
          PROVE  Intent(req'[r])
      BY <1>1, <2>3 DEF ArriveDay, Start, Goto, Intent, Idle
    <2>4. ASSUME NEW op \in PeriodOps, NEW d \in Dates, ArrivePeriod(r, op, d)
          PROVE  Intent(req'[r])
      BY <1>1, <2>4 DEF ArrivePeriod, Start, Goto, Intent, Idle
    <2>5. ASSUME NEW e \in Employees, NEW d \in Dates, NEW f \in Fields,
                 NEW v \in 0..LastTime, ArriveRequest(r, e, d, f, v)
          PROVE  Intent(req'[r])
      BY <1>1, <2>5 DEF ArriveRequest, Start, Goto, Intent, Idle
    <2>6. ASSUME NEW op \in Reviews, NEW c \in CorrectionIds, ArriveReview(r, op, c)
          PROVE  Intent(req'[r])
      BY <1>1, <2>6 DEF ArriveReview, Start, Goto, Intent, Idle
    <2> QED
      BY <1>4, <2>1, <2>2, <2>3, <2>4, <2>5, <2>6 DEF Arrive
  <1>5. CASE Resolve(r) \/ PeekCheckIn(r) \/ PeekOpen(r)
    <2>1. CASE Resolve(r)
      BY <1>1, <1>2, <2>1 DEF Resolve, Intent, Call
    <2>2. CASE PeekCheckIn(r)
      BY <1>1, <1>2, <2>2 DEF PeekCheckIn, Intent, Call
    <2>3. CASE PeekOpen(r)
      <3>1. PICK s : Goto(r, [req[r] EXCEPT !.pc = "period", !.peek = s, !.date = session[s].date])
        BY <2>3, Zenon DEF PeekOpen
      <3> DEFINE q == [req[r] EXCEPT !.pc = "period", !.peek = s, !.date = session[s].date]
      <3>2. q.key = req[r].key /\ q.new = req[r].new /\ q.op = req[r].op
        BY <1>1 DEF Call
      <3>3. req'[r] = q
        BY <1>2, <3>1
      <3> HIDE DEF q
      <3> QED
        BY <1>1, <3>2, <3>3 DEF Intent
    <2> QED
      BY <1>5, <2>1, <2>2, <2>3
  <1>6. CASE LockCorrection(r)
    <2> DEFINE c == correction[req[r].corr]
               t == [req[r] EXCEPT !.pc = "period", !.emp = c.emp, !.date = c.date,
                                   !.field = c.field, !.value = c.value]
    <2>1. Finish(r) \/ Goto(r, t)
      BY <1>6 DEF LockCorrection
    <2>2. t.key = req[r].key /\ t.op = req[r].op /\ t.new = req[r].new
      BY <1>1 DEF Call
    <2> HIDE DEF t
    <2> QED
      BY <1>1, <1>2, <1>3, <2>1, <2>2 DEF Intent
  <1>7. CASE LockPeriodShare(r) \/ LockPeriodExclusive(r)
    BY <1>1, <1>3, <1>7 DEF LockPeriodShare, LockPeriodExclusive, Goto, Intent, Call
  <1>8. CASE LockDay(r)
    <2> DEFINE pc == IF DaysToLock(r) # {NextDayToLock(r)} THEN "day"
                     ELSE IF LocksRow(req[r]) THEN "row" ELSE "body"
               t == [req[r] EXCEPT !.pc = pc]
    <2>1. Goto(r, t)
      BY <1>8 DEF LockDay
    <2> HIDE DEF pc
    <2>2. t.key = req[r].key /\ t.op = req[r].op /\ t.new = req[r].new
      BY <1>1 DEF Call
    <2> HIDE DEF t
    <2> QED
      BY <1>1, <1>2, <2>1, <2>2 DEF Intent
  <1>9. CASE LockOpenSession(r)
    <2>1. PICK s : \/ Goto(r, [req[r] EXCEPT !.pc = "rowWait", !.seen = s])
                   \/ Goto(r, [req[r] EXCEPT !.pc = "body", !.seen = s])
      BY <1>9 DEF LockOpenSession
    <2> DEFINE w == [req[r] EXCEPT !.pc = "rowWait", !.seen = s]
               t == [req[r] EXCEPT !.pc = "body", !.seen = s]
    <2>2. /\ w.key = req[r].key /\ w.op = req[r].op /\ w.new = req[r].new
          /\ t.key = req[r].key /\ t.op = req[r].op /\ t.new = req[r].new
      BY <1>1 DEF Call
    <2>3. Goto(r, w) \/ Goto(r, t)
      BY <2>1
    <2> HIDE DEF w, t
    <2> QED
      BY <1>1, <1>2, <2>2, <2>3 DEF Intent
  <1>10. CASE RowReleased(r)
    <2> DEFINE t == [req[r] EXCEPT !.pc = "body"]
               u == [req[r] EXCEPT !.pc = "body", !.seen = None]
    <2>1. Goto(r, t) \/ Goto(r, u)
      BY <1>10 DEF RowReleased
    <2>2. /\ t.key = req[r].key /\ t.op = req[r].op /\ t.new = req[r].new
          /\ u.key = req[r].key /\ u.op = req[r].op /\ u.new = req[r].new
      BY <1>1 DEF Call
    <2> HIDE DEF t, u
    <2> QED
      BY <1>1, <1>2, <2>1, <2>2 DEF Intent
  <1>11. CASE Body(r)
    <2>1. PICK n \in NewSession(req[r]), c \in NewCorrection(req[r]) :
             LET q == [req[r] EXCEPT !.new = n, !.corr = c] IN
             Goto(r, [q EXCEPT !.pc = "commit", !.calc = Calculated(q)])
      BY <1>11 DEF Body
    <2> DEFINE q == [req[r] EXCEPT !.new = n, !.corr = c]
               t == [q EXCEPT !.pc = "commit", !.calc = Calculated(q)]
    <2>2. q.key = req[r].key /\ q.op = req[r].op /\ q.new = n /\ q = [q EXCEPT !.new = n]
      BY <1>1 DEF Call
    <2>3. t.key = q.key /\ t.op = q.op /\ t.new = q.new
      BY <1>1, <2>2 DEF Call
    <2>4. n # None => req[r].op = "CHECK_IN"
      BY DEF NewSession
    <2>5. Intent(t)
      <3> HIDE DEF t, q
      <3> QED
        BY <1>1, <2>2, <2>3, <2>4 DEF Intent
    <2> QED
      BY <1>2, <2>1, <2>5
  <1>12. CASE Commit(r)
    BY <1>3, <1>12 DEF Commit, CommitPunch, CommitDay, CommitPeriod, CommitRequest,
                      CommitReview, Commits
  <1>13. CASE \/ PeekNothing(r) \/ ReplayUnderLock(r) \/ RefuseBody(r) \/ Abort(r)
              \/ RecalculationFailed(r) \/ DuplicateRefused(r)
    BY <1>3, <1>13 DEF PeekNothing, ReplayUnderLock, RefuseBody, Abort,
                       RecalculationFailed, DuplicateRefused
  <1> QED
    BY <1>4, <1>5, <1>6, <1>7, <1>8, <1>9, <1>10, <1>11, <1>12, <1>13 DEF Step, Acquire

\* Every step keeps the intents of all calls.
LEMMA StepIntents == TypeInv /\ Intents /\ [Next]_vars => Intents'
  <1> SUFFICES ASSUME TypeInv, Intents, [Next]_vars PROVE Intents'
    OBVIOUS
  <1>1. CASE UNCHANGED req
    BY <1>1 DEF Intents, Intent
  <1>2. ASSUME NEW r \in Requests, Arrive(r) \/ Step(r) \/ Abort(r) PROVE Intents'
    <2> SUFFICES ASSUME NEW p \in Requests PROVE Intent(req'[p])
      BY DEF Intents
    <2>1. CASE p = r
      BY <1>2, <2>1, MoverIntent
    <2>2. CASE p # r
      BY <1>2, <2>2, OthersUnmoved DEF Intents
    <2> QED
      BY <2>1, <2>2
  <1> QED
    BY <1>1, <1>2 DEF Next, Tick, vars

\* Intents holds in every reachable state.
LEMMA AlwaysIntents == Spec => []Intents
  <1>1. Init => Intents
    BY IdleIntent DEF Init, Intents
  <1> QED
    BY <1>1, AlwaysTyped, StepIntents, PTL DEF Spec

-----------------------------------------------------------------------------
(* Idempotency keys                                                        *)

\* However many retries overlap, once an event is stored under a key no call
\* that carries it changes anything: the unique index on the events' keys turns
\* away the commits that the two replay lookups did not catch.
THEOREM KeyOnce == Spec => KeyTakesEffectOnce
  <1> DEFINE Once ==
        \A r \in Requests :
          /\ req[r].key # None /\ req'[r] # req[r]
          /\ keyed[req[r].emp][req[r].key] # "NONE"
          => stored' = stored
  <1>1. TypeInv /\ Intents /\ [Next]_vars => [Once]_vars
    <2> SUFFICES ASSUME TypeInv, Intents, [Next]_vars, NEW r \in Requests,
                        req[r].key # None, req'[r] # req[r],
                        keyed[req[r].emp][req[r].key] # "NONE"
                 PROVE  stored' = stored
      OBVIOUS
    <2>1. PICK p \in Requests : Arrive(p) \/ Step(p) \/ Abort(p)
      BY DEF Next, Tick, vars
    <2>2. p = r
      BY <2>1, OthersUnmoved
    <2>3. req[r].op \in Punches
      BY DEF Intents, Intent
    <2>4. UniqueViolation(req[r])
      BY DEF UniqueViolation, NotReplayed
    <2>5. ~Commit(r)
      BY <2>3, <2>4 DEF Commit, CommitPunch, CommitDay, CommitPeriod, CommitRequest,
                        CommitReview, Commits, Punches, DayOps, PeriodOps, Reviews
    <2> QED
      BY <2>1, <2>2, <2>5, OnlyCommitStores
  <1> QED
    BY <1>1, AlwaysTyped, AlwaysIntents, PTL DEF Spec, KeyTakesEffectOnce

-----------------------------------------------------------------------------
(* Open sessions                                                           *)

\* Two open sessions of one employee are the same session.
UniqueOpen ==
    \A s, t \in SessionIds :
        session[s].status = "OPEN" /\ session[t].status = "OPEN"
        /\ session[s].emp = session[t].emp => s = t

\* What is open after a call's writes was open before and keeps its owner, or
\* is the session inserted by a check-in.
LEMMA OpenOrInserted ==
    ASSUME TypeInv, NEW q \in Call, NEW s \in SessionIds,
           SessionAfter(q)[s].status = "OPEN"
    PROVE  \/ s = q.new /\ SessionAfter(q)[s].emp = q.emp
           \/ /\ s # q.new /\ session[s].status = "OPEN"
              /\ SessionAfter(q)[s].emp = session[s].emp
              /\ q.op = "CHECK_IN" => s # q.seen
  <1>1. session[s] \in Session
    BY DEF TypeInv, TypeOK
  <1>2. CASE s = q.new
    BY <1>2 DEF SessionAfter, Inserted, NoSession
  <1>3. CASE s # q.new /\ s = q.seen
    <2>1. SessionAfter(q)[s] = Written(q, session[s])
      BY <1>3 DEF SessionAfter
    <2>2. CASE q.op = "CHECK_IN"
      BY <1>1, <2>1, <2>2 DEF Written, Session
    <2>3. CASE q.op # "CHECK_IN"
      BY <1>1, <1>3, <2>1, <2>3
      DEF Written, Session, BreakEvent
    <2> QED
      BY <2>2, <2>3
  <1>4. CASE s # q.new /\ s # q.seen
    BY <1>4 DEF SessionAfter
  <1> QED
    BY <1>2, <1>3, <1>4

\* A commit that stores sessions leaves each employee at most one open.
LEMMA UniqueOpenStored ==
    ASSUME TypeInv, Intents, UniqueOpen, NEW r \in Requests,
           CommitPunch(r) \/ CommitReview(r)
    PROVE  UniqueOpen'
  <1> DEFINE q == req[r]
  <1>1. q \in Call /\ Intent(q) /\ session' = SessionAfter(q)
    BY DEF TypeInv, TypeOK, Intents, CommitPunch, CommitReview
  <1>2. q.op = "CHECK_IN" => OpenSessions(q.emp) \subseteq {q.seen}
    BY DEF CommitPunch, CommitReview, Commits, UniqueViolation, Reviews, Punches
  <1> SUFFICES ASSUME NEW s \in SessionIds, NEW t \in SessionIds,
                      session'[s].status = "OPEN", session'[t].status = "OPEN",
                      session'[s].emp = session'[t].emp
               PROVE  s = t
    BY DEF UniqueOpen
  <1>3. ASSUME NEW x \in SessionIds, session'[x].status = "OPEN"
        PROVE  \/ x = q.new /\ session'[x].emp = q.emp
               \/ /\ x # q.new /\ session[x].status = "OPEN" /\ session'[x].emp = session[x].emp
                  /\ q.op = "CHECK_IN" => x # q.seen
    BY <1>1, <1>3, OpenOrInserted
  <1>4. ASSUME NEW x \in SessionIds, session'[x].status = "OPEN", x # q.new,
               q.op = "CHECK_IN"
        PROVE  session'[x].emp # q.emp
    BY <1>2, <1>3, <1>4 DEF OpenSessions, SessionsOf
  <1>5. q.new \in SessionIds => q.op = "CHECK_IN"
    BY <1>1, NoneAssumption DEF Intent
  <1> QED
    BY <1>3, <1>4, <1>5 DEF UniqueOpen

\* Every step keeps UniqueOpen.
LEMMA StepUniqueOpen == TypeInv /\ Intents /\ UniqueOpen /\ [Next]_vars => UniqueOpen'
  <1> SUFFICES ASSUME TypeInv, Intents, UniqueOpen, [Next]_vars PROVE UniqueOpen'
    OBVIOUS
  <1>1. CASE UNCHANGED session
    BY <1>1 DEF UniqueOpen
  <1>2. ASSUME NEW r \in Requests, Arrive(r) \/ Step(r) \/ Abort(r) PROVE UniqueOpen'
    <2>1. CASE CommitPunch(r) \/ CommitReview(r)
      BY <2>1, UniqueOpenStored
    <2>2. CASE CommitDay(r) \/ CommitPeriod(r) \/ CommitRequest(r)
      BY <1>1, <2>2 DEF CommitDay, CommitPeriod, CommitRequest
    <2>3. CASE ~Commit(r)
      BY <1>1, <1>2, <2>3, OnlyCommitStores DEF stored
    <2> QED
      BY <2>1, <2>2, <2>3 DEF Commit
  <1> QED
    BY <1>1, <1>2 DEF Next, Tick, vars, stored

\* UniqueOpen holds in every reachable state.
LEMMA AlwaysUniqueOpen == Spec => []UniqueOpen
  <1>1. Init => UniqueOpen
    BY DEF Init, UniqueOpen, NoSession
  <1> QED
    BY <1>1, AlwaysTyped, AlwaysIntents, StepUniqueOpen, PTL DEF Spec

\* However check-ins of one employee overlap, two of them never both leave a
\* session open: the partial unique index on OPEN sessions admits the commit of
\* one, which has abandoned the session it found.
THEOREM AtMostOneOpenSession == Spec => []OneOpenSession
  <1>1. UniqueOpen => OneOpenSession
    <2> SUFFICES ASSUME UniqueOpen, NEW e \in Employees
                 PROVE  Cardinality(OpenSessions(e)) <= 1
      BY DEF OneOpenSession
    <2>1. CASE OpenSessions(e) = {}
      BY <2>1, FS_EmptySet
    <2>2. CASE OpenSessions(e) # {}
      <3>1. PICK s \in OpenSessions(e) : TRUE
        BY <2>2
      <3>2. OpenSessions(e) = {s}
        BY <3>1 DEF UniqueOpen, OpenSessions, SessionsOf
      <3> QED
        BY <3>2, FS_Singleton
    <2> QED
      BY <2>1, <2>2
  <1> QED
    BY <1>1, AlwaysUniqueOpen, PTL

-----------------------------------------------------------------------------
(* Reviews.  A review past its row lock holds the correction's row, and the *)
(* correction is PENDING; a request about to commit has an id of its own.   *)

ReviewCall(q, L) ==
    /\ q.op \in Reviews /\ q.pc # "correction" =>
          CorrectionRow(q.corr) \in L /\ correction[q.corr].status = "PENDING"
    /\ q.op = "REQUEST" /\ q.corr # None =>
          q.corr \in CorrectionIds /\ correction[q.corr].status = "NONE"
    /\ q.op = "REQUEST" /\ q.pc = "commit" => q.corr # None

OwnCorrection(p, r) ==
    /\ \A c \in CorrectionIds :
          ~(CorrectionRow(c) \in locks[p] /\ CorrectionRow(c) \in locks[r])
    /\ req[p].op = "REQUEST" /\ req[r].op = "REQUEST" /\ req[p].corr # None =>
          req[p].corr # req[r].corr

ReviewInv ==
    /\ \A r \in Requests : ReviewCall(req[r], locks[r])
    /\ \A p, r \in Requests : p # r => OwnCorrection(p, r)

\* A correction's row lock is none of the other locks.
LEMMA CorrectionLockDistinct ==
    ASSUME NEW c
    PROVE  /\ \A m : CorrectionRow(c) # PeriodShare(m) /\ CorrectionRow(c) # PeriodExclusive(m)
           /\ \A e, d : CorrectionRow(c) # DayLock(e, d)
           /\ \A s : CorrectionRow(c) # SessionRow(s)
           /\ \A d : CorrectionRow(c) = CorrectionRow(d) => c = d
  BY DEF CorrectionRow, PeriodShare, PeriodExclusive, DayLock, SessionRow

\* The steps that have nothing to do with the correction of a call.
LEMMA CorrectionKept ==
    ASSUME TypeInv, NEW r \in Requests,
           \/ Resolve(r) \/ PeekCheckIn(r) \/ PeekOpen(r) \/ LockPeriodShare(r)
           \/ LockPeriodExclusive(r) \/ LockDay(r) \/ LockOpenSession(r) \/ RowReleased(r)
    PROVE  \/ Finish(r)
           \/ /\ req'[r].op = req[r].op /\ req'[r].corr = req[r].corr
              /\ req[r].pc # "correction" /\ req'[r].pc # "commit"
              /\ \A c \in CorrectionIds :
                    CorrectionRow(c) \in locks'[r] <=> CorrectionRow(c) \in locks[r]
  <1>1. /\ req \in [Requests -> Call] /\ req[r] \in Call
        /\ locks \in [Requests -> SUBSET Lock]
    BY DEF TypeInv, TypeOK
  <1>2. ASSUME NEW q, Goto(r, q) PROVE req'[r] = q
    BY <1>1, <1>2 DEF Goto
  <1>3. ASSUME NEW l, Take(r, l) PROVE locks'[r] = locks[r] \cup {l}
    BY <1>1, <1>3 DEF Take
  <1>4. CASE Resolve(r)
    <2>1. PICK prior : Goto(r, [req[r] EXCEPT !.pc = "peek",
                                              !.date = WorkDate(req[r].at, prior)])
      BY <1>4 DEF Resolve
    <2> DEFINE d == WorkDate(req[r].at, prior)
               t == [req[r] EXCEPT !.pc = "peek", !.date = d]
    <2> HIDE DEF d
    <2>2. t.op = req[r].op /\ t.corr = req[r].corr /\ t.pc = "peek"
      BY <1>1 DEF Call
    <2>3. Goto(r, t)
      BY <2>1 DEF d
    <2> HIDE DEF t
    <2> QED
      BY <1>2, <1>4, <2>2, <2>3 DEF Resolve
  <1>5. CASE PeekCheckIn(r)
    <2>1. PICK d : Goto(r, [req[r] EXCEPT !.pc = "period", !.prev = d])
      BY <1>5 DEF PeekCheckIn
    <2> DEFINE t == [req[r] EXCEPT !.pc = "period", !.prev = d]
    <2>2. t.op = req[r].op /\ t.corr = req[r].corr /\ t.pc = "period" /\ Goto(r, t)
      BY <1>1, <2>1 DEF Call
    <2> HIDE DEF t
    <2> QED
      BY <1>2, <1>5, <2>2 DEF PeekCheckIn
  <1>6. CASE PeekOpen(r)
    <2>1. PICK s, d : Goto(r, [req[r] EXCEPT !.pc = "period", !.peek = s, !.date = d])
      BY <1>6 DEF PeekOpen
    <2> DEFINE t == [req[r] EXCEPT !.pc = "period", !.peek = s, !.date = d]
    <2>2. t.op = req[r].op /\ t.corr = req[r].corr /\ t.pc = "period" /\ Goto(r, t)
      BY <1>1, <2>1 DEF Call
    <2> HIDE DEF t
    <2> QED
      BY <1>2, <1>6, <2>2 DEF PeekOpen
  <1>7. ASSUME NEW pc, pc # "commit", req[r].pc # "correction",
               Goto(r, [req[r] EXCEPT !.pc = pc]),
               \/ UNCHANGED locks
               \/ \E l : Take(r, l) /\ \A c \in CorrectionIds : CorrectionRow(c) # l
        PROVE  /\ req'[r].op = req[r].op /\ req'[r].corr = req[r].corr
               /\ req[r].pc # "correction" /\ req'[r].pc # "commit"
               /\ \A c \in CorrectionIds :
                     CorrectionRow(c) \in locks'[r] <=> CorrectionRow(c) \in locks[r]
    <2> DEFINE t == [req[r] EXCEPT !.pc = pc]
    <2>1. t.op = req[r].op /\ t.corr = req[r].corr /\ t.pc = pc /\ Goto(r, t)
      BY <1>1, <1>7 DEF Call
    <2> HIDE DEF t
    <2> QED
      BY <1>2, <1>3, <1>7, <2>1
  <1>8. CASE LockPeriodShare(r)
    BY <1>7, <1>8, CorrectionLockDistinct DEF LockPeriodShare, AfterPeriod
  <1>9. CASE LockPeriodExclusive(r)
    BY <1>7, <1>9, CorrectionLockDistinct DEF LockPeriodExclusive
  <1>10. CASE LockDay(r)
    <2> DEFINE pc == IF DaysToLock(r) # {NextDayToLock(r)} THEN "day"
                     ELSE IF LocksRow(req[r]) THEN "row" ELSE "body"
    <2>1. /\ Goto(r, [req[r] EXCEPT !.pc = pc]) /\ req[r].pc = "day"
          /\ Take(r, DayLock(req[r].emp, NextDayToLock(r))) /\ pc # "commit"
      BY <1>10 DEF LockDay
    <2> HIDE DEF pc
    <2> QED
      BY <1>7, <2>1, CorrectionLockDistinct
  <1>11. CASE LockOpenSession(r)
    <2>1. PICK s, pc :
             /\ Goto(r, [req[r] EXCEPT !.pc = pc, !.seen = s]) /\ pc \in {"rowWait", "body"}
             /\ UNCHANGED locks \/ Take(r, SessionRow(s))
      BY <1>11 DEF LockOpenSession
    <2> DEFINE t == [req[r] EXCEPT !.pc = pc, !.seen = s]
    <2>2. t.op = req[r].op /\ t.corr = req[r].corr /\ t.pc = pc /\ Goto(r, t)
      BY <1>1, <2>1 DEF Call
    <2>3. req[r].pc = "row"
      BY <1>11 DEF LockOpenSession
    <2> HIDE DEF t
    <2>4. req'[r] = t
      BY <1>2, <2>2
    <2>5. \A c \in CorrectionIds : CorrectionRow(c) \in locks'[r] <=> CorrectionRow(c) \in locks[r]
      BY <1>3, <2>1, CorrectionLockDistinct
    <2> QED
      BY <2>1, <2>2, <2>3, <2>4, <2>5
  <1>12. CASE RowReleased(r)
    <2> DEFINE t == [req[r] EXCEPT !.pc = "body", !.seen = None]
    <2>1. t.op = req[r].op /\ t.corr = req[r].corr /\ t.pc = "body"
      BY <1>1 DEF Call
    <2>2. \/ Goto(r, [req[r] EXCEPT !.pc = "body"]) /\ Take(r, SessionRow(req[r].seen))
          \/ Goto(r, t) /\ UNCHANGED locks
      BY <1>12 DEF RowReleased
    <2> HIDE DEF t
    <2> QED
      BY <1>2, <1>7, <1>12, <2>1, <2>2, CorrectionLockDistinct DEF RowReleased
  <1> QED
    BY <1>4, <1>5, <1>6, <1>8, <1>9, <1>10, <1>11, <1>12

\* A step that stores nothing keeps ReviewInv if the call that moves keeps its part.
LEMMA ReviewMove ==
    ASSUME TypeInv, ReviewInv, NEW r \in Requests, Arrive(r) \/ Step(r) \/ Abort(r),
           UNCHANGED correction, ReviewCall(req'[r], locks'[r]),
           \A p \in Requests \ {r} :
              /\ \A c \in CorrectionIds :
                    ~(CorrectionRow(c) \in locks[p] /\ CorrectionRow(c) \in locks'[r])
              /\ req[p].op = "REQUEST" /\ req'[r].op = "REQUEST" /\ req'[r].corr # None =>
                    req[p].corr # req'[r].corr
    PROVE  ReviewInv'
  <1>1. \A p \in Requests \ {r} : req'[p] = req[p] /\ locks'[p] = locks[p]
    BY OthersUnmoved
  <1>2. ASSUME NEW p \in Requests PROVE ReviewCall(req[p], locks[p])'
    BY <1>1 DEF ReviewInv, ReviewCall, CorrectionRow
  <1>3. ASSUME NEW p \in Requests, NEW q \in Requests, p # q PROVE OwnCorrection(p, q)'
    BY <1>1, <1>3 DEF ReviewInv, OwnCorrection, CorrectionRow
  <1> QED
    BY <1>2, <1>3 DEF ReviewInv

\* A call that ends without storing corrections keeps ReviewInv.
LEMMA ReviewFinish ==
    ASSUME TypeInv, ReviewInv, NEW r \in Requests, Arrive(r) \/ Step(r) \/ Abort(r),
           Finish(r), UNCHANGED correction
    PROVE  ReviewInv'
  <1>1. req'[r] = Idle /\ locks'[r] = {}
    BY DEF TypeInv, TypeOK, Finish, Goto
  <1>2. ReviewCall(Idle, {})
    BY DEF ReviewCall, Idle, Reviews
  <1>3. req'[r].op # "REQUEST"
    BY <1>1 DEF Idle
  <1>4. ReviewCall(req'[r], locks'[r])
    BY <1>1, <1>2
  <1> QED
    BY <1>1, <1>3, <1>4, ReviewMove

\* A step that has nothing to do with a call's correction keeps ReviewInv.
LEMMA ReviewKept ==
    ASSUME TypeInv, ReviewInv, NEW r \in Requests, Step(r),
           \/ Resolve(r) \/ PeekCheckIn(r) \/ PeekOpen(r) \/ LockPeriodShare(r)
           \/ LockPeriodExclusive(r) \/ LockDay(r) \/ LockOpenSession(r) \/ RowReleased(r)
    PROVE  ReviewInv'
  <1>1. UNCHANGED correction
    BY DEF Resolve, PeekCheckIn, PeekOpen, LockPeriodShare, LockPeriodExclusive, LockDay,
           LockOpenSession, RowReleased, stored
  <1>2. CASE Finish(r)
    BY <1>1, <1>2, ReviewFinish
  <1>3. CASE ~Finish(r)
    <2>1. /\ req'[r].op = req[r].op /\ req'[r].corr = req[r].corr
          /\ req[r].pc # "correction" /\ req'[r].pc # "commit"
          /\ \A c \in CorrectionIds :
                CorrectionRow(c) \in locks'[r] <=> CorrectionRow(c) \in locks[r]
      BY <1>3, CorrectionKept
    <2>2. ReviewCall(req[r], locks[r]) /\ CallTyped(req[r], locks[r])
      BY DEF ReviewInv, TypeInv, Calls
    <2>3. ReviewCall(req'[r], locks'[r])
      BY <2>1, <2>2 DEF ReviewCall, CallTyped
    <2>4. \A p \in Requests \ {r} : OwnCorrection(p, r)
      BY DEF ReviewInv
    <2> QED
      BY <1>1, <2>1, <2>3, <2>4, ReviewMove DEF OwnCorrection
  <1> QED
    BY <1>2, <1>3

\* An arriving call holds no lock and has no correction of its own.
LEMMA ReviewArrive ==
    ASSUME TypeInv, ReviewInv, NEW r \in Requests, Arrive(r)
    PROVE  ReviewInv'
  <1>1. req \in [Requests -> Call] /\ CallTyped(req[r], locks[r])
    BY DEF TypeInv, TypeOK, Calls
  <1>2. UNCHANGED <<correction, locks>> /\ req[r] = Idle
    BY DEF Arrive, ArriveCheckIn, ArrivePunch, ArriveDay, ArrivePeriod, ArriveRequest,
           ArriveReview, Start, stored
  <1>3. /\ req'[r].op \in Reviews => req'[r].pc = "correction"
        /\ req'[r].op = "REQUEST" => req'[r].corr = None /\ req'[r].pc # "commit"
    <2>1. ASSUME NEW e \in Employees, NEW k \in Keys \cup {None}, ArriveCheckIn(r, e, k)
          PROVE  req'[r].op \notin Reviews \cup {"REQUEST"}
      BY <1>1, <2>1 DEF ArriveCheckIn, Start, Goto, Idle, Reviews
    <2>2. ASSUME NEW op \in Punches, NEW e \in Employees, NEW k \in Keys \cup {None},
                 ArrivePunch(r, op, e, k)
          PROVE  req'[r].op \notin Reviews \cup {"REQUEST"}
      BY <1>1, <2>2 DEF ArrivePunch, Start, Goto, Idle, Reviews, Punches
    <2>3. ASSUME NEW op \in DayOps, NEW e \in Employees, NEW d \in Dates,
                 ArriveDay(r, op, e, d)
          PROVE  req'[r].op \notin Reviews \cup {"REQUEST"}
      BY <1>1, <2>3 DEF ArriveDay, Start, Goto, Idle, Reviews, DayOps
    <2>4. ASSUME NEW op \in PeriodOps, NEW d \in Dates, ArrivePeriod(r, op, d)
          PROVE  req'[r].op \notin Reviews \cup {"REQUEST"}
      BY <1>1, <2>4 DEF ArrivePeriod, Start, Goto, Idle, Reviews, PeriodOps
    <2>5. ASSUME NEW e \in Employees, NEW d \in Dates, NEW f \in Fields,
                 NEW v \in 0..LastTime, ArriveRequest(r, e, d, f, v)
          PROVE  req'[r].op = "REQUEST" /\ req'[r].corr = None /\ req'[r].pc # "commit"
      BY <1>1, <2>5 DEF ArriveRequest, Start, Goto, Idle
    <2>6. ASSUME NEW op \in Reviews, NEW c \in CorrectionIds, ArriveReview(r, op, c)
          PROVE  req'[r].op \in Reviews /\ req'[r].pc = "correction"
      BY <1>1, <2>6 DEF ArriveReview, Start, Goto, Idle
    <2> QED
      BY <2>1, <2>2, <2>3, <2>4, <2>5, <2>6 DEF Arrive, Reviews
  <1>4. ReviewCall(req'[r], locks'[r])
    BY <1>3 DEF ReviewCall, Reviews
  <1>5. \A p \in Requests \ {r} : OwnCorrection(p, r)
    BY DEF ReviewInv
  <1> QED
    BY <1>2, <1>3, <1>4, <1>5, ReviewMove DEF OwnCorrection

\* The row lock: the correction is PENDING and nobody else holds its row.
LEMMA ReviewLock ==
    ASSUME TypeInv, ReviewInv, NEW r \in Requests, Step(r), LockCorrection(r)
    PROVE  ReviewInv'
  <1> DEFINE q == req[r]
             c == correction[q.corr]
             t == [q EXCEPT !.pc = "period", !.emp = c.emp, !.date = c.date,
                            !.field = c.field, !.value = c.value]
  <1>1. /\ req \in [Requests -> Call] /\ q \in Call /\ CallTyped(q, locks[r])
        /\ locks \in [Requests -> SUBSET Lock]
    BY DEF TypeInv, TypeOK, Calls
  <1>2. /\ q.pc = "correction" /\ Blockers(r) = {} /\ UNCHANGED correction
        /\ q.op \in Reviews /\ q.corr \in CorrectionIds
    BY <1>1 DEF LockCorrection, stored, CallTyped
  <1>3. CASE c.status # "PENDING"
    BY <1>2, <1>3, ReviewFinish DEF LockCorrection
  <1>4. CASE c.status = "PENDING"
    <2>1. Goto(r, t) /\ Take(r, CorrectionRow(q.corr))
      BY <1>4 DEF LockCorrection
    <2>2. t.op = q.op /\ t.corr = q.corr /\ t.pc = "period"
      BY <1>1 DEF Call
    <2> HIDE DEF t
    <2>3. req'[r] = t /\ locks'[r] = locks[r] \cup {CorrectionRow(q.corr)}
      BY <1>1, <2>1 DEF Goto, Take
    <2>4. \A p \in Requests \ {r} : CorrectionRow(q.corr) \notin locks[p]
      BY <1>2 DEF Blockers, Wanted
    <2>5. ReviewCall(req'[r], locks'[r])
      BY <1>2, <1>4, <2>2, <2>3 DEF ReviewCall, Reviews
    <2>6. \A p \in Requests \ {r} : OwnCorrection(p, r)
      BY DEF ReviewInv
    <2>7. req'[r].op # "REQUEST"
      BY <1>2, <2>2, <2>3 DEF Reviews
    <2> QED
      BY <1>2, <2>3, <2>4, <2>5, <2>6, <2>7, CorrectionLockDistinct, ReviewMove
      DEF OwnCorrection
  <1> QED
    BY <1>3, <1>4

\* The body of a request takes an id that no correction and no other call has.
LEMMA ReviewBody ==
    ASSUME TypeInv, ReviewInv, NEW r \in Requests, Step(r), Body(r)
    PROVE  ReviewInv'
  <1>1. req \in [Requests -> Call] /\ req[r] \in Call /\ ReviewCall(req[r], locks[r])
    BY DEF TypeInv, TypeOK, ReviewInv
  <1>2. PICK n \in NewSession(req[r]), c \in NewCorrection(req[r]) :
           LET q == [req[r] EXCEPT !.new = n, !.corr = c] IN
           Goto(r, [q EXCEPT !.pc = "commit", !.calc = Calculated(q)])
    BY DEF Body
  <1> DEFINE q == [req[r] EXCEPT !.new = n, !.corr = c]
             t == [q EXCEPT !.pc = "commit", !.calc = Calculated(q)]
  <1>3. q.op = req[r].op /\ q.corr = c /\ q = [q EXCEPT !.new = n]
    BY <1>1 DEF Call
  <1>4. t.op = req[r].op /\ t.corr = c /\ t.pc = "commit"
    BY <1>1, <1>3 DEF Call
  <1>5. Goto(r, t) /\ UNCHANGED <<correction, locks>> /\ req[r].pc = "body"
    BY <1>2 DEF Body, stored
  <1> HIDE DEF t, q
  <1>6. req'[r] = t
    BY <1>1, <1>5 DEF Goto
  <1>7. IF req[r].op = "REQUEST" THEN c \in FreshCorrections ELSE c = req[r].corr
    BY DEF NewCorrection
  <1>8. ReviewCall(req'[r], locks'[r])
    BY <1>1, <1>4, <1>5, <1>6, <1>7, NoneAssumption
    DEF ReviewCall, FreshCorrections, Reviews
  <1>9. \A p \in Requests \ {r} : OwnCorrection(p, r)
    BY DEF ReviewInv
  <1>10. req'[r].op = "REQUEST" => \A p \in Requests : req[p].corr # req'[r].corr
    BY <1>4, <1>6, <1>7 DEF FreshCorrections
  <1> QED
    BY <1>5, <1>8, <1>9, <1>10, ReviewMove DEF OwnCorrection

\* A commit changes one correction, which is no other call's.
LEMMA ReviewCommit ==
    ASSUME TypeInv, ReviewInv, NEW r \in Requests, Step(r),
           CommitRequest(r) \/ CommitReview(r)
    PROVE  /\ ReviewInv'
           /\ \A c \in CorrectionIds :
                 correction[c].status \in {"APPROVED", "REJECTED"} =>
                     correction'[c] = correction[c]
  <1> DEFINE q == req[r]
  <1>1. /\ q.pc = "commit" /\ q.op \in Reviews \cup {"REQUEST"} /\ Finish(r)
        /\ correction' = CorrectionAfter(q)
    BY DEF CommitRequest, CommitReview, Commits
  <1>2. q \in Call /\ ReviewCall(q, locks[r]) /\ CallTyped(q, locks[r])
        /\ correction \in [CorrectionIds -> Correction]
    BY DEF TypeInv, TypeOK, Calls, ReviewInv
  <1>3. q.corr \in CorrectionIds
    BY <1>1, <1>2 DEF ReviewCall, CallTyped
  <1>4. correction[q.corr].status \in {"NONE", "PENDING"}
    BY <1>1, <1>2 DEF ReviewCall
  <1>5. \A c \in CorrectionIds : c # q.corr => correction'[c] = correction[c]
    BY <1>1, <1>2, <1>3 DEF CorrectionAfter, Reviews
  <1>6. /\ req'[r] = Idle /\ locks'[r] = {}
        /\ \A p \in Requests \ {r} : req'[p] = req[p] /\ locks'[p] = locks[p]
    BY <1>1 DEF Finish, Goto, TypeInv, TypeOK
  <1>7. ASSUME NEW p \in Requests \ {r}, \/ req[p].op \in Reviews /\ req[p].pc # "correction"
                                         \/ req[p].op = "REQUEST" /\ req[p].corr # None
        PROVE  req[p].corr # q.corr
    <2>1. ReviewCall(req[p], locks[p]) /\ OwnCorrection(p, r)
      BY DEF ReviewInv
    <2>2. CASE q.op = "REQUEST"
      BY <1>1, <1>2, <1>7, <2>1, <2>2 DEF ReviewCall, OwnCorrection
    <2>3. CASE q.op \in Reviews
      BY <1>1, <1>2, <1>3, <1>7, <2>1, <2>3 DEF ReviewCall, OwnCorrection
    <2> QED
      BY <1>1, <2>2, <2>3
  <1>8. ASSUME NEW p \in Requests PROVE ReviewCall(req[p], locks[p])'
    <2>1. CASE p = r
      BY <1>6, <2>1 DEF ReviewCall, Idle, Reviews
    <2>2. CASE p # r
      <3>1. ReviewCall(req[p], locks[p]) /\ CallTyped(req[p], locks[p])
        BY DEF ReviewInv, TypeInv, Calls
      <3> QED
        BY <1>5, <1>6, <1>7, <2>2, <3>1 DEF ReviewCall, CallTyped, CorrectionRow
    <2> QED
      BY <2>1, <2>2
  <1>9. ASSUME NEW p \in Requests, NEW w \in Requests, p # w PROVE OwnCorrection(p, w)'
    BY <1>6, <1>9 DEF ReviewInv, OwnCorrection, CorrectionRow, Idle
  <1> QED
    BY <1>4, <1>5, <1>8, <1>9 DEF ReviewInv

\* Every step keeps ReviewInv and every decided correction.
LEMMA StepReview ==
    TypeInv /\ ReviewInv /\ [Next]_vars =>
        /\ ReviewInv'
        /\ \A c \in CorrectionIds :
              correction[c].status \in {"APPROVED", "REJECTED"} =>
                  correction'[c] = correction[c]
  <1> DEFINE Kept == \A c \in CorrectionIds :
                        correction[c].status \in {"APPROVED", "REJECTED"} =>
                            correction'[c] = correction[c]
  <1> SUFFICES ASSUME TypeInv, ReviewInv, [Next]_vars PROVE ReviewInv' /\ Kept
    OBVIOUS
  <1>1. CASE UNCHANGED <<correction, req, locks>>
    BY <1>1 DEF ReviewInv, ReviewCall, OwnCorrection, CorrectionRow
  <1>2. ASSUME NEW r \in Requests, Arrive(r) \/ Step(r) \/ Abort(r)
        PROVE  ReviewInv' /\ Kept
    <2>1. CASE CommitRequest(r) \/ CommitReview(r)
      BY <2>1, ReviewCommit DEF Step, Commit
    <2>2. CASE CommitPunch(r) \/ CommitDay(r) \/ CommitPeriod(r)
      <3>1. Finish(r) /\ UNCHANGED correction
        BY <2>2 DEF CommitPunch, CommitDay, CommitPeriod, Commits
      <3> QED
        BY <1>2, <3>1, ReviewFinish
    <2>3. CASE ~Commit(r)
      <3>1. UNCHANGED correction
        BY <1>2, <2>3, OnlyCommitStores DEF stored
      <3>2. CASE Arrive(r)
        BY <3>1, <3>2, ReviewArrive
      <3>3. CASE Finish(r)
        BY <1>2, <3>1, <3>3, ReviewFinish
      <3>4. CASE Step(r) /\ ~Finish(r)
        BY <2>3, <3>1, <3>4, ReviewKept, ReviewLock, ReviewBody
        DEF Step, Acquire, PeekNothing, ReplayUnderLock, RefuseBody, RecalculationFailed,
            DuplicateRefused
      <3> QED
        BY <1>2, <3>2, <3>3, <3>4 DEF Abort
    <2> QED
      BY <2>1, <2>2, <2>3 DEF Commit
  <1> QED
    BY <1>1, <1>2 DEF Next, Tick, vars, stored

\* ReviewInv holds in every reachable state.
LEMMA AlwaysReview == Spec => []ReviewInv
  <1>1. Init => ReviewInv
    BY DEF Init, ReviewInv, ReviewCall, OwnCorrection, Idle, Reviews
  <1> QED
    BY <1>1, AlwaysTyped, StepReview, PTL DEF Spec

\* However many reviewers decide a correction at the same time, one decision is
\* stored and it stays: a review holds the correction's row from its PENDING check
\* to its commit.
THEOREM ReviewedAtMostOnce == Spec => ReviewedOnce
  <1> DEFINE Kept == \A c \in CorrectionIds :
                        correction[c].status \in {"APPROVED", "REJECTED"} =>
                            correction'[c] = correction[c]
  <1>1. TypeInv /\ ReviewInv /\ [Next]_vars => [Kept]_vars
    BY StepReview
  <1> QED
    BY <1>1, AlwaysTyped, AlwaysReview, PTL DEF Spec, ReviewedOnce

-----------------------------------------------------------------------------
(* The inductive invariants                                                *)

\* The calls that lock days.
LocksDays(q) == q.op \notin PeriodOps \cup {"REJECT"}

DaysLocked(q) == LocksDays(q) /\ q.pc \in {"row", "rowWait", "body", "commit"}

\* Which locks a call holds at which stage: it takes them in one fixed order.
Held(q, L) ==
    /\ \A c : CorrectionRow(c) \in L => q.pc \notin {"idle", "correction"}
    /\ \A m : PeriodShare(m) \in L \/ PeriodExclusive(m) \in L => q.pc \in Inside
    /\ \A e, d : DayLock(e, d) \in L => e = q.emp /\ d \in DaysOf(q)
    /\ \A d, x \in DaysOf(q) : DayLock(q.emp, d) \in L /\ DayLock(q.emp, x) \notin L => d < x
    /\ \A s : SessionRow(s) \in L => q.pc \in {"body", "commit"}
    /\ DaysLocked(q) => \A d \in DaysOf(q) : DayLock(q.emp, d) \in L

\* No two calls hold the lock of the same day or the row of the same session.
Exclusion ==
    \A r, p \in Requests : r # p =>
        /\ \A e, d : ~(DayLock(e, d) \in locks[r] /\ DayLock(e, d) \in locks[p])
        /\ \A s : ~(SessionRow(s) \in locks[r] /\ SessionRow(s) \in locks[p])

LockInv == Exclusion /\ \A r \in Requests : Held(req[r], locks[r])

\* A row that is not used yet is empty.
UnusedEmpty ==
    /\ \A s \in SessionIds : session[s].status = "NONE" => session[s] = NoSession
    /\ \A c \in CorrectionIds : correction[c].status = "NONE" => correction[c] = NoCorrection

\* The session a call peeked at, without any lock, keeps its owner and date.
PeekedAt(q) ==
    /\ q.pc \in {"resolve", "peek"} => q.peek = None /\ q.op \in Punches
    /\ q.peek # None =>
          /\ q.peek \in SessionIds /\ q.op \in Punches \ {"CHECK_IN"}
          /\ session[q.peek].status # "NONE"
          /\ session[q.peek].emp = q.emp /\ session[q.peek].date = q.date

\* The session a call has locked is open until the call ends.
HasSeen(q, L) ==
    /\ q.pc \notin {"rowWait", "body", "commit"} => q.seen = None
    /\ q.pc \in {"row", "rowWait"} => LocksRow(q)
    /\ q.seen # None => /\ q.seen \in SessionIds /\ LocksRow(q)
                        /\ session[q.seen].status # "NONE" /\ session[q.seen].emp = q.emp
    /\ q.seen # None /\ q.pc \in {"body", "commit"} =>
          SessionRow(q.seen) \in L /\ session[q.seen].status = "OPEN"

\* What the body has validated and chosen still holds at the commit.
Validated(q) ==
    /\ q.pc # "commit" => q.new = None
    /\ q.new # None => q.new \in SessionIds /\ session[q.new].status = "NONE"
    /\ q.pc = "commit" /\ q.op = "CHECK_IN" =>
          q.new # None /\ (q.seen # None => session[q.seen].date = q.prev)
    /\ q.pc = "commit" /\ q.op \in Punches \ {"CHECK_IN"} => PunchAllows(q)

\* A review acts on the employee and the day its correction names.
ReviewTarget(q) ==
    q.op \in Reviews /\ q.pc # "correction" =>
        /\ q.emp = correction[q.corr].emp /\ q.date = correction[q.corr].date
        /\ q.field = correction[q.corr].field /\ q.value = correction[q.corr].value

\* No two calls are about to insert the same session.
OwnSession ==
    \A r, p \in Requests : r # p /\ req[r].new # None => req[r].new # req[p].new

\* The days whose record a call is about to write are the one it acts on and that
\* of the session it abandons.
Calculates(q) ==
    q.pc = "commit" =>
        \A d \in Dates : q.calc[d] # None =>
            /\ q.op \in Punches \cup DayOps \cup {"APPROVE"}
            /\ d = q.date \/ (q.op = "CHECK_IN" /\ q.seen # None /\ d = q.prev)

CallKept(q, L) ==
    PeekedAt(q) /\ HasSeen(q, L) /\ Validated(q) /\ ReviewTarget(q) /\ Calculates(q)

SessionInv ==
    /\ UnusedEmpty /\ OwnSession
    /\ \A r \in Requests : CallKept(req[r], locks[r])

\* The days whose sessions or approved corrections a call changes.
Writes(q) ==
    IF q.op \notin Punches \cup {"APPROVE"} THEN {}
    ELSE IF q.op = "CHECK_IN" /\ q.seen # None THEN {q.date, q.prev} ELSE {q.date}

\* The records about to be written are what the calculation gives for the rows as
\* they will be, and no record of a day the call changes is left out.
Prepared(q) ==
    q.pc = "commit" =>
        /\ \A d \in Dates : q.calc[d] # None =>
              q.calc[d] = DayInputs(SessionAfter(q), CorrectionAfter(q), q.emp, d)
        /\ \A d \in Dates : d \in Writes(q) /\ record[q.emp][d] # None => q.calc[d] # None

\* A request about to commit has no live rival for its target.
Unrivalled(q) ==
    q.pc = "commit" /\ q.op = "REQUEST" =>
        \A c \in CorrectionIds :
            ~ /\ correction[c].status \in {"PENDING", "APPROVED"}
              /\ correction[c].emp = q.emp /\ correction[c].date = q.date
              /\ correction[c].field = q.field

RecordInv ==
    /\ RecordFresh /\ OneLiveCorrection
    /\ \A r \in Requests : Prepared(req[r]) /\ Unrivalled(req[r])

-----------------------------------------------------------------------------
(* How a call moves.  One lemma per action: what it changes of the call.    *)

\* What identifies a call, where it acts, and what it has found and chosen.
SameOrigin(q, t) == t.op = q.op /\ t.key = q.key /\ t.at = q.at
SamePlace(q, t) ==
    /\ t.emp = q.emp /\ t.date = q.date /\ t.prev = q.prev
    /\ t.field = q.field /\ t.value = q.value
SameFinds(q, t) == t.peek = q.peek /\ t.seen = q.seen /\ t.new = q.new /\ t.corr = q.corr

\* The call that goes to a stage is at that stage.
LEMMA GotoIs ==
    ASSUME TypeInv, NEW r \in Requests, NEW q, Goto(r, q)
    PROVE  req'[r] = q
  BY DEF TypeInv, TypeOK, Goto

\* Taking a lock adds it to those the call holds.
LEMMA TakeIs ==
    ASSUME TypeInv, NEW r \in Requests, NEW l, Take(r, l)
    PROVE  locks'[r] = locks[r] \cup {l}
  BY DEF TypeInv, TypeOK, Take

\* A call that ends leaves its slot idle and drops its locks.
LEMMA FinishIs ==
    ASSUME TypeInv, NEW r \in Requests, Finish(r)
    PROVE  req'[r] = Idle /\ locks'[r] = {}
  BY DEF TypeInv, TypeOK, Finish, Goto

\* What each action leaves of the call it moves.
LEMMA ResolveMoves ==
    ASSUME TypeInv, NEW r \in Requests, Resolve(r)
    PROVE  /\ req[r].pc = "resolve" /\ req'[r].pc = "peek" /\ UNCHANGED <<stored, locks>>
           /\ SameOrigin(req[r], req'[r]) /\ SameFinds(req[r], req'[r])
           /\ req'[r].emp = req[r].emp /\ req'[r].prev = req[r].prev
           /\ \E prior \in FindMostRecentForEmployee(req[r].emp) :
                 req'[r].date = WorkDate(req[r].at, prior)
  <1> DEFINE q == req[r]
  <1>1. q \in Call
    BY DEF TypeInv, TypeOK
  <1>2. PICK prior \in FindMostRecentForEmployee(q.emp) :
           Goto(r, [q EXCEPT !.pc = "peek", !.date = WorkDate(q.at, prior)])
    BY DEF Resolve
  <1> DEFINE d == WorkDate(q.at, prior)
             t == [q EXCEPT !.pc = "peek", !.date = d]
  <1>3. req'[r] = t
    BY <1>2, GotoIs
  <1> HIDE DEF d
  <1>4. /\ t.pc = "peek" /\ t.date = d /\ SameOrigin(q, t) /\ SameFinds(q, t)
        /\ t.emp = q.emp /\ t.prev = q.prev
    BY <1>1 DEF Call, SameOrigin, SameFinds
  <1> HIDE DEF t
  <1> QED
    BY <1>2, <1>3, <1>4 DEF Resolve, d

\* What a check-in's unlocked peek leaves of the call.
LEMMA PeekCheckInMoves ==
    ASSUME TypeInv, NEW r \in Requests, PeekCheckIn(r)
    PROVE  /\ req[r].pc = "peek" /\ req'[r].pc = "period" /\ UNCHANGED <<stored, locks>>
           /\ SameOrigin(req[r], req'[r]) /\ SameFinds(req[r], req'[r])
           /\ req'[r].emp = req[r].emp /\ req'[r].date = req[r].date
  <1> DEFINE q == req[r]
  <1>1. q \in Call
    BY DEF TypeInv, TypeOK
  <1>2. PICK d : Goto(r, [q EXCEPT !.pc = "period", !.prev = d])
    BY DEF PeekCheckIn
  <1> DEFINE t == [q EXCEPT !.pc = "period", !.prev = d]
  <1>3. req'[r] = t
    BY <1>2, GotoIs
  <1>4. /\ t.pc = "period" /\ SameOrigin(q, t) /\ SameFinds(q, t)
        /\ t.emp = q.emp /\ t.date = q.date
    BY <1>1 DEF Call, SameOrigin, SameFinds
  <1> HIDE DEF t
  <1> QED
    BY <1>3, <1>4 DEF PeekCheckIn

\* What the peek of any other punch leaves of the call.
LEMMA PeekOpenMoves ==
    ASSUME TypeInv, NEW r \in Requests, PeekOpen(r)
    PROVE  /\ req[r].pc = "peek" /\ req'[r].pc = "period" /\ UNCHANGED <<stored, locks>>
           /\ req[r].op # "CHECK_IN" /\ SameOrigin(req[r], req'[r])
           /\ req'[r].emp = req[r].emp /\ req'[r].prev = req[r].prev
           /\ req'[r].seen = req[r].seen /\ req'[r].new = req[r].new /\ req'[r].corr = req[r].corr
           /\ req'[r].peek \in OpenSessions(req[r].emp)
           /\ req'[r].date = session[req'[r].peek].date
  <1> DEFINE q == req[r]
  <1>1. q \in Call
    BY DEF TypeInv, TypeOK
  <1>2. PICK s \in OpenSessions(q.emp) :
           Goto(r, [q EXCEPT !.pc = "period", !.peek = s, !.date = session[s].date])
    BY DEF PeekOpen
  <1> DEFINE d == session[s].date
             t == [q EXCEPT !.pc = "period", !.peek = s, !.date = d]
  <1>3. req'[r] = t
    BY <1>2, GotoIs
  <1> HIDE DEF d
  <1>4. /\ t.pc = "period" /\ SameOrigin(q, t) /\ t.emp = q.emp /\ t.prev = q.prev
        /\ t.seen = q.seen /\ t.new = q.new /\ t.corr = q.corr /\ t.peek = s /\ t.date = d
    BY <1>1 DEF Call, SameOrigin
  <1> HIDE DEF t
  <1> QED
    BY <1>2, <1>3, <1>4 DEF PeekOpen, d

\* A review goes on with the row of its correction locked.
LEMMA LockCorrectionMoves ==
    ASSUME TypeInv, NEW r \in Requests, LockCorrection(r), ~Finish(r)
    PROVE  /\ req[r].pc = "correction" /\ req'[r].pc = "period" /\ UNCHANGED stored
           /\ req[r].corr \in CorrectionIds
           /\ locks'[r] = locks[r] \cup {CorrectionRow(req[r].corr)}
           /\ SameOrigin(req[r], req'[r]) /\ SameFinds(req[r], req'[r])
           /\ req'[r].prev = req[r].prev
           /\ req'[r].emp = correction[req[r].corr].emp
           /\ req'[r].date = correction[req[r].corr].date
           /\ req'[r].field = correction[req[r].corr].field
           /\ req'[r].value = correction[req[r].corr].value
  <1> DEFINE q == req[r]
             c == correction[q.corr]
             t == [q EXCEPT !.pc = "period", !.emp = c.emp, !.date = c.date,
                            !.field = c.field, !.value = c.value]
  <1>1. q \in Call /\ CallTyped(q, locks[r])
    BY DEF TypeInv, TypeOK, Calls
  <1>2. q.pc = "correction" /\ q.corr \in CorrectionIds
    BY <1>1 DEF LockCorrection, CallTyped
  <1>3. Goto(r, t) /\ Take(r, CorrectionRow(q.corr)) /\ UNCHANGED stored
    BY DEF LockCorrection
  <1>4. /\ t.pc = "period" /\ SameOrigin(q, t) /\ SameFinds(q, t) /\ t.prev = q.prev
        /\ t.emp = c.emp /\ t.date = c.date /\ t.field = c.field /\ t.value = c.value
    BY <1>1 DEF Call, SameOrigin, SameFinds
  <1>5. req'[r] = t /\ locks'[r] = locks[r] \cup {CorrectionRow(q.corr)}
    BY <1>3, GotoIs, TakeIs
  <1> HIDE DEF t
  <1> QED
    BY <1>2, <1>3, <1>4, <1>5

\* A call goes on with its month's lock shared.
LEMMA LockPeriodShareMoves ==
    ASSUME TypeInv, NEW r \in Requests, LockPeriodShare(r), ~Finish(r)
    PROVE  /\ req[r].pc = "period" /\ req[r].op \notin PeriodOps /\ UNCHANGED stored
           /\ req'[r].pc = AfterPeriod(req[r])
           /\ locks'[r] = locks[r] \cup {PeriodShare(MonthOf[req[r].date])}
           /\ SameOrigin(req[r], req'[r]) /\ SamePlace(req[r], req'[r]) /\ SameFinds(req[r], req'[r])
  <1> DEFINE q == req[r]
  <1>1. q \in Call
    BY DEF TypeInv, TypeOK
  <1> DEFINE t == [q EXCEPT !.pc = AfterPeriod(q)]
  <1>2. /\ Goto(r, t) /\ Take(r, PeriodShare(MonthOf[q.date]))
        /\ q.pc = "period" /\ q.op \notin PeriodOps /\ UNCHANGED stored
    BY DEF LockPeriodShare
  <1>3. t.pc = AfterPeriod(q) /\ SameOrigin(q, t) /\ SamePlace(q, t) /\ SameFinds(q, t)
    BY <1>1 DEF Call, SameOrigin, SamePlace, SameFinds
  <1> HIDE DEF t
  <1> QED
    BY <1>2, <1>3, GotoIs, TakeIs

\* Closing or reopening goes on with its month's lock alone.
LEMMA LockPeriodExclusiveMoves ==
    ASSUME TypeInv, NEW r \in Requests, LockPeriodExclusive(r)
    PROVE  /\ req[r].pc = "period" /\ req[r].op \in PeriodOps /\ UNCHANGED stored
           /\ req'[r].pc = "body"
           /\ locks'[r] = locks[r] \cup {PeriodExclusive(MonthOf[req[r].date])}
           /\ SameOrigin(req[r], req'[r]) /\ SamePlace(req[r], req'[r]) /\ SameFinds(req[r], req'[r])
  <1> DEFINE q == req[r]
  <1>1. q \in Call
    BY DEF TypeInv, TypeOK
  <1> DEFINE t == [q EXCEPT !.pc = "body"]
  <1>2. /\ Goto(r, t) /\ Take(r, PeriodExclusive(MonthOf[q.date]))
        /\ q.pc = "period" /\ q.op \in PeriodOps /\ UNCHANGED stored
    BY DEF LockPeriodExclusive
  <1>3. t.pc = "body" /\ SameOrigin(q, t) /\ SamePlace(q, t) /\ SameFinds(q, t)
    BY <1>1 DEF Call, SameOrigin, SamePlace, SameFinds
  <1> HIDE DEF t
  <1> QED
    BY <1>2, <1>3, GotoIs, TakeIs

\* A call locks one more of its days, the earliest that it lacks.
LEMMA LockDayMoves ==
    ASSUME TypeInv, NEW r \in Requests, LockDay(r)
    PROVE  /\ req[r].pc = "day" /\ UNCHANGED stored
           /\ req'[r].pc = IF DaysToLock(r) # {NextDayToLock(r)} THEN "day"
                           ELSE IF LocksRow(req[r]) THEN "row" ELSE "body"
           /\ locks'[r] = locks[r] \cup {DayLock(req[r].emp, NextDayToLock(r))}
           /\ SameOrigin(req[r], req'[r]) /\ SamePlace(req[r], req'[r]) /\ SameFinds(req[r], req'[r])
  <1> DEFINE q == req[r]
             pc == IF DaysToLock(r) # {NextDayToLock(r)} THEN "day"
                   ELSE IF LocksRow(q) THEN "row" ELSE "body"
             t == [q EXCEPT !.pc = pc]
  <1>1. q \in Call
    BY DEF TypeInv, TypeOK
  <1>2. /\ Goto(r, t) /\ Take(r, DayLock(q.emp, NextDayToLock(r)))
        /\ q.pc = "day" /\ UNCHANGED stored
    BY DEF LockDay
  <1> HIDE DEF pc
  <1>3. t.pc = pc /\ SameOrigin(q, t) /\ SamePlace(q, t) /\ SameFinds(q, t)
    BY <1>1 DEF Call, SameOrigin, SamePlace, SameFinds
  <1> HIDE DEF t
  <1> QED
    BY <1>2, <1>3, GotoIs, TakeIs DEF pc

\* A call goes on with the row of the open session it found, waits for it, or found none.
LEMMA LockOpenSessionMoves ==
    ASSUME TypeInv, NEW r \in Requests, LockOpenSession(r)
    PROVE  /\ req[r].pc = "row" /\ UNCHANGED stored
           /\ NotReplayed(req[r].emp, req[r].key)
           /\ req'[r].seen \in FindOpenForEmployee(req[r].emp)
           /\ \/ req'[r].pc = "rowWait" /\ req'[r].seen # None /\ UNCHANGED locks
              \/ req'[r].pc = "body" /\ req'[r].seen = None /\ UNCHANGED locks
              \/ /\ req'[r].pc = "body" /\ req'[r].seen # None
                 /\ ~HeldByOther(r, SessionRow(req'[r].seen))
                 /\ locks'[r] = locks[r] \cup {SessionRow(req'[r].seen)}
           /\ SameOrigin(req[r], req'[r]) /\ SamePlace(req[r], req'[r])
           /\ req'[r].peek = req[r].peek /\ req'[r].new = req[r].new /\ req'[r].corr = req[r].corr
  <1> DEFINE q == req[r]
  <1>1. q \in Call
    BY DEF TypeInv, TypeOK
  <1>2. q.pc = "row" /\ NotReplayed(q.emp, q.key) /\ UNCHANGED stored
    BY DEF LockOpenSession
  <1>3. PICK s \in FindOpenForEmployee(q.emp) :
           IF s # None /\ HeldByOther(r, SessionRow(s))
           THEN /\ Goto(r, [q EXCEPT !.pc = "rowWait", !.seen = s])
                /\ UNCHANGED locks
           ELSE /\ Goto(r, [q EXCEPT !.pc = "body", !.seen = s])
                /\ IF s = None THEN UNCHANGED locks ELSE Take(r, SessionRow(s))
    BY DEF LockOpenSession
  <1> DEFINE pc == IF s # None /\ HeldByOther(r, SessionRow(s)) THEN "rowWait" ELSE "body"
             t == [q EXCEPT !.pc = pc, !.seen = s]
  <1>4. Goto(r, t)
    BY <1>3
  <1>5. IF s # None /\ ~HeldByOther(r, SessionRow(s)) THEN Take(r, SessionRow(s)) ELSE UNCHANGED locks
    BY <1>3
  <1> HIDE DEF pc
  <1>6. /\ t.pc = pc /\ t.seen = s /\ SameOrigin(q, t) /\ SamePlace(q, t)
        /\ t.peek = q.peek /\ t.new = q.new /\ t.corr = q.corr
    BY <1>1 DEF Call, SameOrigin, SamePlace
  <1> HIDE DEF t
  <1>7. req'[r] = t
    BY <1>4, GotoIs
  <1>8. CASE s # None /\ ~HeldByOther(r, SessionRow(s))
    <2>1. locks'[r] = locks[r] \cup {SessionRow(s)} /\ pc = "body"
      BY <1>5, <1>8, TakeIs DEF pc
    <2> QED
      BY <1>2, <1>6, <1>7, <1>8, <2>1
  <1>9. CASE ~(s # None /\ ~HeldByOther(r, SessionRow(s)))
    <2>1. UNCHANGED locks /\ (IF s = None THEN pc = "body" ELSE pc = "rowWait")
      BY <1>5, <1>9 DEF pc
    <2> QED
      BY <1>2, <1>6, <1>7, <2>1
  <1> QED
    BY <1>8, <1>9

\* A call that waited for a row goes on with it, or found it no longer open.
LEMMA RowReleasedMoves ==
    ASSUME TypeInv, NEW r \in Requests, RowReleased(r)
    PROVE  /\ req[r].pc = "rowWait" /\ req[r].seen \in SessionIds /\ UNCHANGED stored
           /\ Blockers(r) = {} /\ req'[r].pc = "body"
           /\ SameOrigin(req[r], req'[r]) /\ SamePlace(req[r], req'[r])
           /\ req'[r].peek = req[r].peek /\ req'[r].new = req[r].new /\ req'[r].corr = req[r].corr
           /\ \/ /\ session[req[r].seen].status = "OPEN" /\ req'[r].seen = req[r].seen
                 /\ locks'[r] = locks[r] \cup {SessionRow(req[r].seen)}
              \/ /\ session[req[r].seen].status # "OPEN" /\ req'[r].seen = None
                 /\ UNCHANGED locks
  <1> DEFINE q == req[r]
  <1>1. q \in Call /\ CallTyped(q, locks[r])
    BY DEF TypeInv, TypeOK, Calls
  <1>2. q.pc = "rowWait" /\ q.seen \in SessionIds /\ Blockers(r) = {} /\ UNCHANGED stored
    BY <1>1 DEF RowReleased, CallTyped
  <1>3. CASE session[q.seen].status = "OPEN"
    <2> DEFINE t == [q EXCEPT !.pc = "body"]
    <2>1. Goto(r, t) /\ Take(r, SessionRow(q.seen))
      BY <1>3 DEF RowReleased
    <2>2. t.pc = "body" /\ SameOrigin(q, t) /\ SamePlace(q, t) /\ SameFinds(q, t)
      BY <1>1 DEF Call, SameOrigin, SamePlace, SameFinds
    <2> HIDE DEF t
    <2>3. req'[r] = t /\ locks'[r] = locks[r] \cup {SessionRow(q.seen)}
      BY <2>1, GotoIs, TakeIs
    <2> QED
      BY <1>2, <1>3, <2>2, <2>3 DEF SameFinds
  <1>4. CASE session[q.seen].status # "OPEN"
    <2> DEFINE t == [q EXCEPT !.pc = "body", !.seen = None]
    <2>1. Goto(r, t) /\ UNCHANGED locks
      BY <1>4 DEF RowReleased
    <2>2. /\ t.pc = "body" /\ t.seen = None /\ SameOrigin(q, t) /\ SamePlace(q, t)
          /\ t.peek = q.peek /\ t.new = q.new /\ t.corr = q.corr
      BY <1>1 DEF Call, SameOrigin, SamePlace
    <2> HIDE DEF t
    <2>3. req'[r] = t
      BY <2>1, GotoIs
    <2> QED
      BY <1>2, <1>4, <2>1, <2>2, <2>3
  <1> QED
    BY <1>3, <1>4

\* The rows a call prepares are those of the call with the ids it has chosen.
LEMMA BodyMoves ==
    ASSUME TypeInv, NEW r \in Requests, Body(r)
    PROVE  /\ req[r].pc = "body" /\ BodyAllows(req[r]) /\ req'[r].pc = "commit"
           /\ UNCHANGED <<stored, locks>>
           /\ SameOrigin(req[r], req'[r]) /\ SamePlace(req[r], req'[r])
           /\ req'[r].peek = req[r].peek /\ req'[r].seen = req[r].seen
           /\ req'[r].new \in NewSession(req[r]) /\ req'[r].corr \in NewCorrection(req[r])
           /\ \E q \in Call :
                 /\ SameOrigin(q, req'[r]) /\ SamePlace(q, req'[r]) /\ SameFinds(q, req'[r])
                 /\ req'[r].calc = Calculated(q) /\ ~CalculationFails(q)
  <1> DEFINE b == req[r]
  <1>1. b \in Call
    BY DEF TypeInv, TypeOK
  <1>2. PICK n \in NewSession(b), c \in NewCorrection(b) :
           LET q == [b EXCEPT !.new = n, !.corr = c] IN
           /\ ~CalculationFails(q)
           /\ Goto(r, [q EXCEPT !.pc = "commit", !.calc = Calculated(q)])
    BY DEF Body
  <1>3. n \in SessionIds \cup {None} /\ c \in CorrectionIds \cup {None}
    BY <1>1 DEF NewSession, NewCorrection, FreshSessions, FreshCorrections, Call
  <1> DEFINE q == [b EXCEPT !.new = n, !.corr = c]
             calc == Calculated(q)
             t == [q EXCEPT !.pc = "commit", !.calc = calc]
  <1>4. q \in Call
    BY <1>1, <1>3 DEF Call
  <1>5. /\ SameOrigin(b, q) /\ SamePlace(b, q) /\ q.peek = b.peek /\ q.seen = b.seen
        /\ q.new = n /\ q.corr = c
    BY <1>1 DEF Call, SameOrigin, SamePlace
  <1>6. req'[r] = t /\ ~CalculationFails(q)
    BY <1>2, GotoIs
  <1> HIDE DEF q, calc
  <1>7. /\ SameOrigin(q, t) /\ SamePlace(q, t) /\ SameFinds(q, t) /\ t.pc = "commit"
        /\ t.calc = calc
    BY <1>4 DEF Call, SameOrigin, SamePlace, SameFinds
  <1> HIDE DEF t
  <1>8. b.pc = "body" /\ BodyAllows(b) /\ UNCHANGED <<stored, locks>>
    BY DEF Body
  <1>9. SameOrigin(b, t) /\ SamePlace(b, t) /\ t.peek = b.peek /\ t.seen = b.seen
    BY <1>5, <1>7 DEF SameOrigin, SamePlace, SameFinds
  <1>10. t.new \in NewSession(b) /\ t.corr \in NewCorrection(b)
    BY <1>2, <1>5, <1>7 DEF SameFinds
  <1> QED
    BY <1>4, <1>6, <1>7, <1>8, <1>9, <1>10 DEF calc

-----------------------------------------------------------------------------
(* The locks a call holds                                                  *)

\* The rows of different sessions have different locks, none of the other kinds.
LEMMA SessionLockDistinct ==
    ASSUME NEW s
    PROVE  /\ \A m : SessionRow(s) # PeriodShare(m) /\ SessionRow(s) # PeriodExclusive(m)
           /\ \A e, d : SessionRow(s) # DayLock(e, d)
           /\ \A c : SessionRow(s) # CorrectionRow(c)
           /\ \A x : SessionRow(s) = SessionRow(x) => s = x
  BY DEF CorrectionRow, PeriodShare, PeriodExclusive, DayLock, SessionRow

\* A day lock that is held names an employee and a work date.
LEMMA DayLockTyped ==
    ASSUME NEW e, NEW d, DayLock(e, d) \in Lock
    PROVE  e \in Employees /\ d \in Dates
  <1>1. PICK f \in Employees, x \in Dates : DayLock(e, d) = DayLock(f, x)
    BY DayLockDistinct DEF Lock
  <1> QED
    BY <1>1, DayLockDistinct

\* Before its month's lock a call holds no day.
LEMMA NoDayYet ==
    ASSUME TypeInv, NEW r \in Requests,
           req[r].pc \in {"idle", "resolve", "peek", "correction", "period"}
    PROVE  \A e, d : DayLock(e, d) \notin locks[r]
  <1>1. locks[r] \subseteq Lock /\ CallTyped(req[r], locks[r])
    BY DEF TypeInv, TypeOK, Calls
  <1> QED
    BY <1>1, DayLockTyped DEF CallTyped

\* An idle call holds nothing.
LEMMA IdleHolds ==
    ASSUME TypeInv, LockInv, NEW r \in Requests, req[r] = Idle
    PROVE  locks[r] = {}
  <1>1. locks[r] \subseteq Lock /\ Held(req[r], locks[r]) /\ req[r].pc = "idle"
    BY DEF TypeInv, TypeOK, LockInv, Idle
  <1>2. \A e, d : DayLock(e, d) \notin locks[r]
    BY <1>1, NoDayYet
  <1>3. ASSUME NEW l \in locks[r] PROVE FALSE
    BY <1>1, <1>2 DEF Held, Lock, Inside
  <1> QED
    BY <1>3

\* A call that keeps its locks or drops them, or takes one that no other holds,
\* keeps LockInv if it holds what its stage asks for.
LEMMA LockMove ==
    ASSUME TypeInv, LockInv, NEW r \in Requests, Arrive(r) \/ Step(r) \/ Abort(r),
           Held(req'[r], locks'[r]),
           \A p \in Requests \ {r} :
              /\ \A e, d : ~(DayLock(e, d) \in locks'[r] /\ DayLock(e, d) \in locks[p])
              /\ \A s : ~(SessionRow(s) \in locks'[r] /\ SessionRow(s) \in locks[p])
    PROVE  LockInv'
  <1>1. \A p \in Requests \ {r} : req'[p] = req[p] /\ locks'[p] = locks[p]
    BY OthersUnmoved
  <1>2. ASSUME NEW p \in Requests PROVE Held(req[p], locks[p])'
    <2>1. Held(req'[p], locks'[p])
      BY <1>1 DEF LockInv
    <2> QED
      BY <2>1 DEF Held, CorrectionRow, PeriodShare, PeriodExclusive, DayLock, SessionRow,
                  DaysOf, DaysLocked, LocksDays
  <1>3. Exclusion'
    <2> SUFFICES ASSUME NEW a \in Requests, NEW p \in Requests, a # p
                 PROVE  /\ \A e, d : ~(DayLock(e, d) \in locks'[a] /\ DayLock(e, d) \in locks'[p])
                        /\ \A s : ~(SessionRow(s) \in locks'[a] /\ SessionRow(s) \in locks'[p])
      BY DEF Exclusion, DayLock, SessionRow
    <2>1. CASE a # r /\ p # r
      BY <1>1, <2>1 DEF LockInv, Exclusion
    <2>2. CASE a = r \/ p = r
      BY <1>1, <2>2
    <2> QED
      BY <2>1, <2>2
  <1> QED
    BY <1>2, <1>3 DEF LockInv

\* The locks a call already has are no other's.
LEMMA LocksOwn ==
    ASSUME LockInv, NEW r \in Requests, NEW L, L \subseteq locks[r]
    PROVE  \A p \in Requests \ {r} :
              /\ \A e, d : ~(DayLock(e, d) \in L /\ DayLock(e, d) \in locks[p])
              /\ \A s : ~(SessionRow(s) \in L /\ SessionRow(s) \in locks[p])
  BY DEF LockInv, Exclusion

\* The end of a call.
LEMMA LockFinish ==
    ASSUME TypeInv, LockInv, NEW r \in Requests, Arrive(r) \/ Step(r) \/ Abort(r), Finish(r)
    PROVE  LockInv'
  <1>1. req'[r] = Idle /\ locks'[r] = {}
    BY FinishIs
  <1>2. Held(Idle, {})
    BY DEF Held, Idle, DaysLocked
  <1> QED
    BY <1>1, <1>2, LocksOwn, LockMove

\* A call arrives having read, found and chosen nothing.
LEMMA ArriveMoves ==
    ASSUME TypeInv, NEW r \in Requests, Arrive(r)
    PROVE  /\ req[r] = Idle /\ UNCHANGED <<stored, locks>>
           /\ req'[r].pc \in {"resolve", "peek", "period", "correction"}
           /\ req'[r].prev = 0 /\ req'[r].peek = None /\ req'[r].seen = None
           /\ req'[r].new = None
           /\ req'[r].op \in Reviews => req'[r].pc = "correction"
           /\ req'[r].pc \in {"resolve", "peek"} => req'[r].op \in Punches
  <1> DEFINE Arrived(t) ==
                /\ t.pc \in {"resolve", "peek", "period", "correction"}
                /\ t.prev = 0 /\ t.peek = None /\ t.seen = None /\ t.new = None
                /\ t.op \in Reviews => t.pc = "correction"
                /\ t.pc \in {"resolve", "peek"} => t.op \in Punches
  <1>1. req \in [Requests -> Call]
    BY DEF TypeInv, TypeOK
  <1>2. ASSUME NEW e \in Employees, NEW k \in Keys \cup {None}, ArriveCheckIn(r, e, k)
        PROVE  req[r] = Idle /\ UNCHANGED <<stored, locks>> /\ Arrived(req'[r])
    BY <1>1, <1>2 DEF ArriveCheckIn, Start, Goto, Idle, Reviews, Punches
  <1>3. ASSUME NEW op \in Punches \ {"CHECK_IN"}, NEW e \in Employees,
               NEW k \in Keys \cup {None}, ArrivePunch(r, op, e, k)
        PROVE  req[r] = Idle /\ UNCHANGED <<stored, locks>> /\ Arrived(req'[r])
    BY <1>1, <1>3 DEF ArrivePunch, Start, Goto, Idle, Reviews, Punches
  <1>4. ASSUME NEW op \in DayOps, NEW e \in Employees, NEW d \in Dates, ArriveDay(r, op, e, d)
        PROVE  req[r] = Idle /\ UNCHANGED <<stored, locks>> /\ Arrived(req'[r])
    BY <1>1, <1>4 DEF ArriveDay, Start, Goto, Idle, Reviews, DayOps
  <1>5. ASSUME NEW op \in PeriodOps, NEW d \in Dates, ArrivePeriod(r, op, d)
        PROVE  req[r] = Idle /\ UNCHANGED <<stored, locks>> /\ Arrived(req'[r])
    BY <1>1, <1>5 DEF ArrivePeriod, Start, Goto, Idle, Reviews, PeriodOps
  <1>6. ASSUME NEW e \in Employees, NEW d \in Dates, NEW f \in Fields, NEW v \in 0..LastTime,
               ArriveRequest(r, e, d, f, v)
        PROVE  req[r] = Idle /\ UNCHANGED <<stored, locks>> /\ Arrived(req'[r])
    BY <1>1, <1>6 DEF ArriveRequest, Start, Goto, Idle, Reviews
  <1>7. ASSUME NEW op \in Reviews, NEW c \in CorrectionIds, ArriveReview(r, op, c)
        PROVE  req[r] = Idle /\ UNCHANGED <<stored, locks>> /\ Arrived(req'[r])
    BY <1>1, <1>7 DEF ArriveReview, Start, Goto, Idle, Reviews
  <1> HIDE DEF Arrived
  <1>8. req[r] = Idle /\ UNCHANGED <<stored, locks>> /\ Arrived(req'[r])
    BY <1>2, <1>3, <1>4, <1>5, <1>6, <1>7 DEF Arrive
  <1> QED
    BY <1>8 DEF Arrived

\* A call arrives without locks, at a stage that asks for none.
LEMMA LockArrive ==
    ASSUME TypeInv, LockInv, NEW r \in Requests, Arrive(r)
    PROVE  LockInv'
  <1>1. /\ req[r] = Idle /\ UNCHANGED locks
        /\ req'[r].pc \in {"resolve", "peek", "period", "correction"}
    BY ArriveMoves
  <1>2. locks'[r] = {}
    BY <1>1, IdleHolds
  <1>3. Held(req'[r], {})
    BY <1>1 DEF Held, DaysLocked
  <1>4. Held(req'[r], locks'[r])
    BY <1>2, <1>3
  <1>5. \A p \in Requests \ {r} :
           /\ \A e, d : ~(DayLock(e, d) \in locks'[r] /\ DayLock(e, d) \in locks[p])
           /\ \A s : ~(SessionRow(s) \in locks'[r] /\ SessionRow(s) \in locks[p])
    BY <1>2
  <1> QED
    BY <1>4, <1>5, LockMove

\* The unlocked reads.
LEMMA LockPeek ==
    ASSUME TypeInv, LockInv, NEW r \in Requests, Step(r),
           Resolve(r) \/ PeekCheckIn(r) \/ PeekOpen(r)
    PROVE  LockInv'
  <1>1. /\ req[r].pc \in {"resolve", "peek"} /\ req'[r].pc \in {"peek", "period"}
        /\ locks'[r] = locks[r]
    BY ResolveMoves, PeekCheckInMoves, PeekOpenMoves
  <1>2. \A e, d : DayLock(e, d) \notin locks[r]
    BY <1>1, NoDayYet
  <1>3. Held(req[r], locks[r])
    BY DEF LockInv
  <1>4. Held(req'[r], locks'[r])
    BY <1>1, <1>2, <1>3 DEF Held, Inside, DaysLocked
  <1> QED
    BY <1>1, <1>4, LocksOwn, LockMove

\* A lock that is neither a day's nor a session's excludes nobody here.
LEMMA LockOther ==
    ASSUME TypeInv, LockInv, NEW r \in Requests, Step(r),
           LockCorrection(r) \/ LockPeriodShare(r) \/ LockPeriodExclusive(r)
    PROVE  LockInv'
  <1>0. Held(req[r], locks[r])
    BY DEF LockInv
  <1>1. CASE Finish(r)
    BY <1>1, LockFinish
  <1>2. ASSUME ~Finish(r)
        PROVE  \E l : /\ locks'[r] = locks[r] \cup {l}
                      /\ \A e, d : l # DayLock(e, d)
                      /\ \A s : l # SessionRow(s)
                      /\ Held(req'[r], locks[r] \cup {l})
    <2>1. req[r].pc \in {"correction", "period"}
      BY DEF LockCorrection, LockPeriodShare, LockPeriodExclusive
    <2>2. \A e, d : DayLock(e, d) \notin locks[r]
      BY <2>1, NoDayYet
    <2>3. CASE LockCorrection(r)
      <3> DEFINE l == CorrectionRow(req[r].corr)
      <3>1. /\ req[r].pc = "correction" /\ req'[r].pc = "period"
            /\ locks'[r] = locks[r] \cup {l}
        BY <1>2, <2>3, LockCorrectionMoves
      <3>2. /\ \A e, d : l # DayLock(e, d)
            /\ \A s : l # SessionRow(s)
            /\ \A m : l # PeriodShare(m) /\ l # PeriodExclusive(m)
        BY CorrectionLockDistinct
      <3> HIDE DEF l
      <3>3. Held(req'[r], locks[r] \cup {l})
        BY <1>0, <2>2, <3>1, <3>2 DEF Held, Inside, DaysLocked
      <3> QED
        BY <3>1, <3>2, <3>3
    <2>4. CASE LockPeriodShare(r)
      <3> DEFINE l == PeriodShare(MonthOf[req[r].date])
      <3>1. /\ req[r].pc = "period" /\ req'[r].pc = AfterPeriod(req[r])
            /\ locks'[r] = locks[r] \cup {l} /\ req'[r].op = req[r].op
        BY <1>2, <2>4, LockPeriodShareMoves DEF SameOrigin
      <3>2. /\ \A e, d : l # DayLock(e, d)
            /\ \A s : l # SessionRow(s)
            /\ \A c : l # CorrectionRow(c)
        BY PeriodLockDistinct
      <3> HIDE DEF l
      <3>3. Held(req'[r], locks[r] \cup {l})
        BY <1>0, <2>2, <3>1, <3>2 DEF Held, Inside, DaysLocked, LocksDays, AfterPeriod
      <3> QED
        BY <3>1, <3>2, <3>3
    <2>5. CASE LockPeriodExclusive(r)
      <3> DEFINE l == PeriodExclusive(MonthOf[req[r].date])
      <3>1. /\ req[r].pc = "period" /\ req'[r].pc = "body" /\ req[r].op \in PeriodOps
            /\ locks'[r] = locks[r] \cup {l} /\ req'[r].op = req[r].op
        BY <2>5, LockPeriodExclusiveMoves DEF SameOrigin
      <3>2. /\ \A e, d : l # DayLock(e, d)
            /\ \A s : l # SessionRow(s)
            /\ \A c : l # CorrectionRow(c)
        BY PeriodLockDistinct
      <3> HIDE DEF l
      <3>3. Held(req'[r], locks[r] \cup {l})
        BY <1>0, <2>2, <3>1, <3>2 DEF Held, Inside, DaysLocked, LocksDays
      <3> QED
        BY <3>1, <3>2, <3>3
    <2> QED
      BY <2>3, <2>4, <2>5
  <1>3. CASE ~Finish(r)
    <2>1. PICK l : /\ locks'[r] = locks[r] \cup {l}
                   /\ \A e, d : l # DayLock(e, d)
                   /\ \A s : l # SessionRow(s)
                   /\ Held(req'[r], locks[r] \cup {l})
      BY <1>2, <1>3
    <2> QED
      BY <2>1, LocksOwn, LockMove
  <1> QED
    BY <1>1, <1>3

\* The next day is the smallest of those still to be locked.
LEMMA NextDaySmallest ==
    ASSUME TypeInv, NEW r \in Requests, req[r].pc = "day"
    PROVE  \A x \in DaysToLock(r) : NextDayToLock(r) <= x
  <1>1. req[r] \in Call /\ CallTyped(req[r], locks[r])
    BY DEF TypeInv, TypeOK, Calls
  <1>2. DaysToLock(r) # {} /\ DaysToLock(r) \subseteq Dates /\ Dates \subseteq Nat
    BY NextDay, BoundsAssumption DEF Dates
  <1>3. DaysToLock(r) \subseteq {req[r].date, req[r].prev} /\ DaysToLock(r) \subseteq Nat
    BY <1>2 DEF DaysToLock, DaysOf
  <1>4. \E d \in DaysToLock(r) : \A x \in DaysToLock(r) : d <= x
    BY <1>2, <1>3, SmallestOfTwo
  <1> QED
    BY <1>4 DEF NextDayToLock

\* Taking the smallest missing day keeps the order, and nobody else holds it.
LEMMA LockDayStep ==
    ASSUME TypeInv, LockInv, NEW r \in Requests, Step(r), LockDay(r)
    PROVE  LockInv'
  <1> DEFINE q == req[r]
             t == req'[r]
             n == NextDayToLock(r)
             l == DayLock(q.emp, n)
  <1>1. /\ q.pc = "day" /\ locks'[r] = locks[r] \cup {l}
        /\ t.pc = IF DaysToLock(r) # {n} THEN "day" ELSE IF LocksRow(q) THEN "row" ELSE "body"
        /\ t.op = q.op /\ t.emp = q.emp /\ t.date = q.date /\ t.prev = q.prev
    BY LockDayMoves DEF SameOrigin, SamePlace
  <1>2. Held(q, locks[r]) /\ q \in Call
    BY DEF LockInv, TypeInv, TypeOK
  <1>3. n \in DaysToLock(r) /\ DaysToLock(r) \subseteq Dates /\ \A x \in DaysToLock(r) : n <= x
    BY <1>1, NextDay, NextDaySmallest
  <1>4. DaysOf(t) = DaysOf(q) /\ n \in DaysOf(q) /\ Dates \subseteq Nat
    BY <1>1, <1>3, BoundsAssumption DEF DaysOf, DaysToLock, Dates
  <1>5. \A p \in Requests \ {r} : l \notin locks[p]
    BY <1>1 DEF LockDay, Blockers, Wanted
  <1>6. /\ \A m : l # PeriodShare(m) /\ l # PeriodExclusive(m)
        /\ \A s : l # SessionRow(s)
        /\ \A c : l # CorrectionRow(c)
        /\ \A e, d : l = DayLock(e, d) => e = q.emp /\ d = n
    BY DayLockDistinct
  <1>7. \A d, x \in DaysOf(t) :
           DayLock(t.emp, d) \in locks'[r] /\ DayLock(t.emp, x) \notin locks'[r] => d < x
    <2> SUFFICES ASSUME NEW d \in DaysOf(q), NEW x \in DaysOf(q),
                        DayLock(q.emp, d) \in locks[r] \cup {l},
                        DayLock(q.emp, x) \notin locks[r] \cup {l}
                 PROVE  d < x
      BY <1>1, <1>4
    <2>1. x \in DaysToLock(r) /\ x # n /\ x \in Nat /\ n \in Nat
      BY <1>3, <1>4 DEF DaysToLock
    <2>2. CASE d = n
      BY <1>3, <2>1, <2>2
    <2>3. CASE d # n
      BY <1>2, <1>6, <2>3 DEF Held
    <2> QED
      BY <2>2, <2>3
  <1>8. t.pc # "day" => \A d \in DaysOf(t) : DayLock(t.emp, d) \in locks'[r]
    BY <1>1, <1>4 DEF DaysToLock
  <1>9. t.pc \in {"day", "row", "body"}
    BY <1>1
  <1> HIDE DEF l, n
  <1>10. Held(t, locks'[r])
    <2>1. \A e, d : DayLock(e, d) \in locks'[r] => e = t.emp /\ d \in DaysOf(t)
      BY <1>1, <1>2, <1>4, <1>6 DEF Held
    <2>2. /\ \A c : CorrectionRow(c) \in locks'[r] => CorrectionRow(c) \in locks[r]
          /\ \A m : PeriodShare(m) \in locks'[r] \/ PeriodExclusive(m) \in locks'[r] =>
                       PeriodShare(m) \in locks[r] \/ PeriodExclusive(m) \in locks[r]
          /\ \A s : SessionRow(s) \notin locks'[r]
      BY <1>1, <1>2, <1>6 DEF Held
    <2> QED
      BY <1>1, <1>2, <1>7, <1>8, <1>9, <2>1, <2>2 DEF Held, Inside, DaysLocked
  <1>11. \A p \in Requests \ {r} :
            /\ \A e, d : ~(DayLock(e, d) \in locks'[r] /\ DayLock(e, d) \in locks[p])
            /\ \A s : ~(SessionRow(s) \in locks'[r] /\ SessionRow(s) \in locks[p])
    BY <1>1, <1>5, <1>6, LocksOwn
  <1> QED
    BY <1>10, <1>11, LockMove

\* A session's row is taken when nobody else holds it.
LEMMA LockRowStep ==
    ASSUME TypeInv, LockInv, NEW r \in Requests, Step(r), LockOpenSession(r) \/ RowReleased(r)
    PROVE  LockInv'
  <1> DEFINE q == req[r]
             t == req'[r]
  <1>1. /\ q.pc \in {"row", "rowWait"} /\ t.pc \in {"rowWait", "body"}
        /\ t.op = q.op /\ t.emp = q.emp /\ t.date = q.date /\ t.prev = q.prev
        /\ \/ UNCHANGED locks
           \/ /\ t.pc = "body"
              /\ \E s : /\ locks'[r] = locks[r] \cup {SessionRow(s)}
                        /\ ~HeldByOther(r, SessionRow(s))
    <2>1. CASE LockOpenSession(r)
      BY <2>1, LockOpenSessionMoves DEF SameOrigin, SamePlace
    <2>2. CASE RowReleased(r)
      <3>1. Blockers(r) = {} => ~HeldByOther(r, SessionRow(q.seen))
        BY <2>2, RowReleasedMoves DEF Blockers, Wanted, HeldByOther
      <3> QED
        BY <2>2, <3>1, RowReleasedMoves DEF SameOrigin, SamePlace
    <2> QED
      BY <2>1, <2>2
  <1>2. Held(q, locks[r])
    BY DEF LockInv
  <1>3. DaysOf(t) = DaysOf(q) /\ (DaysLocked(t) => DaysLocked(q))
    BY <1>1 DEF DaysOf, DaysLocked, LocksDays
  <1>4. CASE UNCHANGED locks
    <2>1. Held(t, locks'[r])
      BY <1>1, <1>2, <1>3, <1>4 DEF Held, Inside
    <2> QED
      BY <1>4, <2>1, LocksOwn, LockMove
  <1>5. ASSUME NEW s, locks'[r] = locks[r] \cup {SessionRow(s)}, t.pc = "body",
               ~HeldByOther(r, SessionRow(s))
        PROVE  LockInv'
    <2> DEFINE l == SessionRow(s)
    <2>1. /\ \A m : l # PeriodShare(m) /\ l # PeriodExclusive(m)
          /\ \A e, d : l # DayLock(e, d)
          /\ \A c : l # CorrectionRow(c)
          /\ \A x : l = SessionRow(x) => x = s
      BY SessionLockDistinct
    <2>2. \A p \in Requests \ {r} : l \notin locks[p]
      BY <1>5 DEF HeldByOther
    <2> HIDE DEF l
    <2>3. Held(t, locks'[r])
      BY <1>1, <1>2, <1>3, <1>5, <2>1 DEF Held, Inside, l
    <2>4. \A p \in Requests \ {r} :
             /\ \A e, d : ~(DayLock(e, d) \in locks'[r] /\ DayLock(e, d) \in locks[p])
             /\ \A x : ~(SessionRow(x) \in locks'[r] /\ SessionRow(x) \in locks[p])
      BY <1>5, <2>1, <2>2, LocksOwn DEF l
    <2> QED
      BY <2>3, <2>4, LockMove
  <1> QED
    BY <1>1, <1>4, <1>5

\* The body takes no lock.
LEMMA LockBody ==
    ASSUME TypeInv, LockInv, NEW r \in Requests, Step(r), Body(r)
    PROVE  LockInv'
  <1> DEFINE q == req[r]
             t == req'[r]
  <1>1. /\ q.pc = "body" /\ t.pc = "commit" /\ UNCHANGED locks
        /\ t.op = q.op /\ t.emp = q.emp /\ t.date = q.date /\ t.prev = q.prev
    BY BodyMoves DEF SameOrigin, SamePlace
  <1>2. Held(q, locks[r])
    BY DEF LockInv
  <1>3. DaysOf(t) = DaysOf(q) /\ (DaysLocked(t) => DaysLocked(q))
    BY <1>1 DEF DaysOf, DaysLocked, LocksDays
  <1>4. Held(t, locks'[r])
    BY <1>1, <1>2, <1>3 DEF Held, Inside
  <1> QED
    BY <1>1, <1>4, LocksOwn, LockMove

\* Every step keeps LockInv.
LEMMA StepLocks == TypeInv /\ LockInv /\ [Next]_vars => LockInv'
  <1> SUFFICES ASSUME TypeInv, LockInv, [Next]_vars PROVE LockInv'
    OBVIOUS
  <1>1. CASE UNCHANGED <<req, locks>>
    BY <1>1 DEF LockInv, Exclusion, Held, CorrectionRow, PeriodShare, PeriodExclusive,
                DayLock, SessionRow, DaysOf, DaysLocked, LocksDays
  <1>2. ASSUME NEW r \in Requests, Arrive(r) \/ Step(r) \/ Abort(r) PROVE LockInv'
    <2>1. CASE Arrive(r)
      BY <2>1, LockArrive
    <2>2. CASE Finish(r)
      BY <1>2, <2>2, LockFinish
    <2>3. CASE Commit(r) \/ Abort(r)
      <3>1. Finish(r)
        BY <2>3 DEF Commit, CommitPunch, CommitDay, CommitPeriod, CommitRequest, CommitReview,
                    Commits, Abort
      <3> QED
        BY <2>2, <3>1
    <2>4. CASE Step(r) /\ ~Finish(r) /\ ~Commit(r)
      BY <2>4, LockPeek, LockOther, LockDayStep, LockRowStep, LockBody
      DEF Step, Acquire, PeekNothing, ReplayUnderLock, RefuseBody, RecalculationFailed,
          DuplicateRefused
    <2> QED
      BY <1>2, <2>1, <2>2, <2>3, <2>4
  <1> QED
    BY <1>1, <1>2 DEF Next, Tick, vars

\* LockInv holds in every reachable state.
LEMMA AlwaysLocks == Spec => []LockInv
  <1>1. Init => LockInv
    BY DEF Init, LockInv, Exclusion, Held, Idle, DaysLocked
  <1> QED
    BY <1>1, AlwaysTyped, StepLocks, PTL DEF Spec

-----------------------------------------------------------------------------
(* No deadlock: a call waits only for calls that are further on.            *)

\* How far a call is: the locks are taken in the order correction, month, days
\* from the earliest to the latest, session row.
Rank(r) ==
    CASE req[r].pc = "correction" -> 0
      [] req[r].pc = "period" -> 1
      [] req[r].pc = "day" -> 1 + NextDayToLock(r)
      [] req[r].pc = "rowWait" -> LastDate + 2
      [] OTHER -> LastDate + 3

\* A nonempty set of numbers up to a bound has a largest member.
LEMMA LargestOf ==
    ASSUME NEW n \in Nat, NEW S, S \subseteq 0..n, S # {}
    PROVE  \E x \in S : \A y \in S : y <= x
  <1> DEFINE R == {p \in Nat \X Nat : p[1] < p[2]}
             T == {n - x : x \in S}
  <1>1. IsWellFoundedOn(R, Nat)
    BY NatLessThanWellFounded DEF OpToRel
  <1>2. \A x \in S : x \in Nat /\ n - x \in Nat
    OBVIOUS
  <1>3. T \subseteq Nat /\ T # {}
    BY <1>2
  <1>4. PICK t \in T : \A y \in T : ~(<<y, t>> \in R)
    <2> HIDE DEF R, T
    <2> QED
      BY <1>1, <1>3, WFMin
  <1>5. PICK x \in S : t = n - x
    OBVIOUS
  <1>6. \A y \in S : ~(n - y < n - x)
    BY <1>2, <1>4, <1>5
  <1> QED
    BY <1>2, <1>5, <1>6

\* The rank of a call is a number up to LastDate + 3.
LEMMA RankBounded ==
    ASSUME TypeInv, NEW r \in Requests
    PROVE  /\ Rank(r) \in 0..(LastDate + 3)
           /\ req[r].pc = "day" => NextDayToLock(r) \in Dates
           /\ req[r].pc \in {"idle", "resolve", "peek", "row", "body", "commit"} =>
                 Rank(r) = LastDate + 3
  <1>1. req[r].pc = "day" => NextDayToLock(r) \in Dates
    BY NextDay
  <1> QED
    BY <1>1, BoundsAssumption DEF Rank, Dates

\* A call that holds a lock another one wants is further on than that one.
LEMMA BlockerFurtherOn ==
    ASSUME TypeInv, LockInv, NEW r \in Requests, NEW p \in Blockers(r)
    PROVE  Rank(r) < Rank(p)
  <1> DEFINE q == req[r]
             b == req[p]
  <1>1. p \in Requests /\ \E l \in Wanted(r) : l \in locks[p]
    BY DEF Blockers
  <1>2. Held(b, locks[p]) /\ b \in Call /\ Rank(p) \in Nat /\ LastDate \in Nat
    BY <1>1, RankBounded, BoundsAssumption DEF LockInv, TypeInv, TypeOK
  <1>3. b.pc \in {"row", "body", "commit"} => Rank(p) = LastDate + 3
    BY <1>1, RankBounded
  <1>4. CASE q.pc = "correction"
    <2>1. b.pc \notin {"idle", "correction"}
      BY <1>1, <1>2, <1>4 DEF Wanted, Held
    <2>2. b.pc \in {"resolve", "peek", "period", "day", "row", "rowWait", "body", "commit"}
      BY <1>2, <2>1 DEF Call
    <2>3. b.pc = "day" => NextDayToLock(p) \in Dates
      BY <1>1, RankBounded
    <2> QED
      BY <1>2, <1>4, <2>2, <2>3 DEF Rank, Dates
  <1>5. CASE q.pc = "period"
    <2>1. b.pc \in Inside
      BY <1>1, <1>2, <1>5 DEF Wanted, Held
    <2>2. b.pc = "day" => NextDayToLock(p) \in Dates
      BY <1>1, RankBounded
    <2> QED
      BY <1>2, <1>5, <2>1, <2>2, BoundsAssumption DEF Rank, Dates, Inside
  <1>6. CASE q.pc = "day"
    <2> DEFINE n == NextDayToLock(r)
    <2>1. n \in Dates /\ Rank(r) = 1 + n
      BY <1>6, RankBounded DEF Rank
    <2>2. DayLock(q.emp, n) \in locks[p]
      BY <1>1, <1>6 DEF Wanted
    <2>3. q.emp = b.emp /\ n \in DaysOf(b)
      BY <1>2, <2>2 DEF Held
    <2>4. b.pc \in {"day", "row", "rowWait", "body", "commit"}
      BY <1>1, <1>2, <2>2, NoDayYet DEF Call
    <2>5. CASE b.pc = "day"
      <3>1. NextDayToLock(p) \in DaysToLock(p) /\ NextDayToLock(p) \in Dates
        BY <1>1, <2>5, NextDay
      <3>2. n < NextDayToLock(p)
        BY <1>2, <2>2, <2>3, <3>1 DEF Held, DaysToLock
      <3> QED
        BY <2>1, <2>5, <3>1, <3>2, BoundsAssumption DEF Rank, Dates
    <2>6. CASE b.pc # "day"
      BY <1>2, <2>1, <2>4, <2>6, BoundsAssumption DEF Rank, Dates
    <2> QED
      BY <2>5, <2>6
  <1>7. CASE q.pc = "rowWait"
    <2>1. b.pc \in {"body", "commit"}
      BY <1>1, <1>2, <1>7 DEF Wanted, Held
    <2> QED
      BY <1>2, <1>3, <1>7, <2>1 DEF Rank
  <1> QED
    BY <1>1, <1>4, <1>5, <1>6, <1>7 DEF Wanted

\* No set of calls waits for itself, however many calls, employees and days there
\* are: the member of the set that is furthest on waits for none of them.
LEMMA LocksWithoutDeadlock == TypeInv /\ LockInv => NoDeadlock
  <1> SUFFICES ASSUME TypeInv, LockInv, NEW W \in (SUBSET Requests) \ {{}}
               PROVE  \E r \in W : Blockers(r) \cap W = {}
    BY DEF NoDeadlock
  <1> DEFINE S == {Rank(r) : r \in W}
  <1>1. S \subseteq 0..(LastDate + 3) /\ S # {}
    BY RankBounded
  <1>2. PICK x \in S : \A y \in S : y <= x
    <2>1. LastDate + 3 \in Nat
      BY BoundsAssumption
    <2> HIDE DEF S
    <2> QED
      BY <1>1, <2>1, LargestOf
  <1>3. PICK r \in W : x = Rank(r)
    OBVIOUS
  <1>4. \A p \in W : Rank(p) <= Rank(r) /\ Rank(p) \in Nat /\ Rank(r) \in Nat
    BY <1>2, <1>3, RankBounded
  <1>5. ASSUME NEW p \in Blockers(r) \cap W PROVE FALSE
    <2>1. Rank(r) < Rank(p)
      BY <1>5, BlockerFurtherOn
    <2> QED
      BY <1>4, <2>1
  <1> QED
    BY <1>5

\* The locks of a company's attendance data are never waited for in a circle:
\* every call takes them in the same order.
THEOREM NeverDeadlocked == Spec => []NoDeadlock
  BY AlwaysTyped, AlwaysLocks, LocksWithoutDeadlock, PTL

-----------------------------------------------------------------------------
(* The sessions and corrections a call relies on                           *)

\* A call's write leaves a session's identity alone and loses no break event.
LEMMA WrittenKeeps ==
    ASSUME NEW q \in Call, NEW x \in Session
    PROVE  /\ Written(q, x).emp = x.emp /\ Written(q, x).date = x.date
           /\ Written(q, x).checkIn = x.checkIn /\ Written(q, x).breaks >= x.breaks
           /\ x.status = "OPEN" => Written(q, x).status \in {"OPEN", "CLOSED", "ABANDONED"}
  <1> USE DEF Session, Call
  <1>0. x.breaks \in Nat /\ x.breaks >= x.breaks
    OBVIOUS
  <1>1. CASE q.op = "CHECK_IN"
    BY <1>0, <1>1 DEF Written
  <1>2. CASE q.op = "CHECK_OUT"
    <2>1. Written(q, x) = [x EXCEPT !.status = "CLOSED", !.checkOut = q.at, !.punchedOut = TRUE]
      BY <1>2, Zenon DEF Written
    <2> QED
      BY <1>0, <2>1
  <1>3. CASE q.op \in {"BREAK_START", "BREAK_END"}
    <2> DEFINE last == IF q.at < x.lastBreak THEN x.lastBreak ELSE q.at
               on == IF q.at < x.lastBreak THEN x.onBreak ELSE q.op = "BREAK_START"
    <2>1. Written(q, x) = [x EXCEPT !.breaks = x.breaks + 1, !.lastBreak = last, !.onBreak = on]
      BY <1>3, Zenon DEF Written, BreakEvent
    <2> HIDE DEF last, on
    <2> QED
      BY <2>1
  <1>4. CASE q.op = "APPROVE" /\ x.date = q.date
    <2>1. Written(q, x) = [x EXCEPT !.status = "CLOSED", !.checkOut = q.value]
      BY <1>4, Zenon DEF Written
    <2> QED
      BY <1>0, <2>1
  <1>5. CASE /\ q.op \notin {"CHECK_IN", "CHECK_OUT", "BREAK_START", "BREAK_END"}
             /\ ~(q.op = "APPROVE" /\ x.date = q.date)
    BY <1>0, <1>5 DEF Written
  <1> QED
    BY <1>1, <1>2, <1>3, <1>4, <1>5

\* A commit inserts the session the call has chosen, writes the one it has
\* locked, and leaves every other alone.
LEMMA CommitSessions ==
    ASSUME TypeInv, Intents, SessionInv, NEW r \in Requests, Commit(r), NEW s \in SessionIds
    PROVE  \/ session'[s] = session[s]
           \/ /\ s = req[r].new /\ req[r].op = "CHECK_IN" /\ session[s].status = "NONE"
              /\ session'[s] = Inserted(req[r])
           \/ /\ s = req[r].seen /\ s # req[r].new /\ LocksRow(req[r])
              /\ session[s].status = "OPEN" /\ session[s].emp = req[r].emp
              /\ SessionRow(s) \in locks[r]
              /\ session'[s] = Written(req[r], session[s])
  <1> DEFINE q == req[r]
  <1>1. q.pc = "commit" /\ CallKept(q, locks[r]) /\ Intent(q)
    BY DEF SessionInv, Intents, Commit, CommitPunch, CommitDay, CommitPeriod, CommitRequest,
           CommitReview, Commits
  <1>2. session' = session \/ session' = SessionAfter(q)
    BY DEF Commit, CommitPunch, CommitDay, CommitPeriod, CommitRequest, CommitReview
  <1>3. CASE session' = SessionAfter(q)
    <2>1. CASE s = q.new
      <3>1. q.op = "CHECK_IN" /\ session[s].status = "NONE"
        BY <1>1, <2>1, NoneAssumption DEF CallKept, Validated, Intent
      <3>2. session'[s] = Inserted(q)
        BY <1>3, <2>1 DEF SessionAfter
      <3> QED
        BY <2>1, <3>1, <3>2
    <2>2. CASE s # q.new /\ s = q.seen
      <3>1. q.seen # None
        BY <2>2, NoneAssumption
      <3>2. /\ LocksRow(q) /\ session[s].status = "OPEN" /\ session[s].emp = q.emp
            /\ SessionRow(s) \in locks[r]
        BY <1>1, <2>2, <3>1 DEF CallKept, HasSeen
      <3>3. session'[s] = Written(q, session[s])
        BY <1>3, <2>2 DEF SessionAfter
      <3> QED
        BY <2>2, <3>2, <3>3
    <2>3. CASE s # q.new /\ s # q.seen
      BY <1>3, <2>3 DEF SessionAfter
    <2> QED
      BY <2>1, <2>2, <2>3
  <1> QED
    BY <1>2, <1>3

\* A commit inserts the correction a request has chosen, decides the one a
\* review has locked, and leaves every other alone.
LEMMA CommitCorrections ==
    ASSUME TypeInv, ReviewInv, NEW r \in Requests, Commit(r), NEW c \in CorrectionIds
    PROVE  \/ correction'[c] = correction[c]
           \/ /\ c = req[r].corr /\ req[r].op = "REQUEST" /\ correction[c].status = "NONE"
              /\ correction'[c] = [status |-> "PENDING", emp |-> req[r].emp,
                                   date |-> req[r].date, field |-> req[r].field,
                                   value |-> req[r].value]
           \/ /\ c = req[r].corr /\ req[r].op \in Reviews /\ correction[c].status = "PENDING"
              /\ CorrectionRow(c) \in locks[r]
              /\ \/ /\ req[r].op = "APPROVE"
                    /\ correction'[c] = [correction[c] EXCEPT !.status = "APPROVED"]
                 \/ /\ req[r].op = "REJECT"
                    /\ correction'[c] = [correction[c] EXCEPT !.status = "REJECTED"]
  <1> DEFINE q == req[r]
  <1>1. q.pc = "commit" /\ ReviewCall(q, locks[r]) /\ CallTyped(q, locks[r])
        /\ correction \in [CorrectionIds -> Correction]
    BY DEF ReviewInv, TypeInv, TypeOK, Calls, Commit, CommitPunch, CommitDay, CommitPeriod,
           CommitRequest, CommitReview, Commits
  <1>2. CASE CommitRequest(r)
    <2>1. q.op = "REQUEST" /\ correction' = CorrectionAfter(q) /\ q.corr \in CorrectionIds
          /\ correction[q.corr].status = "NONE"
      BY <1>1, <1>2 DEF CommitRequest, Commits, ReviewCall
    <2> QED
      BY <1>1, <2>1 DEF CorrectionAfter
  <1>3. CASE CommitReview(r)
    <2>1. /\ q.op \in Reviews /\ correction' = CorrectionAfter(q) /\ q.corr \in CorrectionIds
          /\ correction[q.corr].status = "PENDING" /\ CorrectionRow(q.corr) \in locks[r]
      BY <1>1, <1>3 DEF CommitReview, Commits, ReviewCall, CallTyped
    <2> QED
      BY <1>1, <2>1 DEF CorrectionAfter, Reviews
  <1>4. CASE CommitPunch(r) \/ CommitDay(r) \/ CommitPeriod(r)
    BY <1>4 DEF CommitPunch, CommitDay, CommitPeriod
  <1> QED
    BY <1>2, <1>3, <1>4 DEF Commit

\* A commit of one call takes nothing from what another relies on.
LEMMA OtherCallKept ==
    ASSUME TypeInv, Intents, LockInv, ReviewInv, SessionInv,
           NEW r \in Requests, Step(r), Commit(r), NEW p \in Requests \ {r}
    PROVE  CallKept(req[p], locks[p])'
  <1> DEFINE q == req[p]
             L == locks[p]
  <1>1. req'[p] = q /\ locks'[p] = L
    BY OthersUnmoved
  <1>2. /\ CallKept(q, L) /\ q \in Call /\ req[r] \in Call /\ CallTyped(q, L)
        /\ \A s \in SessionIds : session[s] \in Session
        /\ \A c \in CorrectionIds : correction[c] \in Correction
    BY DEF SessionInv, TypeInv, TypeOK, Calls
  <1>3. ASSUME NEW s \in SessionIds, session[s].status # "NONE"
        PROVE  /\ session'[s].status # "NONE" /\ session'[s].emp = session[s].emp
               /\ session'[s].date = session[s].date
    <2>1. CASE session'[s] = session[s]
      BY <1>3, <2>1
    <2>2. CASE session'[s] = Written(req[r], session[s])
      BY <1>2, <1>3, <2>2, WrittenTyped
    <2> QED
      BY <1>3, <2>1, <2>2, CommitSessions
  <1>4. ASSUME NEW s \in SessionIds, SessionRow(s) \in L, session[s].status = "OPEN"
        PROVE  session'[s] = session[s]
    <2>1. SessionRow(s) \notin locks[r]
      BY <1>4 DEF LockInv, Exclusion
    <2> QED
      BY <1>4, <2>1, CommitSessions
  <1>5. ASSUME q.new # None PROVE session'[q.new] = session[q.new] /\ q.new \in SessionIds
    <2>1. q.new \in SessionIds /\ session[q.new].status = "NONE" /\ q.new # req[r].new
      BY <1>2, <1>5 DEF CallKept, Validated, SessionInv, OwnSession
    <2> QED
      BY <2>1, CommitSessions
  <1>6. ASSUME NEW c \in CorrectionIds, correction[c].status # "NONE"
        PROVE  /\ correction'[c].emp = correction[c].emp
               /\ correction'[c].date = correction[c].date
               /\ correction'[c].field = correction[c].field
               /\ correction'[c].value = correction[c].value
    <2>1. ASSUME NEW v, correction'[c] = [correction[c] EXCEPT !.status = v]
          PROVE  /\ correction'[c].emp = correction[c].emp
                 /\ correction'[c].date = correction[c].date
                 /\ correction'[c].field = correction[c].field
                 /\ correction'[c].value = correction[c].value
      BY <1>2, <2>1 DEF Correction
    <2>2. \/ correction'[c] = correction[c]
          \/ \E v : correction'[c] = [correction[c] EXCEPT !.status = v]
      BY <1>6, CommitCorrections
    <2> QED
      BY <2>1, <2>2
  <1>7. PeekedAt(q)'
    BY <1>1, <1>2, <1>3 DEF CallKept, PeekedAt
  <1>8. HasSeen(q, L)'
    BY <1>1, <1>2, <1>3, <1>4 DEF CallKept, HasSeen, SessionRow, LocksRow
  <1>9. Validated(q)'
    <2>1. q.pc = "commit" /\ q.seen # None => session'[q.seen] = session[q.seen]
      BY <1>2, <1>4 DEF CallKept, HasSeen
    <2> QED
      BY <1>1, <1>2, <1>5, <2>1 DEF CallKept, Validated, PunchAllows, OpenBreak
  <1>10. ReviewTarget(q)'
    BY <1>1, <1>2, <1>6 DEF CallKept, ReviewTarget, CallTyped
  <1>11. Calculates(q)'
    BY <1>1, <1>2 DEF CallKept, Calculates
  <1> QED
    BY <1>1, <1>7, <1>8, <1>9, <1>10, <1>11 DEF CallKept

\* A step that stores nothing keeps SessionInv if the call that moves keeps its
\* part and takes no session another call is about to insert.
LEMMA SessionMove ==
    ASSUME TypeInv, SessionInv, NEW r \in Requests, Arrive(r) \/ Step(r) \/ Abort(r),
           UNCHANGED <<session, correction>>, CallKept(req'[r], locks'[r]),
           req'[r].new # None => \A p \in Requests \ {r} : req[p].new # req'[r].new
    PROVE  SessionInv'
  <1>1. \A p \in Requests \ {r} : req'[p] = req[p] /\ locks'[p] = locks[p]
    BY OthersUnmoved
  <1>2. UnusedEmpty'
    BY DEF SessionInv, UnusedEmpty, NoSession, NoCorrection
  <1>3. OwnSession'
    <2> SUFFICES ASSUME NEW a \in Requests, NEW p \in Requests, a # p, req'[a].new # None
                 PROVE  req'[a].new # req'[p].new
      BY DEF OwnSession
    <2>1. CASE a = r
      BY <1>1, <2>1
    <2>2. CASE p = r
      BY <1>1, <2>2
    <2>3. CASE a # r /\ p # r
      BY <1>1, <2>3 DEF SessionInv, OwnSession
    <2> QED
      BY <2>1, <2>2, <2>3
  <1>4. ASSUME NEW p \in Requests PROVE CallKept(req[p], locks[p])'
    <2>1. CallKept(req'[p], locks'[p])
      BY <1>1 DEF SessionInv
    <2> QED
      BY <2>1 DEF CallKept, PeekedAt, HasSeen, Validated, ReviewTarget, SessionRow, LocksRow,
                  PunchAllows, OpenBreak, Calculates
  <1> QED
    BY <1>2, <1>3, <1>4 DEF SessionInv

\* A call that is over relies on nothing.
LEMMA IdleKept == CallKept(Idle, {})
  BY DEF CallKept, PeekedAt, HasSeen, Validated, ReviewTarget, Calculates, Idle, Reviews, Punches

\* The end of a call that stores neither sessions nor corrections.
LEMMA SessionFinish ==
    ASSUME TypeInv, SessionInv, NEW r \in Requests, Arrive(r) \/ Step(r) \/ Abort(r),
           Finish(r), UNCHANGED <<session, correction>>
    PROVE  SessionInv'
  <1>1. req'[r] = Idle /\ locks'[r] = {} /\ Idle.new = None
    BY FinishIs DEF Idle
  <1> QED
    BY <1>1, IdleKept, SessionMove

\* A call that arrives relies on nothing yet.
LEMMA SessionArrive ==
    ASSUME TypeInv, SessionInv, NEW r \in Requests, Arrive(r)
    PROVE  SessionInv'
  <1>1. /\ req'[r].pc \in {"resolve", "peek", "period", "correction"}
        /\ req'[r].peek = None /\ req'[r].seen = None /\ req'[r].new = None
        /\ req'[r].op \in Reviews => req'[r].pc = "correction"
        /\ req'[r].pc \in {"resolve", "peek"} => req'[r].op \in Punches
        /\ UNCHANGED <<session, correction>>
    BY ArriveMoves DEF stored
  <1>2. CallKept(req'[r], locks'[r])
    BY <1>1 DEF CallKept, PeekedAt, HasSeen, Validated, ReviewTarget, Calculates
  <1> QED
    BY <1>1, <1>2, SessionMove

\* The unlocked reads.
LEMMA SessionPeek ==
    ASSUME TypeInv, SessionInv, NEW r \in Requests, Step(r),
           Resolve(r) \/ PeekCheckIn(r) \/ PeekOpen(r)
    PROVE  SessionInv'
  <1> DEFINE q == req[r]
             t == req'[r]
  <1>1. /\ q.pc \in {"resolve", "peek"} /\ t.pc \in {"peek", "period"}
        /\ t.op = q.op /\ t.emp = q.emp /\ t.seen = q.seen /\ t.new = q.new
        /\ t.pc = "peek" => q.pc = "resolve"
        /\ \/ t.peek = q.peek
           \/ t.op # "CHECK_IN" /\ t.peek \in OpenSessions(t.emp) /\ t.date = session[t.peek].date
        /\ UNCHANGED <<session, correction>>
    BY ResolveMoves, PeekCheckInMoves, PeekOpenMoves DEF SameOrigin, SameFinds, stored
  <1>2. CallKept(q, locks[r])
    BY DEF SessionInv
  <1>3. q.op \in Punches /\ q.peek = None /\ q.seen = None /\ q.new = None
    BY <1>1, <1>2 DEF CallKept, PeekedAt, HasSeen, Validated
  <1>4. t.peek = None \/ /\ t.op # "CHECK_IN" /\ t.peek \in OpenSessions(t.emp)
                         /\ t.date = session[t.peek].date /\ t.pc = "period"
    <2>1. CASE PeekOpen(r)
      BY <2>1, <1>1, <1>3, PeekOpenMoves
    <2>2. CASE Resolve(r) \/ PeekCheckIn(r)
      BY <2>2, <1>3, ResolveMoves, PeekCheckInMoves DEF SameFinds
    <2> QED
      BY <2>1, <2>2
  <1>5. PeekedAt(t)
    BY <1>1, <1>3, <1>4 DEF PeekedAt, OpenSessions, SessionsOf
  <1>6. HasSeen(t, locks'[r]) /\ Validated(t) /\ ReviewTarget(t) /\ Calculates(t)
    BY <1>1, <1>3 DEF HasSeen, Validated, ReviewTarget, Calculates, Reviews, Punches
  <1> QED
    BY <1>1, <1>3, <1>5, <1>6, SessionMove DEF CallKept

\* The correction's row: the review takes over the correction's target.
LEMMA SessionLockCorrection ==
    ASSUME TypeInv, SessionInv, NEW r \in Requests, Step(r), LockCorrection(r), ~Finish(r)
    PROVE  SessionInv'
  <1> DEFINE q == req[r]
             t == req'[r]
  <1>1. /\ q.pc = "correction" /\ t.pc = "period" /\ UNCHANGED <<session, correction>>
        /\ t.op = q.op /\ t.corr = q.corr /\ t.peek = q.peek /\ t.seen = q.seen /\ t.new = q.new
        /\ t.emp = correction[q.corr].emp /\ t.date = correction[q.corr].date
        /\ t.field = correction[q.corr].field /\ t.value = correction[q.corr].value
    BY LockCorrectionMoves DEF SameOrigin, SameFinds, stored
  <1>2. CallKept(q, locks[r]) /\ q.op \in Reviews
    BY <1>1 DEF SessionInv, TypeInv, Calls, CallTyped
  <1>3. q.peek = None /\ q.seen = None /\ q.new = None
    BY <1>1, <1>2 DEF CallKept, PeekedAt, HasSeen, Validated, Reviews, Punches
  <1>4. CallKept(t, locks'[r])
    BY <1>1, <1>3 DEF CallKept, PeekedAt, HasSeen, Validated, ReviewTarget, Calculates
  <1> QED
    BY <1>1, <1>3, <1>4, SessionMove

\* The locks of the month and of the days.
LEMMA SessionLockDay ==
    ASSUME TypeInv, SessionInv, NEW r \in Requests, Step(r), ~Finish(r),
           LockPeriodShare(r) \/ LockPeriodExclusive(r) \/ LockDay(r)
    PROVE  SessionInv'
  <1> DEFINE q == req[r]
             t == req'[r]
  <1>1. /\ q.pc \in {"period", "day"} /\ t.pc \in {"day", "row", "body"}
        /\ t.pc = "row" => LocksRow(q)
        /\ UNCHANGED <<session, correction>>
        /\ t.op = q.op /\ t.peek = q.peek /\ t.seen = q.seen /\ t.new = q.new /\ t.corr = q.corr
        /\ t.emp = q.emp /\ t.date = q.date /\ t.field = q.field /\ t.value = q.value
    BY LockPeriodShareMoves, LockPeriodExclusiveMoves, LockDayMoves
    DEF SameOrigin, SamePlace, SameFinds, stored, AfterPeriod
  <1>2. CallKept(q, locks[r])
    BY DEF SessionInv
  <1>3. q.seen = None /\ q.new = None
    BY <1>1, <1>2 DEF CallKept, HasSeen, Validated
  <1>4. CallKept(t, locks'[r])
    BY <1>1, <1>2, <1>3 DEF CallKept, PeekedAt, HasSeen, Validated, ReviewTarget, Calculates, LocksRow
  <1> QED
    BY <1>1, <1>3, <1>4, SessionMove

\* The row of the open session, found or awaited.
LEMMA SessionLockRow ==
    ASSUME TypeInv, SessionInv, NEW r \in Requests, Step(r), LockOpenSession(r) \/ RowReleased(r)
    PROVE  SessionInv'
  <1> DEFINE q == req[r]
             t == req'[r]
  <1>1. /\ q.pc \in {"row", "rowWait"} /\ t.pc \in {"rowWait", "body"}
        /\ UNCHANGED <<session, correction>>
        /\ t.op = q.op /\ t.peek = q.peek /\ t.new = q.new /\ t.corr = q.corr
        /\ t.emp = q.emp /\ t.date = q.date /\ t.field = q.field /\ t.value = q.value
    BY LockOpenSessionMoves, RowReleasedMoves DEF SameOrigin, SamePlace, stored
  <1>2. CallKept(q, locks[r])
    BY DEF SessionInv
  <1>3. q.new = None /\ LocksRow(q)
    BY <1>1, <1>2 DEF CallKept, HasSeen, Validated
  <1>4. \/ t.seen = None
        \/ /\ t.seen \in SessionIds /\ session[t.seen].status # "NONE"
           /\ session[t.seen].emp = t.emp
           /\ t.pc = "body" => /\ session[t.seen].status = "OPEN"
                               /\ SessionRow(t.seen) \in locks'[r]
    <2>1. CASE LockOpenSession(r)
      <3>1. t.seen \in FindOpenForEmployee(q.emp)
        BY <2>1, LockOpenSessionMoves
      <3>2. t.pc = "body" /\ t.seen # None => SessionRow(t.seen) \in locks'[r]
        BY <2>1, LockOpenSessionMoves
      <3>3. t.seen = None \/ /\ t.seen \in SessionIds /\ session[t.seen].status = "OPEN"
                             /\ session[t.seen].emp = q.emp
        BY <3>1 DEF FindOpenForEmployee, OpenSessions, SessionsOf
      <3> QED
        BY <1>1, <3>2, <3>3
    <2>2. CASE RowReleased(r)
      <3>1. q.pc = "rowWait" /\ q.seen \in SessionIds
        BY <2>2, RowReleasedMoves
      <3>2. session[q.seen].status # "NONE" /\ session[q.seen].emp = q.emp
        BY <1>2, <3>1, NoneAssumption DEF CallKept, HasSeen
      <3> QED
        BY <1>1, <2>2, <3>1, <3>2, RowReleasedMoves
    <2> QED
      BY <2>1, <2>2
  <1>5. HasSeen(t, locks'[r])
    BY <1>1, <1>3, <1>4 DEF HasSeen, LocksRow
  <1>6. PeekedAt(t) /\ Validated(t) /\ ReviewTarget(t) /\ Calculates(t)
    BY <1>1, <1>2, <1>3 DEF CallKept, PeekedAt, Validated, ReviewTarget, Calculates
  <1> QED
    BY <1>1, <1>3, <1>5, <1>6, SessionMove DEF CallKept

\* The records a call calculates are those of the day it acts on and of the day
\* of the session it abandons.
LEMMA CalculatedWhere ==
    ASSUME NEW q \in Call, NEW d, d \in CalculatedDates(q)
    PROVE  /\ q.op \in Punches \cup DayOps \cup {"APPROVE"}
           /\ \/ d = q.date
              \/ q.op = "CHECK_IN" /\ q.seen # None /\ d = session[q.seen].date
  <1>1. CASE q.op = "CHECK_IN"
    <2>1. d = q.date \/ (q.seen # None /\ d = session[q.seen].date)
      BY <1>1 DEF CalculatedDates
    <2> QED
      BY <1>1, <2>1 DEF Punches
  <1>2. CASE q.op \in {"BREAK_START", "BREAK_END"}
    <2>1. d = q.date
      BY <1>2 DEF CalculatedDates
    <2> QED
      BY <1>2, <2>1 DEF Punches
  <1>3. CASE q.op \in {"CHECK_OUT", "APPROVE"} \cup DayOps
    <2>1. CalculatedDates(q) = {q.date}
      BY <1>3 DEF CalculatedDates, DayOps
    <2> QED
      BY <1>3, <2>1 DEF Punches
  <1>4. CASE q.op \notin Punches \cup DayOps \cup {"APPROVE"}
    BY <1>4 DEF CalculatedDates, Punches, DayOps
  <1> QED
    BY <1>1, <1>2, <1>3, <1>4 DEF Punches

\* The body: what it validates holds, and the session it inserts is nobody else's.
LEMMA SessionBody ==
    ASSUME TypeInv, SessionInv, NEW r \in Requests, Step(r), Body(r)
    PROVE  SessionInv'
  <1> DEFINE q == req[r]
             t == req'[r]
  <1>1. /\ q.pc = "body" /\ BodyAllows(q) /\ t.pc = "commit"
        /\ UNCHANGED <<session, correction>> /\ UNCHANGED locks
        /\ t.op = q.op /\ t.peek = q.peek /\ t.seen = q.seen
        /\ t.emp = q.emp /\ t.date = q.date /\ t.prev = q.prev
        /\ t.field = q.field /\ t.value = q.value
        /\ t.new \in NewSession(q) /\ t.corr \in NewCorrection(q)
    BY BodyMoves DEF SameOrigin, SamePlace, stored
  <1>2. CallKept(q, locks[r])
    BY DEF SessionInv
  <1>3. PeekedAt(t) /\ HasSeen(t, locks'[r])
    BY <1>1, <1>2 DEF CallKept, PeekedAt, HasSeen, LocksRow
  <1>4. IF t.op = "CHECK_IN"
        THEN /\ t.new \in SessionIds /\ session[t.new].status = "NONE"
             /\ \A p \in Requests : req[p].new # t.new
        ELSE t.new = None
    BY <1>1 DEF NewSession, FreshSessions
  <1>5. Validated(t)
    <2>1. CASE t.op = "CHECK_IN"
      <3>1. CheckInAllows(q)
        BY <1>1, <2>1 DEF BodyAllows, Punches, PeriodOps
      <3> QED
        BY <1>1, <1>4, <2>1, <3>1, NoneAssumption DEF CheckInAllows, Validated
    <2>2. CASE t.op \in Punches \ {"CHECK_IN"}
      <3>1. PunchAllows(q)
        BY <1>1, <2>2 DEF BodyAllows, Punches, PeriodOps
      <3> QED
        BY <1>1, <1>4, <2>2, <3>1 DEF PunchAllows, Validated
    <2>3. CASE t.op \notin Punches
      BY <1>1, <1>4, <2>3 DEF Validated, Punches
    <2> QED
      BY <2>1, <2>2, <2>3
  <1>6. ReviewTarget(t)
    BY <1>1, <1>2 DEF CallKept, ReviewTarget, NewCorrection, Reviews
  <1>7. Calculates(t)
    <2> SUFFICES ASSUME NEW d \in Dates, t.calc[d] # None
                 PROVE  /\ t.op \in Punches \cup DayOps \cup {"APPROVE"}
                        /\ \/ d = t.date
                           \/ t.op = "CHECK_IN" /\ t.seen # None /\ d = t.prev
      BY DEF Calculates
    <2>1. PICK w \in Call : SameOrigin(w, t) /\ SamePlace(w, t) /\ SameFinds(w, t)
                            /\ t.calc = Calculated(w)
      BY BodyMoves
    <2>2. d \in CalculatedDates(w) /\ w.op = t.op /\ w.date = t.date /\ w.seen = t.seen
      BY <2>1 DEF Calculated, SameOrigin, SamePlace, SameFinds
    <2>3. /\ t.op \in Punches \cup DayOps \cup {"APPROVE"}
          /\ \/ d = t.date
             \/ t.op = "CHECK_IN" /\ t.seen # None /\ d = session[t.seen].date
      BY <2>2, CalculatedWhere
    <2> QED
      BY <1>1, <1>5, <2>3 DEF Validated
  <1> QED
    BY <1>1, <1>3, <1>4, <1>5, <1>6, <1>7, SessionMove DEF CallKept

\* A commit stores only what the other calls do not rely on.
LEMMA SessionCommit ==
    ASSUME TypeInv, Intents, LockInv, ReviewInv, SessionInv,
           NEW r \in Requests, Step(r), Commit(r)
    PROVE  SessionInv'
  <1>1. req'[r] = Idle /\ locks'[r] = {}
    BY FinishIs DEF Commit, CommitPunch, CommitDay, CommitPeriod, CommitRequest, CommitReview,
                    Commits
  <1>2. \A p \in Requests \ {r} : req'[p] = req[p] /\ locks'[p] = locks[p]
    BY OthersUnmoved
  <1>3. ASSUME NEW s \in SessionIds, session'[s].status = "NONE"
        PROVE  session'[s] = NoSession
    <2>1. session[s] \in Session /\ req[r] \in Call
      BY DEF TypeInv, TypeOK
    <2>2. Inserted(req[r]).status = "OPEN"
      BY DEF Inserted, NoSession
    <2>3. session[s].status # "NONE" => Written(req[r], session[s]).status # "NONE"
      BY <2>1, WrittenTyped
    <2> QED
      BY <1>3, <2>2, <2>3, CommitSessions DEF SessionInv, UnusedEmpty
  <1>4. ASSUME NEW c \in CorrectionIds, correction'[c].status = "NONE"
        PROVE  correction'[c] = NoCorrection
    <2>1. correction[c] \in Correction
      BY DEF TypeInv, TypeOK
    <2>2. /\ [correction[c] EXCEPT !.status = "APPROVED"].status = "APPROVED"
          /\ [correction[c] EXCEPT !.status = "REJECTED"].status = "REJECTED"
      BY <2>1 DEF Correction
    <2>3. [status |-> "PENDING", emp |-> req[r].emp, date |-> req[r].date,
           field |-> req[r].field, value |-> req[r].value].status = "PENDING"
      OBVIOUS
    <2>4. correction'[c] = correction[c]
      BY <1>4, <2>2, <2>3, CommitCorrections, Zenon
    <2> QED
      BY <1>4, <2>4 DEF SessionInv, UnusedEmpty
  <1>5. UnusedEmpty'
    BY <1>3, <1>4 DEF UnusedEmpty, NoSession, NoCorrection
  <1>6. OwnSession'
    BY <1>1, <1>2 DEF SessionInv, OwnSession, Idle
  <1>7. ASSUME NEW p \in Requests PROVE CallKept(req[p], locks[p])'
    <2>1. CASE p = r
      BY <1>1, <2>1 DEF CallKept, PeekedAt, HasSeen, Validated, ReviewTarget, Calculates, Idle,
                        Reviews, Punches
    <2>2. CASE p # r
      BY <2>2, OtherCallKept
    <2> QED
      BY <2>1, <2>2
  <1> QED
    BY <1>5, <1>6, <1>7 DEF SessionInv

\* Every step keeps SessionInv.
LEMMA StepSessions ==
    TypeInv /\ Intents /\ LockInv /\ ReviewInv /\ SessionInv /\ [Next]_vars => SessionInv'
  <1> SUFFICES ASSUME TypeInv, Intents, LockInv, ReviewInv, SessionInv, [Next]_vars
               PROVE  SessionInv'
    OBVIOUS
  <1>1. CASE UNCHANGED <<session, correction, req, locks>>
    <2>1. UnusedEmpty' /\ OwnSession'
      BY <1>1 DEF SessionInv, UnusedEmpty, OwnSession, NoSession, NoCorrection
    <2>2. ASSUME NEW r \in Requests PROVE CallKept(req[r], locks[r])'
      <3>1. CallKept(req'[r], locks'[r])
        BY <1>1 DEF SessionInv
      <3> QED
        BY <1>1, <3>1 DEF CallKept, PeekedAt, HasSeen, Validated, ReviewTarget, Calculates,
                          SessionRow, LocksRow, PunchAllows, OpenBreak
    <2> QED
      BY <2>1, <2>2 DEF SessionInv
  <1>2. ASSUME NEW r \in Requests, Arrive(r) \/ Step(r) \/ Abort(r) PROVE SessionInv'
    <2>1. CASE Commit(r)
      BY <2>1, SessionCommit DEF Step
    <2>2. CASE Arrive(r)
      BY <2>2, SessionArrive
    <2>3. CASE ~Commit(r) /\ Finish(r)
      <3>1. UNCHANGED <<session, correction>>
        BY <1>2, <2>3, OnlyCommitStores DEF stored
      <3> QED
        BY <1>2, <2>3, <3>1, SessionFinish
    <2>4. CASE Abort(r)
      BY <2>3, <2>1, <2>4 DEF Abort
    <2>5. CASE Step(r) /\ ~Finish(r) /\ ~Commit(r)
      BY <2>5, SessionPeek, SessionLockCorrection, SessionLockDay, SessionLockRow, SessionBody
      DEF Step, Acquire, PeekNothing, ReplayUnderLock, RefuseBody, RecalculationFailed,
          DuplicateRefused
    <2> QED
      BY <1>2, <2>1, <2>2, <2>3, <2>4, <2>5
  <1> QED
    BY <1>1, <1>2 DEF Next, Tick, vars, stored

\* SessionInv holds in every reachable state.
LEMMA AlwaysSessions == Spec => []SessionInv
  <1>1. Init => SessionInv
    BY DEF Init, SessionInv, UnusedEmpty, OwnSession, CallKept, PeekedAt, HasSeen, Validated,
           ReviewTarget, Calculates, Idle, Reviews, Punches, NoSession, NoCorrection
  <1> QED
    BY <1>1, AlwaysTyped, AlwaysIntents, AlwaysLocks, AlwaysReview, StepSessions, PTL DEF Spec

\* One step's part of SessionHistory.
SessionStays(s) ==
    LET x == session[s]  y == session'[s] IN
    /\ x.status \in {"CLOSED", "ABANDONED"} => y = x
    /\ x.status = "OPEN" =>
          /\ y.status # "NONE" /\ y.breaks >= x.breaks
          /\ y.emp = x.emp /\ y.date = x.date /\ y.checkIn = x.checkIn
    /\ x.status = "NONE" => y.status \in {"NONE", "OPEN"}

\* However many calls act on an employee's sessions at the same time, a session
\* that is closed or abandoned stays as it is and an open one keeps its identity
\* and its break events: a call writes only the open session whose row it holds.
THEOREM SessionsKeepTheirHistory == Spec => SessionHistory
  <1> DEFINE I == TypeInv /\ Intents /\ SessionInv
             Stays == \A s \in SessionIds : SessionStays(s)
  <1>1. I /\ [Next]_vars => [Stays]_vars
    <2> SUFFICES ASSUME I, [Next]_vars, NEW s \in SessionIds PROVE SessionStays(s)
      OBVIOUS
    <2>1. session[s] \in Session
      BY DEF TypeInv, TypeOK
    <2>2. CASE session'[s] = session[s]
      BY <2>1, <2>2 DEF SessionStays, Session
    <2>3. ASSUME NEW r \in Requests, Commit(r) PROVE SessionStays(s)
      <3>1. req[r] \in Call
        BY DEF TypeInv, TypeOK
      <3>2. Inserted(req[r]).status = "OPEN"
        BY DEF Inserted, NoSession
      <3> QED
        BY <2>1, <2>2, <2>3, <3>1, <3>2, CommitSessions, WrittenKeeps DEF SessionStays
    <2>4. ASSUME NEW r \in Requests, Arrive(r) \/ Step(r) \/ Abort(r), ~Commit(r)
          PROVE  SessionStays(s)
      BY <2>2, <2>4, OnlyCommitStores DEF stored
    <2> QED
      BY <2>2, <2>3, <2>4 DEF Next, Tick, vars, stored
  <1>2. SessionHistory <=> [][Stays]_vars
    BY DEF SessionHistory, SessionStays
  <1> QED
    BY <1>1, <1>2, AlwaysTyped, AlwaysIntents, AlwaysSessions, PTL DEF Spec

-----------------------------------------------------------------------------
(* A closed month                                                          *)

\* What a commit leaves in the daily records.
LEMMA CommitRecords ==
    ASSUME TypeInv, SessionInv, NEW r \in Requests, Commit(r),
           NEW e \in Employees, NEW d \in Dates
    PROVE  record'[e][d] = IF /\ e = req[r].emp /\ req[r].calc[d] # None
                              /\ ~(req[r].op = "MATERIALIZE" /\ record[e][d] # None)
                           THEN req[r].calc[d] ELSE record[e][d]
  <1> DEFINE q == req[r]
  <1>1. q.pc = "commit" /\ Calculates(q) /\ record \in [Employees -> [Dates -> DayRecord \cup {None}]]
    BY DEF SessionInv, CallKept, TypeInv, TypeOK, Commit, CommitPunch, CommitDay, CommitPeriod,
           CommitRequest, CommitReview, Commits
  <1>2. CASE CommitPunch(r) \/ CommitDay(r) \/ CommitReview(r)
    <2>1. record' = RecordsAfter(q)
      BY <1>2 DEF CommitPunch, CommitDay, CommitReview
    <2> QED
      BY <1>1, <2>1 DEF RecordsAfter
  <1>3. CASE CommitPeriod(r) \/ CommitRequest(r)
    <2>1. record' = record /\ q.op \in PeriodOps \cup {"REQUEST"}
      BY <1>3 DEF CommitPeriod, CommitRequest, Commits
    <2>2. q.calc[d] = None
      BY <1>1, <2>1 DEF Calculates, PeriodOps, Punches, DayOps
    <2> QED
      BY <2>1, <2>2
  <1> QED
    BY <1>2, <1>3 DEF Commit

\* The ledger of a month is the same when what changes has other dates.
LEMMA LedgerUnchanged ==
    ASSUME NEW m,
           \A s \in SessionIds :
              \/ session'[s] = session[s]
              \/ \A d \in Dates : MonthOf[d] = m => session[s].date # d /\ session'[s].date # d,
           \A c \in CorrectionIds :
              \/ correction'[c] = correction[c]
              \/ \A d \in Dates : MonthOf[d] = m => correction[c].date # d /\ correction'[c].date # d,
           \A e \in Employees, d \in Dates : MonthOf[d] = m => record'[e][d] = record[e][d]
    PROVE  MonthLedger(m)' = MonthLedger(m)
  <1> DEFINE days == {d \in Dates : MonthOf[d] = m}
             S == {<<s, session[s]>> : s \in {x \in SessionIds : session[x].date \in days}}
             T == {<<s, session'[s]>> : s \in {x \in SessionIds : session'[x].date \in days}}
             C == {<<c, correction[c]>> : c \in {x \in CorrectionIds : correction[x].date \in days}}
             D == {<<c, correction'[c]>> : c \in {x \in CorrectionIds : correction'[x].date \in days}}
             R == [e \in Employees |-> [d \in days |-> record[e][d]]]
             Q == [e \in Employees |-> [d \in days |-> record'[e][d]]]
  <1>1. S = T
    <2>1. \A x \in SessionIds : \/ session'[x] = session[x]
                                \/ session[x].date \notin days /\ session'[x].date \notin days
      OBVIOUS
    <2> HIDE DEF days
    <2> QED
      BY <2>1
  <1>2. C = D
    <2>1. \A x \in CorrectionIds : \/ correction'[x] = correction[x]
                                   \/ correction[x].date \notin days /\ correction'[x].date \notin days
      OBVIOUS
    <2> HIDE DEF days
    <2> QED
      BY <2>1
  <1>3. R = Q
    OBVIOUS
  <1> QED
    BY <1>1, <1>2, <1>3 DEF MonthLedger

\* A commit stores nothing about a month that stays closed.
LEMMA CommitOutsideClosed ==
    ASSUME TypeInv, Intents, PeriodInv, ReviewInv, SessionInv, NEW r \in Requests, Commit(r),
           ~CommitPeriod(r), NEW m \in Months, period[m] = "CLOSED"
    PROVE  MonthLedger(m)' = MonthLedger(m)
  <1> DEFINE q == req[r]
  <1>1. /\ q.pc = "commit" /\ q.op \notin PeriodOps /\ q \in Call
        /\ CallTyped(q, locks[r]) /\ HoldsPeriod(q, locks[r]) /\ CallKept(q, locks[r])
    BY DEF SessionInv, PeriodInv, TypeInv, TypeOK, Calls, Commit, CommitPunch, CommitDay,
           CommitRequest, CommitReview, Commits, PeriodOps, Punches, DayOps, Reviews
  <1>2. MonthOf[q.date] # m /\ q.date \in Dates
    BY <1>1 DEF HoldsPeriod, CallTyped, Inside
  <1>3. \A s \in SessionIds : session[s].status = "OPEN" => MonthOf[session[s].date] # m
    BY DEF PeriodInv, ClosedPeriodHasNoOpenSession
  <1>4. 0 \notin Dates
    BY BoundsAssumption DEF Dates
  <1>5. ASSUME NEW s \in SessionIds, session'[s] # session[s], NEW d \in Dates, MonthOf[d] = m
        PROVE  session[s].date # d /\ session'[s].date # d
    <2>1. session[s] \in Session
      BY DEF TypeInv, TypeOK
    <2>2. CASE session[s].status = "NONE" /\ session'[s] = Inserted(q)
      <3>1. session[s].date = 0 /\ session'[s].date = q.date
        BY <2>2 DEF SessionInv, UnusedEmpty, NoSession, Inserted
      <3> QED
        BY <1>2, <1>4, <1>5, <3>1
    <2>3. CASE session[s].status = "OPEN" /\ session'[s] = Written(q, session[s])
      BY <1>1, <1>3, <1>5, <2>1, <2>3, WrittenKeeps
    <2> QED
      BY <1>5, <2>2, <2>3, CommitSessions
  <1>6. ASSUME NEW c \in CorrectionIds, correction'[c] # correction[c], NEW d \in Dates,
               MonthOf[d] = m
        PROVE  correction[c].date # d /\ correction'[c].date # d
    <2>1. correction[c] \in Correction
      BY DEF TypeInv, TypeOK
    <2>2. CASE q.op = "REQUEST"
      <3>0. /\ q.op \notin Reviews
            /\ [status |-> "PENDING", emp |-> q.emp, date |-> q.date, field |-> q.field,
                value |-> q.value].date = q.date
        BY <2>2 DEF Reviews
      <3>1. correction[c].status = "NONE" /\ correction'[c].date = q.date
        BY <1>6, <3>0, CommitCorrections, Zenon
      <3>2. correction[c].date = 0
        BY <3>1 DEF SessionInv, UnusedEmpty, NoCorrection
      <3> QED
        BY <1>2, <1>4, <1>6, <3>1, <3>2
    <2>3. CASE q.op # "REQUEST"
      <3>1. c = q.corr /\ q.op \in Reviews
        BY <1>6, <2>3, CommitCorrections
      <3>2. correction[c].date = q.date
        BY <1>1, <3>1 DEF CallKept, ReviewTarget
      <3>3. /\ [correction[c] EXCEPT !.status = "APPROVED"].date = correction[c].date
            /\ [correction[c] EXCEPT !.status = "REJECTED"].date = correction[c].date
        BY <2>1 DEF Correction
      <3>4. correction'[c].date = correction[c].date
        BY <1>6, <2>3, <3>3, CommitCorrections
      <3> QED
        BY <1>2, <1>6, <3>2, <3>4
    <2> QED
      BY <2>2, <2>3
  <1>7. ASSUME NEW e \in Employees, NEW d \in Dates, MonthOf[d] = m
        PROVE  record'[e][d] = record[e][d]
    <2>1. CASE q.calc[d] = None
      BY <2>1, CommitRecords
    <2>2. CASE q.calc[d] # None
      <3>1. q.op = "CHECK_IN" /\ q.seen # None /\ d = q.prev
        BY <1>1, <1>2, <1>7, <2>2 DEF CallKept, Calculates
      <3>2. session[q.seen].status = "OPEN" /\ session[q.seen].date = d /\ q.seen \in SessionIds
        BY <1>1, <3>1 DEF CallKept, HasSeen, Validated
      <3> QED
        BY <1>3, <1>7, <3>2
    <2> QED
      BY <2>1, <2>2
  <1> QED
    BY <1>5, <1>6, <1>7, LedgerUnchanged

\* Closing or reopening a month stores nothing about any day.
LEMMA LedgerKept ==
    ASSUME UNCHANGED <<session, record, correction>>, NEW m
    PROVE  MonthLedger(m)' = MonthLedger(m)
  BY DEF MonthLedger

\* While a month is closed nothing about it changes, whatever call was under way
\* when it was closed: each call shares the month's lock from its check to its
\* commit, and closing waits for all of them.
THEOREM ClosedMonthIsFrozen == Spec => ClosedPeriodFrozen
  <1> DEFINE I == TypeInv /\ Intents /\ PeriodInv /\ ReviewInv /\ SessionInv
             Frozen == \A m \in Months : period[m] = "CLOSED" /\ period'[m] = "CLOSED"
                                             => MonthLedger(m)' = MonthLedger(m)
  <1>1. I /\ [Next]_vars => [Frozen]_vars
    <2> SUFFICES ASSUME I, [Next]_vars, NEW m \in Months, period[m] = "CLOSED"
                 PROVE  MonthLedger(m)' = MonthLedger(m)
      OBVIOUS
    <2>1. ASSUME NEW r \in Requests, Commit(r) PROVE MonthLedger(m)' = MonthLedger(m)
      <3>1. CASE CommitPeriod(r)
        BY <3>1, LedgerKept DEF CommitPeriod
      <3>2. CASE ~CommitPeriod(r)
        BY <2>1, <3>2, CommitOutsideClosed
      <3> QED
        BY <3>1, <3>2
    <2>2. CASE UNCHANGED stored
      BY <2>2, LedgerKept DEF stored
    <2>3. ASSUME NEW r \in Requests, Arrive(r) \/ Step(r) \/ Abort(r), ~Commit(r)
          PROVE  UNCHANGED stored
      BY <2>3, OnlyCommitStores
    <2> QED
      BY <2>1, <2>2, <2>3 DEF Next, Tick, vars, stored
  <1>2. ClosedPeriodFrozen <=> [][Frozen]_vars
    BY DEF ClosedPeriodFrozen
  <1> QED
    BY <1>1, <1>2, AlwaysTyped, AlwaysIntents, AlwaysPeriod, AlwaysReview, AlwaysSessions, PTL
    DEF Spec
-----------------------------------------------------------------------------
(* What a calculation is given                                             *)

\* A session, or an approved correction, of a given employee and day.
OnDay(x, e, d) == x.status # "NONE" /\ x.emp = e /\ x.date = d

ApprovedOn(c, e, d) == c.status = "APPROVED" /\ c.emp = e /\ c.date = d

\* Tables that differ only in the rows of other days give the same inputs.
LEMMA SameInputs ==
    ASSUME NEW A, NEW B, NEW C, NEW D, NEW e, NEW d,
           \A s \in SessionIds :
              B[s] = A[s] \/ (~OnDay(A[s], e, d) /\ ~OnDay(B[s], e, d)),
           \A c \in CorrectionIds : ApprovedOn(C[c], e, d) <=> ApprovedOn(D[c], e, d)
    PROVE  DayInputs(B, D, e, d) = DayInputs(A, C, e, d)
  <1>1. DaySessions(A, e, d) = DaySessions(B, e, d)
    BY DEF DaySessions, OnDay
  <1>2. \A s \in DaySessions(A, e, d) : B[s] = A[s]
    BY DEF DaySessions, OnDay
  <1>3. Approved(C, e, d) = Approved(D, e, d)
    BY DEF Approved, ApprovedOn
  <1>4. {<<s, A[s]>> : s \in DaySessions(A, e, d)} = {<<s, B[s]>> : s \in DaySessions(B, e, d)}
    BY <1>1, <1>2
  <1> QED
    BY <1>3, <1>4 DEF DayInputs

\* The rows a call writes depend on who calls, where it acts and what it found.
LEMMA SameAfter ==
    ASSUME NEW q, NEW t, SameOrigin(q, t), SamePlace(q, t), SameFinds(q, t)
    PROVE  SessionAfter(q) = SessionAfter(t) /\ CorrectionAfter(q) = CorrectionAfter(t)
  <1>1. /\ q.op = t.op /\ q.at = t.at /\ q.emp = t.emp /\ q.date = t.date /\ q.field = t.field
        /\ q.value = t.value /\ q.seen = t.seen /\ q.new = t.new /\ q.corr = t.corr
    BY DEF SameOrigin, SamePlace, SameFinds
  <1>2. \A x : Written(q, x) = Written(t, x)
    BY <1>1, Zenon DEF Written
  <1>3. Inserted(q) = Inserted(t)
    BY <1>1, Zenon DEF Inserted
  <1>4. CorrectionAfter(q) = CorrectionAfter(t)
    BY <1>1, Zenon DEF CorrectionAfter
  <1> QED
    BY <1>1, <1>2, <1>3, <1>4 DEF SessionAfter

\* The days a call changes, and those whose record it writes, are locked by it.
LEMMA WritesLocked ==
    ASSUME NEW q, NEW L, Held(q, L), CallKept(q, L), q.pc = "commit", NEW d \in Dates,
           d \in Writes(q) \/ q.calc[d] # None
    PROVE  DayLock(q.emp, d) \in L
  <1>1. q.op \in Punches \cup DayOps \cup {"APPROVE"}
    BY DEF CallKept, Calculates, Writes
  <1>2. \A x \in DaysOf(q) : DayLock(q.emp, x) \in L
    BY <1>1 DEF Held, DaysLocked, LocksDays, PeriodOps, Punches, DayOps
  <1>3. d = q.date \/ d = q.prev
    BY DEF CallKept, Calculates, Writes
  <1>4. d # 0
    BY BoundsAssumption DEF Dates
  <1> QED
    BY <1>2, <1>3, <1>4 DEF DaysOf

\* A commit publishes the tables as its transaction sees them.
LEMMA CommitStores ==
    ASSUME TypeInv, Intents, SessionInv, NEW r \in Requests, Commit(r)
    PROVE  /\ \A s \in SessionIds : session'[s] = SessionAfter(req[r])[s]
           /\ correction' = CorrectionAfter(req[r])
  <1> DEFINE q == req[r]
  <1>1. q.pc = "commit" /\ CallKept(q, locks[r]) /\ Intent(q)
    BY DEF SessionInv, Intents, Commit, CommitPunch, CommitDay, CommitPeriod, CommitRequest,
           CommitReview, Commits
  <1>2. CASE CommitPunch(r)
    <2>1. session' = SessionAfter(q) /\ correction' = correction /\ q.op \in Punches
      BY <1>2 DEF CommitPunch, Commits
    <2>2. CorrectionAfter(q) = correction
      BY <2>1 DEF CorrectionAfter, Punches
    <2> QED
      BY <2>1, <2>2
  <1>3. CASE CommitReview(r)
    BY <1>3 DEF CommitReview
  <1>4. CASE CommitDay(r) \/ CommitPeriod(r) \/ CommitRequest(r)
    <2>1. q.op \in DayOps \cup PeriodOps \cup {"REQUEST"} /\ session' = session
      BY <1>4 DEF CommitDay, CommitPeriod, CommitRequest, Commits
    <2>2. q.new = None /\ q.seen = None
      BY <1>1, <2>1 DEF CallKept, HasSeen, LocksRow, Intent, DayOps, PeriodOps, Punches
    <2>3. \A s \in SessionIds : SessionAfter(q)[s] = session[s]
      BY <2>2, NoneAssumption DEF SessionAfter
    <2>4. CASE CommitDay(r) \/ CommitPeriod(r)
      <3>1. q.op \in DayOps \cup PeriodOps /\ correction' = correction
        BY <2>4 DEF CommitDay, CommitPeriod, Commits
      <3>2. CorrectionAfter(q) = correction
        BY <3>1 DEF CorrectionAfter, DayOps, PeriodOps
      <3> QED
        BY <2>1, <2>3, <3>1, <3>2
    <2>5. CASE CommitRequest(r)
      BY <2>1, <2>3, <2>5 DEF CommitRequest
    <2> QED
      BY <1>4, <2>4, <2>5
  <1> QED
    BY <1>2, <1>3, <1>4 DEF Commit

\* A commit changes the sessions and approved corrections of the days it writes
\* and of no other.
LEMMA CommitChanges ==
    ASSUME TypeInv, Intents, ReviewInv, SessionInv, NEW r \in Requests, Commit(r),
           NEW e, NEW d, ~(e = req[r].emp /\ d \in Writes(req[r]))
    PROVE  /\ \A s \in SessionIds :
                 session'[s] = session[s] \/ (~OnDay(session[s], e, d) /\ ~OnDay(session'[s], e, d))
           /\ \A c \in CorrectionIds :
                 ApprovedOn(correction[c], e, d) <=> ApprovedOn(correction'[c], e, d)
  <1> DEFINE q == req[r]
  <1>1. q.pc = "commit" /\ CallKept(q, locks[r]) /\ Intent(q) /\ q \in Call
    BY DEF SessionInv, Intents, Commit, CommitPunch, CommitDay, CommitPeriod, CommitRequest,
           CommitReview, Commits, TypeInv, TypeOK
  <1>2. ASSUME NEW s \in SessionIds, session'[s] # session[s]
        PROVE  ~OnDay(session[s], e, d) /\ ~OnDay(session'[s], e, d)
    <2>1. CASE /\ q.op = "CHECK_IN" /\ session[s].status = "NONE"
               /\ session'[s] = Inserted(q)
      <3>1. session'[s].emp = q.emp /\ session'[s].date = q.date
        BY <2>1 DEF Inserted, NoSession
      <3>2. q.date \in Writes(q)
        BY <2>1 DEF Writes, Punches
      <3> QED
        BY <2>1, <3>1, <3>2 DEF OnDay
    <2>2. CASE /\ s = q.seen /\ LocksRow(q) /\ session[s].status = "OPEN"
               /\ session[s].emp = q.emp /\ session'[s] = Written(q, session[s])
      <3>1. session[s] \in Session /\ q.seen # None
        BY <2>2, NoneAssumption DEF TypeInv, TypeOK
      <3>2. session'[s].emp = q.emp /\ session'[s].date = session[s].date
        BY <1>1, <2>2, <3>1, WrittenKeeps
      <3>3. session[s].date \in Writes(q)
        <4>1. CASE q.op = "CHECK_IN"
          BY <1>1, <2>2, <3>1, <4>1 DEF CallKept, Validated, Writes, Punches
        <4>2. CASE q.op \in Punches \ {"CHECK_IN"}
          BY <1>1, <2>2, <3>1, <4>2 DEF CallKept, Validated, PunchAllows, PeekedAt, Writes, Punches
        <4>3. CASE q.op \notin Punches
          <5>1. q.op = "APPROVE"
            BY <2>2, <4>3 DEF LocksRow
          <5>2. session[s].date = q.date
            BY <1>2, <2>2, <5>1 DEF Written
          <5> QED
            BY <5>1, <5>2 DEF Writes, Punches
        <4> QED
          BY <4>1, <4>2, <4>3
      <3> QED
        BY <2>2, <3>2, <3>3 DEF OnDay
    <2> QED
      BY <1>2, <2>1, <2>2, CommitSessions
  <1>3. ASSUME NEW c \in CorrectionIds
        PROVE  ApprovedOn(correction[c], e, d) <=> ApprovedOn(correction'[c], e, d)
    <2>1. correction[c] \in Correction
      BY DEF TypeInv, TypeOK
    <2>2. CASE correction'[c] = correction[c]
      BY <2>2
    <2>3. CASE /\ correction[c].status = "NONE"
               /\ correction'[c] = [status |-> "PENDING", emp |-> q.emp, date |-> q.date,
                                    field |-> q.field, value |-> q.value]
      <3>1. correction'[c].status = "PENDING"
        BY <2>3
      <3> QED
        BY <2>3, <3>1 DEF ApprovedOn
    <2>4. CASE /\ correction[c].status = "PENDING"
               /\ correction'[c] = [correction[c] EXCEPT !.status = "REJECTED"]
      <3>1. correction'[c].status = "REJECTED"
        BY <2>1, <2>4 DEF Correction
      <3> QED
        BY <2>4, <3>1 DEF ApprovedOn
    <2>5. CASE /\ c = q.corr /\ q.op = "APPROVE" /\ correction[c].status = "PENDING"
               /\ correction'[c] = [correction[c] EXCEPT !.status = "APPROVED"]
      <3>1. correction'[c].emp = correction[c].emp /\ correction'[c].date = correction[c].date
        BY <2>1, <2>5 DEF Correction
      <3>2. correction[c].emp = q.emp /\ correction[c].date = q.date
        BY <1>1, <2>5 DEF CallKept, ReviewTarget, Reviews
      <3>3. q.date \in Writes(q)
        BY <2>5 DEF Writes, Punches
      <3> QED
        BY <2>5, <3>1, <3>2, <3>3 DEF ApprovedOn
    <2> QED
      BY <2>2, <2>3, <2>4, <2>5, CommitCorrections, Zenon
  <1> QED
    BY <1>2, <1>3

\* What a commit leaves of a day it does not change.
LEMMA CommitElsewhere ==
    ASSUME TypeInv, Intents, ReviewInv, SessionInv, NEW r \in Requests, Commit(r),
           NEW e, NEW d, ~(e = req[r].emp /\ d \in Writes(req[r]))
    PROVE  DayInputs(session', correction', e, d) = DayInputs(session, correction, e, d)
  BY CommitChanges, SameInputs

\* The commit of prepared records leaves every stored record fresh.
LEMMA CommitFresh ==
    ASSUME TypeInv, Intents, ReviewInv, SessionInv, RecordFresh,
           NEW r \in Requests, Commit(r), Prepared(req[r])
    PROVE  RecordFresh'
  <1> DEFINE q == req[r]
  <1>1. q.pc = "commit" /\ CallKept(q, locks[r])
    BY DEF SessionInv, Commit, CommitPunch, CommitDay, CommitPeriod, CommitRequest,
           CommitReview, Commits
  <1> SUFFICES ASSUME NEW e \in Employees, NEW d \in Dates, record'[e][d] # None
               PROVE  record'[e][d] = DayInputs(session', correction', e, d)
    BY DEF RecordFresh, DayInputs, DaySessions, Approved
  <1>2. CASE e = q.emp /\ q.calc[d] # None /\ ~(q.op = "MATERIALIZE" /\ record[e][d] # None)
    <2>1. record'[e][d] = DayInputs(SessionAfter(q), CorrectionAfter(q), e, d)
      BY <1>1, <1>2, CommitRecords DEF Prepared
    <2>2. DayInputs(session', correction', e, d)
             = DayInputs(SessionAfter(q), CorrectionAfter(q), e, d)
      BY CommitStores, SameInputs
    <2> QED
      BY <2>1, <2>2
  <1>3. CASE ~(e = q.emp /\ q.calc[d] # None) \/ (q.op = "MATERIALIZE" /\ record[e][d] # None)
    <2>1. record'[e][d] = record[e][d]
      BY <1>3, CommitRecords
    <2>2. ~(e = q.emp /\ d \in Writes(q))
      BY <1>1, <1>3, <2>1 DEF Prepared, Writes, Punches
    <2>3. DayInputs(session', correction', e, d) = DayInputs(session, correction, e, d)
      BY <2>2, CommitElsewhere
    <2> QED
      BY <2>1, <2>3 DEF RecordFresh
  <1> QED
    BY <1>2, <1>3

\* A commit of one call leaves alone what another is about to write, and the
\* records of the days it changes.
LEMMA OtherPrepared ==
    ASSUME TypeInv, Intents, LockInv, ReviewInv, SessionInv,
           NEW r \in Requests, Step(r), Commit(r), NEW p \in Requests \ {r}, Prepared(req[p])
    PROVE  Prepared(req[p])'
  <1> DEFINE q == req[p]
             w == req[r]
             A == SessionAfter(q)
             B == SessionAfter(req[p])'
             C == CorrectionAfter(q)
             D == CorrectionAfter(req[p])'
  <1>0. req'[p] = q
    BY OthersUnmoved
  <1> SUFFICES ASSUME q.pc = "commit", NEW d \in Dates
               PROVE  /\ q.calc[d] # None => q.calc[d] = DayInputs(B, D, q.emp, d)
                      /\ d \in Writes(q) /\ record'[q.emp][d] # None => q.calc[d] # None
    BY <1>0 DEF Prepared
  <1>1. /\ CallKept(q, locks[p]) /\ Held(q, locks[p]) /\ ReviewCall(q, locks[p])
        /\ CallTyped(q, locks[p])
        /\ w.pc = "commit" /\ CallKept(w, locks[r]) /\ Held(w, locks[r])
    BY DEF SessionInv, LockInv, ReviewInv, TypeInv, Calls, Commit, CommitPunch, CommitDay,
           CommitPeriod, CommitRequest, CommitReview, Commits
  <1>2. ASSUME d \in Writes(q) \/ q.calc[d] # None
        PROVE  ~(q.emp = w.emp /\ (d \in Writes(w) \/ w.calc[d] # None))
    <2>1. DayLock(q.emp, d) \in locks[p]
      BY <1>1, <1>2, WritesLocked
    <2>2. DayLock(q.emp, d) \notin locks[r]
      BY <2>1 DEF LockInv, Exclusion
    <2> QED
      BY <1>1, <2>2, WritesLocked
  <1>3. ASSUME d \in Writes(q), record'[q.emp][d] # None PROVE q.calc[d] # None
    <2>1. ~(q.emp = w.emp /\ w.calc[d] # None)
      BY <1>2, <1>3
    <2>2. q.emp \in Employees
      <3>1. q.op \notin PeriodOps
        BY <1>3 DEF Writes, Punches, PeriodOps
      <3> QED
        BY <1>1, <3>1 DEF CallTyped
    <2>3. record'[q.emp][d] = record[q.emp][d]
      BY <2>1, <2>2, CommitRecords
    <2> QED
      BY <1>3, <2>3 DEF Prepared
  <1>4. ASSUME q.calc[d] # None PROVE q.calc[d] = DayInputs(B, D, q.emp, d)
    <2>1. ~(q.emp = w.emp /\ d \in Writes(w))
      BY <1>2, <1>4
    <2>2. /\ \A s \in SessionIds :
                 session'[s] = session[s]
                 \/ (~OnDay(session[s], q.emp, d) /\ ~OnDay(session'[s], q.emp, d))
          /\ \A c \in CorrectionIds :
                 ApprovedOn(correction[c], q.emp, d) <=> ApprovedOn(correction'[c], q.emp, d)
      BY <2>1, CommitChanges
    <2>3. ASSUME NEW s \in SessionIds
          PROVE  B[s] = A[s] \/ (~OnDay(A[s], q.emp, d) /\ ~OnDay(B[s], q.emp, d))
      <3>1. B[s] = IF s = q.new THEN Inserted(q)
                   ELSE IF s = q.seen THEN Written(q, session'[s]) ELSE session'[s]
        BY <1>0 DEF SessionAfter
      <3>2. A[s] = IF s = q.new THEN Inserted(q)
                   ELSE IF s = q.seen THEN Written(q, session[s]) ELSE session[s]
        BY DEF SessionAfter
      <3>3. CASE s = q.seen
        <4>1. SessionRow(s) \in locks[p] /\ session[s].status = "OPEN"
          BY <1>1, <3>3, NoneAssumption DEF CallKept, HasSeen
        <4>2. SessionRow(s) \notin locks[r]
          BY <4>1 DEF LockInv, Exclusion
        <4>3. session'[s] = session[s]
          BY <4>1, <4>2, CommitSessions
        <4> QED
          BY <3>1, <3>2, <4>3
      <3>4. CASE s # q.seen
        BY <2>2, <3>1, <3>2, <3>4
      <3> QED
        BY <3>3, <3>4
    <2>4. ASSUME NEW c \in CorrectionIds
          PROVE  ApprovedOn(C[c], q.emp, d) <=> ApprovedOn(D[c], q.emp, d)
      <3>1. correction \in [CorrectionIds -> Correction]
            /\ correction' \in [CorrectionIds -> Correction]
        <4>1. TypeInv'
          BY StepTyped DEF Next
        <4> QED
          BY <4>1 DEF TypeInv, TypeOK
      <3>2. q.op \in Punches \cup DayOps \cup {"APPROVE"}
        BY <1>1, <1>4 DEF CallKept, Calculates
      <3>3. CASE q.op = "APPROVE" /\ c = q.corr
        <4>1. CorrectionRow(c) \in locks[p] /\ correction[c].status = "PENDING"
          BY <1>1, <3>3 DEF ReviewCall, Reviews
        <4>2. CorrectionRow(c) \notin locks[r]
          BY <4>1 DEF ReviewInv, OwnCorrection
        <4>3. correction'[c] = correction[c]
          BY <4>1, <4>2, CommitCorrections
        <4>4. C = [correction EXCEPT ![q.corr].status = "APPROVED"]
              /\ D = [correction' EXCEPT ![q.corr].status = "APPROVED"]
          BY <1>0, <3>3 DEF CorrectionAfter
        <4>5. C[c] = [correction[c] EXCEPT !.status = "APPROVED"]
              /\ D[c] = [correction'[c] EXCEPT !.status = "APPROVED"]
          BY <3>1, <3>3, <4>4
        <4> QED
          BY <4>3, <4>5
      <3>4. CASE q.op = "APPROVE" /\ c # q.corr
        <4>1. C = [correction EXCEPT ![q.corr].status = "APPROVED"]
              /\ D = [correction' EXCEPT ![q.corr].status = "APPROVED"]
          BY <1>0, <3>4 DEF CorrectionAfter
        <4>2. C[c] = correction[c] /\ D[c] = correction'[c]
          BY <3>1, <3>4, <4>1
        <4> QED
          BY <2>2, <4>2
      <3>5. CASE q.op # "APPROVE"
        <4>1. q.op \notin {"REQUEST", "APPROVE", "REJECT"}
          BY <3>2, <3>5 DEF Punches, DayOps
        <4>2. C = correction /\ D = correction'
          BY <1>0, <4>1 DEF CorrectionAfter
        <4> QED
          BY <2>2, <4>2
      <3> QED
        BY <3>3, <3>4, <3>5
    <2>5. DayInputs(B, D, q.emp, d) = DayInputs(A, C, q.emp, d)
      <3> HIDE DEF A, B, C, D
      <3> QED
        BY <2>3, <2>4, SameInputs
    <2> QED
      BY <1>4, <2>5 DEF Prepared
  <1> QED
    BY <1>3, <1>4

\* A commit puts no rival beside the target of a request about to commit.
LEMMA OtherUnrivalled ==
    ASSUME TypeInv, LockInv, ReviewInv, NEW r \in Requests, Step(r), Commit(r),
           NEW p \in Requests \ {r}, Unrivalled(req[p])
    PROVE  Unrivalled(req[p])'
  <1> DEFINE q == req[p]
             w == req[r]
  <1>0. req'[p] = q
    BY OthersUnmoved
  <1> SUFFICES ASSUME q.pc = "commit", q.op = "REQUEST", NEW c \in CorrectionIds,
                      correction'[c].status \in {"PENDING", "APPROVED"},
                      correction'[c].emp = q.emp, correction'[c].date = q.date,
                      correction'[c].field = q.field
               PROVE  FALSE
    BY <1>0 DEF Unrivalled
  <1>1. /\ Held(q, locks[p]) /\ Held(w, locks[r]) /\ w.pc = "commit"
        /\ correction[c] \in Correction
    BY DEF LockInv, TypeInv, TypeOK, Commit, CommitPunch, CommitDay, CommitPeriod, CommitRequest,
           CommitReview, Commits
  <1>2. ~ /\ correction[c].status \in {"PENDING", "APPROVED"}
          /\ correction[c].emp = q.emp /\ correction[c].date = q.date
          /\ correction[c].field = q.field
    BY DEF Unrivalled
  <1>3. CASE /\ w.op = "REQUEST"
             /\ correction'[c] = [status |-> "PENDING", emp |-> w.emp, date |-> w.date,
                                  field |-> w.field, value |-> w.value]
    <2>1. w.emp = q.emp /\ w.date = q.date
      BY <1>3
    <2>2. DayLock(q.emp, q.date) \in locks[p] /\ DayLock(q.emp, q.date) \in locks[r]
      BY <1>1, <1>3, <2>1 DEF Held, DaysLocked, LocksDays, DaysOf, PeriodOps
    <2> QED
      BY <2>2 DEF LockInv, Exclusion
  <1>4. ASSUME NEW v, correction[c].status = "PENDING",
               correction'[c] = [correction[c] EXCEPT !.status = v]
        PROVE  FALSE
    BY <1>1, <1>2, <1>4 DEF Correction
  <1>5. \/ correction'[c] = correction[c]
        \/ /\ w.op = "REQUEST"
           /\ correction'[c] = [status |-> "PENDING", emp |-> w.emp, date |-> w.date,
                                field |-> w.field, value |-> w.value]
        \/ /\ correction[c].status = "PENDING"
           /\ \/ correction'[c] = [correction[c] EXCEPT !.status = "APPROVED"]
              \/ correction'[c] = [correction[c] EXCEPT !.status = "REJECTED"]
    BY CommitCorrections, Zenon
  <1>6. CASE correction'[c] = correction[c]
    BY <1>2, <1>6
  <1> HIDE DEF q, w
  <1> QED
    BY <1>3, <1>4, <1>5, <1>6, Zenon

\* What a calculation gives is a record.
LEMMA InputsGiveRecord ==
    ASSUME TypeInv, NEW q \in Call, q.date \in Dates, q.emp \in Employees,
           q.seen \in SessionIds => session[q.seen].status # "NONE", NEW d \in Dates
    PROVE  DayInputs(SessionAfter(q), CorrectionAfter(q), q.emp, d) # None
  <1>1. SessionAfter(q) \in [SessionIds -> Session]
    BY SessionAfterTyped
  <1>2. DayInputs(SessionAfter(q), CorrectionAfter(q), q.emp, d) \in DayRecord
    BY <1>1 DEF DayInputs, DaySessions, Approved, DayRecord
  <1> QED
    BY <1>2, RecordAssumption

\* The body prepares the records of the days the call changes.
LEMMA BodyPrepares ==
    ASSUME TypeInv, PeriodInv, SessionInv, NEW r \in Requests, Body(r)
    PROVE  Prepared(req'[r])
  <1> DEFINE b == req[r]
             t == req'[r]
  <1>1. /\ b.pc = "body" /\ BodyAllows(b) /\ SameOrigin(b, t) /\ SamePlace(b, t)
        /\ t.seen = b.seen
    BY BodyMoves
  <1>2. PICK w \in Call : /\ SameOrigin(w, t) /\ SamePlace(w, t) /\ SameFinds(w, t)
                          /\ t.calc = Calculated(w)
    BY BodyMoves
  <1>3. /\ w.op = t.op /\ w.emp = t.emp /\ w.date = t.date /\ w.seen = t.seen /\ w.prev = t.prev
        /\ SessionAfter(w) = SessionAfter(t) /\ CorrectionAfter(w) = CorrectionAfter(t)
    BY <1>2, SameAfter DEF SameOrigin, SamePlace, SameFinds
  <1>4. ASSUME NEW d \in Dates, t.calc[d] # None
        PROVE  t.calc[d] = DayInputs(SessionAfter(t), CorrectionAfter(t), t.emp, d)
    BY <1>2, <1>3, <1>4 DEF Calculated
  <1>5. ASSUME NEW d \in Dates, d \in Writes(t), record[t.emp][d] # None
        PROVE  t.calc[d] # None
    <2>1. CallKept(b, locks[r]) /\ CallTyped(b, locks[r])
      BY DEF SessionInv, TypeInv, Calls
    <2>2. d \in CalculatedDates(w)
      <3>1. CASE t.op = "CHECK_IN"
        <4>1. CASE d = t.date
          BY <1>3, <1>5, <3>1, <4>1 DEF CalculatedDates
        <4>2. CASE d # t.date
          <5>1. t.seen # None /\ d = t.prev
            BY <1>5, <4>2 DEF Writes
          <5>2. session[t.seen].date = t.prev /\ session[t.seen].status = "OPEN"
                /\ t.seen \in SessionIds
            <6>1. CheckInAllows(b)
              BY <1>1, <3>1 DEF BodyAllows, SameOrigin, Punches, PeriodOps
            <6> QED
              BY <1>1, <2>1, <5>1, <6>1 DEF CheckInAllows, CallKept, HasSeen, SamePlace
          <5>3. period[MonthOf[d]] # "CLOSED"
            BY <5>1, <5>2 DEF PeriodInv, ClosedPeriodHasNoOpenSession
          <5> QED
            BY <1>3, <1>5, <3>1, <5>1, <5>2, <5>3 DEF CalculatedDates, DayOps
        <4> QED
          BY <4>1, <4>2
      <3>2. CASE t.op # "CHECK_IN"
        <4>1. d = t.date /\ t.op \in {"CHECK_OUT", "BREAK_START", "BREAK_END", "APPROVE"}
          BY <1>5, <3>2 DEF Writes, Punches
        <4> QED
          BY <1>3, <1>5, <4>1 DEF CalculatedDates, DayOps
      <3> QED
        BY <3>1, <3>2
    <2>3. t.op \in Punches \cup {"APPROVE"}
      BY <1>5 DEF Writes
    <2>4. /\ w.date \in Dates /\ w.emp \in Employees
          /\ w.seen \in SessionIds => session[w.seen].status # "NONE"
      BY <1>1, <1>3, <2>1, <2>3 DEF CallTyped, SameOrigin, SamePlace, PeriodOps, Punches
    <2> QED
      BY <1>2, <2>2, <2>4, InputsGiveRecord DEF Calculated
  <1> QED
    BY <1>4, <1>5 DEF Prepared

\* The body of a request finds no live rival.
LEMMA BodyUnrivalled ==
    ASSUME TypeInv, NEW r \in Requests, Body(r)
    PROVE  Unrivalled(req'[r])
  <1> DEFINE b == req[r]
             t == req'[r]
  <1>1. BodyAllows(b) /\ SameOrigin(b, t) /\ SamePlace(b, t)
    BY BodyMoves
  <1>2. CASE t.op = "REQUEST"
    <2>1. RequestAllows(b)
      BY <1>1, <1>2 DEF BodyAllows, SameOrigin, Punches, PeriodOps
    <2> QED
      BY <1>1, <2>1 DEF RequestAllows, Unrivalled, SamePlace
  <1>3. CASE t.op # "REQUEST"
    BY <1>3 DEF Unrivalled
  <1> QED
    BY <1>2, <1>3

\* Only the body of a call brings it to its commit.
LEMMA OnlyBodyCommits ==
    ASSUME TypeInv, NEW r \in Requests, Arrive(r) \/ Step(r) \/ Abort(r),
           req'[r].pc = "commit"
    PROVE  Body(r)
  <1>1. CASE Finish(r)
    BY <1>1, FinishIs DEF Idle
  <1>2. CASE Arrive(r)
    BY <1>2, ArriveMoves
  <1>3. CASE Step(r) /\ ~Finish(r) /\ ~Body(r)
    <2>1. ~Commit(r)
      BY <1>3 DEF Commit, CommitPunch, CommitDay, CommitPeriod, CommitRequest, CommitReview,
                  Commits
    <2>2. \/ Resolve(r) \/ PeekCheckIn(r) \/ PeekOpen(r) \/ LockCorrection(r)
          \/ LockPeriodShare(r) \/ LockPeriodExclusive(r) \/ LockDay(r)
          \/ LockOpenSession(r) \/ RowReleased(r)
      <3>1. /\ ~PeekNothing(r) /\ ~ReplayUnderLock(r) /\ ~RefuseBody(r)
            /\ ~RecalculationFailed(r) /\ ~DuplicateRefused(r)
        BY <1>3, Zenon DEF PeekNothing, ReplayUnderLock, RefuseBody, RecalculationFailed,
                    DuplicateRefused
      <3> QED
        BY <1>3, <2>1, <3>1, Zenon DEF Step, Acquire
    <2> QED
      BY <1>3, <2>2, ResolveMoves, PeekCheckInMoves, PeekOpenMoves, LockCorrectionMoves,
         LockPeriodShareMoves, LockPeriodExclusiveMoves, LockDayMoves, LockOpenSessionMoves,
         RowReleasedMoves DEF AfterPeriod
  <1> QED
    BY <1>1, <1>2, <1>3 DEF Abort

\* A step that stores nothing keeps RecordInv if every call is still prepared.
LEMMA RecordMove ==
    ASSUME RecordInv, UNCHANGED <<session, record, correction>>,
           \A r \in Requests : Prepared(req'[r]) /\ Unrivalled(req'[r])
    PROVE  RecordInv'
  <1>1. RecordFresh' /\ OneLiveCorrection'
    BY DEF RecordInv, RecordFresh, OneLiveCorrection
  <1>2. ASSUME NEW r \in Requests PROVE Prepared(req[r])' /\ Unrivalled(req[r])'
    <2>1. Prepared(req'[r]) /\ Unrivalled(req'[r])
      OBVIOUS
    <2>2. SessionAfter(req[r])' = SessionAfter(req'[r])
      BY DEF SessionAfter
    <2>3. CorrectionAfter(req[r])' = CorrectionAfter(req'[r])
      BY Zenon DEF CorrectionAfter
    <2>4. Prepared(req[r])'
      BY <2>1, <2>2, <2>3 DEF Prepared
    <2> QED
      BY <2>1, <2>4 DEF Unrivalled
  <1> QED
    BY <1>1, <1>2 DEF RecordInv

\* A commit leaves no two live corrections with the same target.
LEMMA CommitOneLive ==
    ASSUME TypeInv, ReviewInv, OneLiveCorrection, NEW r \in Requests, Commit(r),
           Unrivalled(req[r])
    PROVE  OneLiveCorrection'
  <1> DEFINE q == req[r]
             Live(c) == c.status \in {"PENDING", "APPROVED"}
             Same(c, x) == c.emp = x.emp /\ c.date = x.date /\ c.field = x.field
  <1>1. q.pc = "commit" /\ \A c \in CorrectionIds : correction[c] \in Correction
    BY DEF Commit, CommitPunch, CommitDay, CommitPeriod, CommitRequest, CommitReview, Commits,
           TypeInv, TypeOK
  <1>2. ASSUME NEW c \in CorrectionIds, Live(correction'[c])
        PROVE  \/ Live(correction[c]) /\ Same(correction'[c], correction[c])
               \/ c = q.corr /\ q.op = "REQUEST" /\ Same(correction'[c], q)
    <2>1. CASE correction'[c] = correction[c]
      BY <1>2, <2>1
    <2>2. CASE /\ c = q.corr /\ q.op = "REQUEST"
               /\ correction'[c] = [status |-> "PENDING", emp |-> q.emp, date |-> q.date,
                                    field |-> q.field, value |-> q.value]
      <3>1. Same(correction'[c], q)
        BY <2>2
      <3> QED
        BY <2>2, <3>1
    <2>3. ASSUME NEW v, correction[c].status = "PENDING",
                 correction'[c] = [correction[c] EXCEPT !.status = v]
          PROVE  Live(correction[c]) /\ Same(correction'[c], correction[c])
      BY <1>1, <2>3 DEF Correction
    <2> QED
      BY <2>1, <2>2, <2>3, CommitCorrections, Zenon
  <1> SUFFICES ASSUME NEW c \in CorrectionIds, NEW x \in CorrectionIds, c # x,
                      Live(correction'[c]), Live(correction'[x]),
                      Same(correction'[c], correction'[x])
               PROVE  FALSE
    BY DEF OneLiveCorrection
  <1>3. CASE Live(correction[c]) /\ Live(correction[x])
             /\ Same(correction'[c], correction[c]) /\ Same(correction'[x], correction[x])
    BY <1>3 DEF OneLiveCorrection
  <1>4. ASSUME NEW y \in CorrectionIds, Live(correction[y]), Same(correction[y], q),
               q.op = "REQUEST"
        PROVE  FALSE
    BY <1>1, <1>4 DEF Unrivalled
  <1> QED
    BY <1>2, <1>3, <1>4

\* A commit keeps RecordInv.
LEMMA RecordCommit ==
    ASSUME TypeInv, Intents, LockInv, ReviewInv, SessionInv, RecordInv,
           NEW r \in Requests, Step(r), Commit(r)
    PROVE  RecordInv'
  <1>1. RecordFresh'
    BY CommitFresh DEF RecordInv
  <1>2. OneLiveCorrection'
    BY CommitOneLive DEF RecordInv
  <1>3. ASSUME NEW p \in Requests PROVE Prepared(req[p])' /\ Unrivalled(req[p])'
    <2>1. CASE p = r
      <3>1. req'[r] = Idle
        BY FinishIs DEF Commit, CommitPunch, CommitDay, CommitPeriod, CommitRequest,
                        CommitReview, Commits
      <3> QED
        BY <2>1, <3>1 DEF Prepared, Unrivalled, Idle
    <2>2. CASE p # r
      BY <2>2, OtherPrepared, OtherUnrivalled DEF RecordInv
    <2> QED
      BY <2>1, <2>2
  <1> QED
    BY <1>1, <1>2, <1>3 DEF RecordInv

\* Every step keeps RecordInv.
LEMMA StepRecords ==
    TypeInv /\ Intents /\ PeriodInv /\ LockInv /\ ReviewInv /\ SessionInv /\ RecordInv
        /\ [Next]_vars => RecordInv'
  <1> SUFFICES ASSUME TypeInv, Intents, PeriodInv, LockInv, ReviewInv, SessionInv, RecordInv,
                      [Next]_vars
               PROVE  RecordInv'
    OBVIOUS
  <1>1. CASE UNCHANGED <<stored, req>>
    BY <1>1, RecordMove DEF stored, RecordInv
  <1>2. ASSUME NEW r \in Requests, Arrive(r) \/ Step(r) \/ Abort(r) PROVE RecordInv'
    <2>1. CASE Commit(r)
      BY <2>1, RecordCommit DEF Step
    <2>2. CASE ~Commit(r)
      <3>1. UNCHANGED stored
        BY <1>2, <2>2, OnlyCommitStores
      <3>2. Prepared(req'[r]) /\ Unrivalled(req'[r])
        <4>1. CASE req'[r].pc = "commit"
          BY <1>2, <4>1, OnlyBodyCommits, BodyPrepares, BodyUnrivalled
        <4>2. CASE req'[r].pc # "commit"
          BY <4>2 DEF Prepared, Unrivalled
        <4> QED
          BY <4>1, <4>2
      <3>3. ASSUME NEW p \in Requests \ {r} PROVE Prepared(req'[p]) /\ Unrivalled(req'[p])
        <4>1. req'[p] = req[p]
          BY <1>2, OthersUnmoved
        <4> QED
          BY <4>1 DEF RecordInv
      <3>4. ASSUME NEW p \in Requests PROVE Prepared(req'[p]) /\ Unrivalled(req'[p])
        BY <3>2, <3>3
      <3>5. UNCHANGED <<session, record, correction>>
        BY <3>1 DEF stored
      <3> QED
        BY <3>4, <3>5, RecordMove
    <2> QED
      BY <2>1, <2>2
  <1> QED
    BY <1>1, <1>2 DEF Next, Tick, vars, stored

\* RecordInv holds in every reachable state.
LEMMA AlwaysRecords == Spec => []RecordInv
  <1>1. Init => RecordInv
    BY DEF Init, RecordInv, RecordFresh, OneLiveCorrection, Prepared, Unrivalled, Idle,
           NoCorrection
  <1> QED
    BY <1>1, AlwaysTyped, AlwaysIntents, AlwaysPeriod, AlwaysLocks, AlwaysReview,
       AlwaysSessions, StepRecords, PTL DEF Spec

\* The F-01 invariant: a stored daily record is always what the calculation gives
\* for the day's sessions, breaks and approved corrections, because whoever
\* changes one of them holds the day's lock and writes the record with it.
THEOREM RecordsStayFresh == Spec => []RecordFresh
  <1>1. RecordInv => RecordFresh
    BY DEF RecordInv
  <1> QED
    BY <1>1, AlwaysRecords, PTL

\* No two live corrections ever have the same target, although the check for one
\* locks no correction: the day's lock is held from the check to the insert.
THEOREM LiveCorrectionsAreUnique == Spec => []OneLiveCorrection
  <1>1. RecordInv => OneLiveCorrection
    BY DEF RecordInv
  <1> QED
    BY <1>1, AlwaysRecords, PTL
-----------------------------------------------------------------------------
(* AttendanceLedger implements AttendanceBook for every value of the       *)
(* constants: each commit is one operation of the book on the rows as they *)
(* are at that moment, whatever the call had read before.                  *)

-----------------------------------------------------------------------------
(* What a call has checked and not yet used is still true when it commits.  *)

\* A punch carries the time it arrived at, a request a field clients may send.
Stamped(q) ==
    /\ q.op \in Punches => q.at \in Times
    /\ q.op = "REQUEST" => q.field \in Fields

\* The work date of a check-in, resolved without any lock, is still justified.
Dated(q) ==
    q.op = "CHECK_IN" /\ q.pc # "resolve" =>
        \/ q.date = DateOf[q.at]
        \/ /\ q.at < ExpectedEnd[q.date]
           /\ \E s \in SessionIds : OnDay(session[s], q.emp, q.date)

\* Check-ins and breaks write only records that exist; the others always write
\* that of their day.
Refreshes(q) ==
    q.pc = "commit" =>
        /\ q.op \in {"CHECK_IN", "BREAK_START", "BREAK_END"} =>
              \A d \in Dates : q.calc[d] # None => record[q.emp][d] # None
        /\ q.op \in {"CHECK_OUT", "APPROVE"} \cup DayOps => q.calc[q.date] # None

\* The month is in the state its closing or reopening has found it in.
MonthFound(q) ==
    q.pc = "commit" /\ q.op \in PeriodOps =>
        period[MonthOf[q.date]] = IF q.op = "CLOSE" THEN "OPEN" ELSE "CLOSED"

\* The target of a correction that is requested is the one that was checked.
TargetFound(q) ==
    q.pc = "commit" /\ q.op = "REQUEST" =>
        /\ ResolveMissingPunchSession(session, q.emp, q.date, q.field)
        /\ q.field = "CHECK_OUT" =>
              \A s \in MissingPunchSessions(session, q.emp, q.date, q.field) :
                 session[s].checkIn < q.value

\* No session of the day is open that the approval of a check-out has not locked.
OpenKnown(q) ==
    q.op = "APPROVE" /\ q.field = "CHECK_OUT" /\ q.pc \in {"rowWait", "body", "commit"} =>
        \A s \in SessionIds :
            session[s].status = "OPEN" /\ OnDay(session[s], q.emp, q.date) => s = q.seen

StillTrue(q) ==
    Stamped(q) /\ Dated(q) /\ Refreshes(q) /\ MonthFound(q) /\ TargetFound(q) /\ OpenKnown(q)

BookInv == \A r \in Requests : StillTrue(req[r])

-----------------------------------------------------------------------------
(* Steps that store nothing                                                *)

\* Such a step keeps BookInv if the call that moves keeps its part.
LEMMA BookMove ==
    ASSUME TypeInv, BookInv, NEW r \in Requests, Arrive(r) \/ Step(r) \/ Abort(r),
           UNCHANGED stored, StillTrue(req'[r])
    PROVE  BookInv'
  <1>1. \A p \in Requests \ {r} : req'[p] = req[p]
    BY OthersUnmoved
  <1> SUFFICES ASSUME NEW p \in Requests PROVE StillTrue(req[p])'
    BY DEF BookInv
  <1>2. StillTrue(req'[p])
    BY <1>1 DEF BookInv
  <1>3. UNCHANGED session /\ UNCHANGED record /\ UNCHANGED period
    BY DEF stored
  <1>4. Stamped(req[p])' /\ OpenKnown(req[p])' /\ Dated(req[p])'
    BY <1>2, <1>3 DEF StillTrue, Stamped, OpenKnown, Dated
  <1>5. Refreshes(req[p])' /\ MonthFound(req[p])'
    BY <1>2, <1>3 DEF StillTrue, Refreshes, MonthFound
  <1>6. TargetFound(req[p])'
    BY <1>2, <1>3 DEF StillTrue, TargetFound
  <1> QED
    BY <1>4, <1>5, <1>6 DEF StillTrue

\* The end of a call.
LEMMA BookFinish ==
    ASSUME TypeInv, BookInv, NEW r \in Requests, Arrive(r) \/ Step(r) \/ Abort(r),
           UNCHANGED stored, Finish(r)
    PROVE  BookInv'
  <1>1. req'[r] = Idle
    BY FinishIs
  <1>2. StillTrue(Idle)
    BY DEF StillTrue, Stamped, Dated, Refreshes, MonthFound, TargetFound, OpenKnown, Idle, Punches
  <1> QED
    BY <1>1, <1>2, BookMove

\* A call arrives with the clock's time.
LEMMA ArriveStamped ==
    ASSUME TypeInv, NEW r \in Requests, Arrive(r)
    PROVE  Stamped(req'[r]) /\ (req'[r].op = "CHECK_IN" => req'[r].pc = "resolve")
  <1> DEFINE Good(t) == Stamped(t) /\ (t.op = "CHECK_IN" => t.pc = "resolve")
  <1>1. req \in [Requests -> Call] /\ now \in Times
    BY DEF TypeInv, TypeOK
  <1>2. ASSUME NEW e \in Employees, NEW k \in Keys \cup {None}, ArriveCheckIn(r, e, k)
        PROVE  Good(req'[r])
    BY <1>1, <1>2 DEF ArriveCheckIn, Start, Goto, Idle, Stamped
  <1>3. ASSUME NEW op \in Punches \ {"CHECK_IN"}, NEW e \in Employees,
               NEW k \in Keys \cup {None}, ArrivePunch(r, op, e, k)
        PROVE  Good(req'[r])
    BY <1>1, <1>3 DEF ArrivePunch, Start, Goto, Idle, Stamped, Punches
  <1>4. ASSUME NEW op \in DayOps, NEW e \in Employees, NEW d \in Dates, ArriveDay(r, op, e, d)
        PROVE  Good(req'[r])
    BY <1>1, <1>4 DEF ArriveDay, Start, Goto, Idle, Stamped, Punches, DayOps
  <1>5. ASSUME NEW op \in PeriodOps, NEW d \in Dates, ArrivePeriod(r, op, d)
        PROVE  Good(req'[r])
    BY <1>1, <1>5 DEF ArrivePeriod, Start, Goto, Idle, Stamped, Punches, PeriodOps
  <1>6. ASSUME NEW e \in Employees, NEW d \in Dates, NEW f \in Fields, NEW v \in 0..LastTime,
               ArriveRequest(r, e, d, f, v)
        PROVE  Good(req'[r])
    BY <1>1, <1>6 DEF ArriveRequest, Start, Goto, Idle, Stamped, Punches
  <1>7. ASSUME NEW op \in Reviews, NEW c \in CorrectionIds, ArriveReview(r, op, c)
        PROVE  Good(req'[r])
    BY <1>1, <1>7 DEF ArriveReview, Start, Goto, Idle, Stamped, Punches, Reviews
  <1> HIDE DEF Good
  <1>8. Good(req'[r])
    BY <1>2, <1>3, <1>4, <1>5, <1>6, <1>7 DEF Arrive
  <1> QED
    BY <1>8 DEF Good

\* A call that arrives has checked nothing yet.
LEMMA BookArrive ==
    ASSUME TypeInv, BookInv, NEW r \in Requests, Arrive(r)
    PROVE  BookInv'
  <1>1. /\ UNCHANGED stored
        /\ req'[r].pc \in {"resolve", "peek", "period", "correction"}
    BY ArriveMoves
  <1>2. StillTrue(req'[r])
    BY <1>1, ArriveStamped DEF StillTrue, Dated, Refreshes, MonthFound, TargetFound, OpenKnown
  <1> QED
    BY <1>1, <1>2, BookMove

\* The stages before the body that leave a check-in's date alone.
LEMMA BookOnTheWay ==
    ASSUME TypeInv, SessionInv, BookInv, NEW r \in Requests, Step(r), ~Finish(r),
           \/ PeekCheckIn(r) \/ PeekOpen(r) \/ LockCorrection(r) \/ LockPeriodShare(r)
           \/ LockPeriodExclusive(r) \/ LockDay(r)
    PROVE  BookInv'
  <1> DEFINE q == req[r]
             t == req'[r]
  <1>1. /\ UNCHANGED stored /\ t.op = q.op /\ t.at = q.at
        /\ q.pc \in {"peek", "correction", "period", "day"}
        /\ t.pc \in {"period", "day", "row", "body"}
        /\ t.pc = "body" => ~(t.op = "APPROVE" /\ t.field = "CHECK_OUT")
    <2>1. CASE PeekCheckIn(r) \/ PeekOpen(r) \/ LockCorrection(r)
      BY <2>1, PeekCheckInMoves, PeekOpenMoves, LockCorrectionMoves DEF SameOrigin
    <2>2. CASE LockPeriodShare(r)
      BY <2>2, LockPeriodShareMoves DEF SameOrigin, AfterPeriod
    <2>3. CASE LockPeriodExclusive(r)
      BY <2>3, LockPeriodExclusiveMoves DEF SameOrigin, PeriodOps
    <2>4. CASE LockDay(r)
      BY <2>4, LockDayMoves DEF SameOrigin, SamePlace, LocksRow
    <2> QED
      BY <2>1, <2>2, <2>3, <2>4
  <1>2. /\ t.op = "CHECK_IN" => t.emp = q.emp /\ t.date = q.date
        /\ t.op = "REQUEST" => t.field = q.field
    <2>1. q.pc = "peek" => q.op \in Punches
      BY DEF SessionInv, CallKept, PeekedAt
    <2>2. q.pc = "correction" => q.op \in Reviews
      BY DEF TypeInv, Calls, CallTyped
    <2>3. CASE PeekCheckIn(r) \/ PeekOpen(r) \/ LockCorrection(r)
      BY <1>1, <2>1, <2>2, <2>3, PeekCheckInMoves, PeekOpenMoves, LockCorrectionMoves
      DEF Punches, Reviews
    <2>4. CASE LockPeriodShare(r) \/ LockPeriodExclusive(r) \/ LockDay(r)
      BY <2>4, LockPeriodShareMoves, LockPeriodExclusiveMoves, LockDayMoves DEF SamePlace
    <2> QED
      BY <2>3, <2>4
  <1>3. Stamped(q) /\ Dated(q)
    BY DEF BookInv, StillTrue
  <1>4. StillTrue(t)
    BY <1>1, <1>2, <1>3
    DEF StillTrue, Stamped, Dated, Refreshes, MonthFound, TargetFound, OpenKnown
  <1> QED
    BY <1>1, <1>4, BookMove

\* The work date of a check-in is settled.
LEMMA BookResolve ==
    ASSUME TypeInv, SessionInv, BookInv, NEW r \in Requests, Step(r), Resolve(r)
    PROVE  BookInv'
  <1> DEFINE q == req[r]
             t == req'[r]
  <1>1. /\ UNCHANGED stored /\ q.pc = "resolve" /\ t.pc = "peek"
        /\ t.op = q.op /\ t.at = q.at /\ t.emp = q.emp
    BY ResolveMoves DEF SameOrigin
  <1>2. PICK prior \in FindMostRecentForEmployee(q.emp) : t.date = WorkDate(q.at, prior)
    BY ResolveMoves
  <1>3. Stamped(q) /\ q.op \in Punches
    BY <1>1 DEF BookInv, StillTrue, SessionInv, CallKept, PeekedAt
  <1>4. prior # None =>
           /\ prior \in SessionIds /\ OnDay(session[prior], q.emp, session[prior].date)
    BY <1>2 DEF FindMostRecentForEmployee, SessionsOf, OnDay
  <1>5. Dated(t)
    BY <1>1, <1>2, <1>4 DEF WorkDate, Dated
  <1>6. StillTrue(t)
    BY <1>1, <1>3, <1>5
    DEF StillTrue, Stamped, Refreshes, MonthFound, TargetFound, OpenKnown, Punches
  <1> QED
    BY <1>1, <1>6, BookMove

\* The row of the open session: none is open beside the one found or awaited.
LEMMA BookLockRow ==
    ASSUME TypeInv, UniqueOpen, SessionInv, BookInv, NEW r \in Requests, Step(r),
           LockOpenSession(r) \/ RowReleased(r)
    PROVE  BookInv'
  <1> DEFINE q == req[r]
             t == req'[r]
  <1>1. /\ UNCHANGED stored /\ q.pc \in {"row", "rowWait"} /\ t.pc \in {"rowWait", "body"}
        /\ t.op = q.op /\ t.at = q.at /\ t.emp = q.emp /\ t.date = q.date /\ t.field = q.field
    BY LockOpenSessionMoves, RowReleasedMoves DEF SameOrigin, SamePlace
  <1>2. Stamped(q) /\ Dated(q) /\ OpenKnown(q)
    BY DEF BookInv, StillTrue
  <1>3. OpenKnown(t)
    <2> SUFFICES ASSUME q.op = "APPROVE", q.field = "CHECK_OUT", NEW s \in SessionIds,
                        session[s].status = "OPEN", OnDay(session[s], q.emp, q.date)
                 PROVE  s = t.seen
      BY <1>1 DEF OpenKnown
    <2>1. CASE LockOpenSession(r)
      <3>1. t.seen \in FindOpenForEmployee(q.emp) /\ s \in OpenSessions(q.emp)
        BY <2>1, LockOpenSessionMoves DEF OpenSessions, SessionsOf, OnDay
      <3>2. t.seen \in OpenSessions(q.emp)
        BY <3>1 DEF FindOpenForEmployee
      <3> QED
        BY <3>1, <3>2 DEF UniqueOpen, OpenSessions, SessionsOf
    <2>2. CASE RowReleased(r)
      <3>1. q.pc = "rowWait" /\ (session[q.seen].status = "OPEN" => t.seen = q.seen)
        BY <2>2, RowReleasedMoves
      <3> QED
        BY <1>2, <3>1 DEF OpenKnown
    <2> QED
      BY <2>1, <2>2
  <1>4. StillTrue(t)
    BY <1>1, <1>2, <1>3
    DEF StillTrue, Stamped, Dated, Refreshes, MonthFound, TargetFound
  <1> QED
    BY <1>1, <1>4, BookMove

\* What the body allows is what the book asks for.
LEMMA BookBody ==
    ASSUME TypeInv, SessionInv, BookInv, NEW r \in Requests, Step(r), Body(r)
    PROVE  BookInv'
  <1> DEFINE q == req[r]
             t == req'[r]
  <1>1. /\ UNCHANGED stored /\ q.pc = "body" /\ t.pc = "commit" /\ BodyAllows(q)
        /\ t.op = q.op /\ t.at = q.at /\ t.emp = q.emp /\ t.date = q.date /\ t.field = q.field
        /\ t.value = q.value /\ t.seen = q.seen
    BY BodyMoves DEF SameOrigin, SamePlace
  <1>2. Stamped(q) /\ Dated(q) /\ OpenKnown(q) /\ CallTyped(q, locks[r]) /\ CallKept(q, locks[r])
    BY DEF BookInv, StillTrue, TypeInv, Calls, SessionInv
  <1>3. PICK w \in Call : /\ SameOrigin(w, t) /\ SamePlace(w, t) /\ SameFinds(w, t)
                          /\ t.calc = Calculated(w)
    BY BodyMoves
  <1>4. w.op = t.op /\ w.emp = t.emp /\ w.date = t.date /\ w.seen = t.seen
    BY <1>3 DEF SameOrigin, SamePlace, SameFinds
  <1>5. Refreshes(t)
    <2>1. ASSUME t.op \in {"CHECK_IN", "BREAK_START", "BREAK_END"}, NEW d \in Dates,
                 t.calc[d] # None
          PROVE  record[t.emp][d] # None
      <3>1. d \in CalculatedDates(w)
        BY <1>3, <2>1 DEF Calculated
      <3> QED
        BY <1>4, <2>1, <3>1 DEF CalculatedDates, DayOps
    <2>2. ASSUME t.op \in {"CHECK_OUT", "APPROVE"} \cup DayOps
          PROVE  t.calc[t.date] # None
      <3>1. t.date \in CalculatedDates(w)
        BY <1>4, <2>2 DEF CalculatedDates, DayOps
      <3>2. /\ w.date \in Dates /\ w.emp \in Employees
            /\ w.seen \in SessionIds => session[w.seen].status # "NONE"
        BY <1>1, <1>2, <1>4, <2>2 DEF CallTyped, DayOps, PeriodOps
      <3> QED
        BY <1>3, <1>4, <3>1, <3>2, InputsGiveRecord DEF Calculated
    <2> QED
      BY <2>1, <2>2 DEF Refreshes
  <1>6. MonthFound(t)
    <2>1. CASE t.op \in PeriodOps
      <3>1. PeriodAllows(q)
        BY <1>1, <2>1 DEF BodyAllows, PeriodOps, Punches
      <3> QED
        BY <1>1, <2>1, <3>1 DEF PeriodAllows, MonthFound, PeriodOps
    <2>2. CASE t.op \notin PeriodOps
      BY <2>2 DEF MonthFound
    <2> QED
      BY <2>1, <2>2
  <1>7. TargetFound(t)
    <2>1. CASE t.op = "REQUEST"
      <3>1. RequestAllows(q)
        BY <1>1, <2>1 DEF BodyAllows, PeriodOps, Punches
      <3> QED
        BY <1>1, <3>1 DEF RequestAllows, TargetFound
    <2>2. CASE t.op # "REQUEST"
      BY <2>2 DEF TargetFound
    <2> QED
      BY <2>1, <2>2
  <1>8. Stamped(t) /\ Dated(t) /\ OpenKnown(t)
    BY <1>1, <1>2 DEF Stamped, Dated, OpenKnown
  <1> QED
    BY <1>1, <1>5, <1>6, <1>7, <1>8, BookMove DEF StillTrue

-----------------------------------------------------------------------------
(* The commit of another call                                              *)

\* Rows that exist stay, on the same day; records that exist stay.
LEMMA CommitForgetsNothing ==
    ASSUME TypeInv, Intents, SessionInv, NEW r \in Requests, Commit(r)
    PROVE  /\ \A s \in SessionIds : \A e, d :
                 OnDay(session[s], e, d) => OnDay(session'[s], e, d)
           /\ \A e \in Employees, d \in Dates : record[e][d] # None => record'[e][d] # None
  <1>1. ASSUME NEW s \in SessionIds, NEW e, NEW d, OnDay(session[s], e, d)
        PROVE  OnDay(session'[s], e, d)
    <2>1. session[s] \in Session /\ req[r] \in Call
      BY DEF TypeInv, TypeOK
    <2>2. session'[s] = session[s] \/ session'[s] = Written(req[r], session[s])
      BY <1>1, CommitSessions DEF OnDay
    <2> QED
      BY <1>1, <2>1, <2>2, WrittenTyped DEF OnDay
  <1>2. ASSUME NEW e \in Employees, NEW d \in Dates, record[e][d] # None
        PROVE  record'[e][d] # None
    BY <1>2, CommitRecords
  <1> QED
    BY <1>1, <1>2

\* A call that has locked its day finds the day's sessions as they were.
LEMMA LockedDayKept ==
    ASSUME TypeInv, Intents, LockInv, ReviewInv, SessionInv,
           NEW r \in Requests, Commit(r), NEW p \in Requests \ {r}, DaysLocked(req[p]),
           req[p].date \in Dates
    PROVE  \A s \in SessionIds :
              \/ session'[s] = session[s]
              \/ /\ ~OnDay(session[s], req[p].emp, req[p].date)
                 /\ ~OnDay(session'[s], req[p].emp, req[p].date)
  <1> DEFINE q == req[p]
             w == req[r]
  <1>1. /\ Held(q, locks[p]) /\ w.pc = "commit" /\ CallKept(w, locks[r]) /\ Held(w, locks[r])
    BY DEF SessionInv, LockInv, Commit, CommitPunch, CommitDay, CommitPeriod, CommitRequest,
           CommitReview, Commits
  <1>2. DayLock(q.emp, q.date) \in locks[p]
    BY <1>1 DEF Held, DaysOf
  <1>3. DayLock(q.emp, q.date) \notin locks[r]
    BY <1>2 DEF LockInv, Exclusion
  <1>4. ~(q.emp = w.emp /\ q.date \in Writes(w))
    BY <1>1, <1>3, WritesLocked
  <1> QED
    BY <1>4, CommitChanges

\* The sessions a correction can supply a punch to are those of its day.
LEMMA SameTargets ==
    ASSUME NEW A, NEW B, NEW e, NEW d, NEW f,
           \A s \in SessionIds :
              B[s] = A[s] \/ (~OnDay(A[s], e, d) /\ ~OnDay(B[s], e, d))
    PROVE  /\ ResolveMissingPunchSession(B, e, d, f) <=> ResolveMissingPunchSession(A, e, d, f)
           /\ MissingPunchSessions(B, e, d, f) = MissingPunchSessions(A, e, d, f)
           /\ \A s \in MissingPunchSessions(A, e, d, f) : B[s] = A[s]
  <1>1. DaySessions(A, e, d) = DaySessions(B, e, d)
    BY DEF DaySessions, OnDay
  <1>2. \A s \in DaySessions(A, e, d) : B[s] = A[s]
    BY DEF DaySessions, OnDay
  <1>3. MissingPunchSessions(B, e, d, f) = MissingPunchSessions(A, e, d, f)
    <2>1. \A s \in DaySessions(A, e, d) :
             B[s].checkOut = A[s].checkOut /\ OpenBreak(B[s]) = OpenBreak(A[s])
      BY <1>2
    <2>2. CASE f = "CHECK_OUT"
      BY <1>1, <2>1, <2>2 DEF MissingPunchSessions
    <2>3. CASE f # "CHECK_OUT"
      BY <1>1, <2>1, <2>3 DEF MissingPunchSessions
    <2> QED
      BY <2>2, <2>3
  <1>4. \A s \in MissingPunchSessions(A, e, d, f) : B[s] = A[s]
    BY <1>2 DEF MissingPunchSessions
  <1>5. ResolveMissingPunchSession(B, e, d, f) <=> ResolveMissingPunchSession(A, e, d, f)
    BY <1>1, <1>3 DEF ResolveMissingPunchSession
  <1> QED
    BY <1>3, <1>4, <1>5

\* What another call has checked is still true after a commit.
LEMMA OtherStillTrue ==
    ASSUME TypeInv, Intents, PeriodInv, LockInv, ReviewInv, SessionInv, BookInv,
           NEW r \in Requests, Step(r), Commit(r), NEW p \in Requests \ {r}
    PROVE  StillTrue(req[p])'
  <1> DEFINE q == req[p]
             w == req[r]
  <1>1. req'[p] = q
    BY OthersUnmoved
  <1>2. /\ StillTrue(q) /\ CallTyped(q, locks[p]) /\ CallKept(q, locks[p])
        /\ HoldsPeriod(q, locks[p]) /\ HoldsPeriod(w, locks[r]) /\ w.pc = "commit"
    BY DEF BookInv, TypeInv, Calls, SessionInv, PeriodInv, Commit, CommitPunch, CommitDay,
           CommitPeriod, CommitRequest, CommitReview, Commits
  <1>3. Stamped(q)'
    BY <1>1, <1>2 DEF StillTrue, Stamped
  <1>4. Dated(q)'
    BY <1>1, <1>2, CommitForgetsNothing DEF StillTrue, Dated
  <1>5. Refreshes(q)'
    <2>1. ASSUME q.pc = "commit", q.op \in {"CHECK_IN", "BREAK_START", "BREAK_END"},
                 NEW d \in Dates, q.calc[d] # None
          PROVE  record'[q.emp][d] # None
      <3>1. q.emp \in Employees
        BY <1>2, <2>1 DEF CallTyped, PeriodOps
      <3> QED
        BY <1>2, <2>1, <3>1, CommitForgetsNothing DEF StillTrue, Refreshes
    <2> QED
      BY <1>1, <1>2, <2>1 DEF StillTrue, Refreshes
  <1>6. MonthFound(q)'
    <2> SUFFICES ASSUME q.pc = "commit", q.op \in PeriodOps
                 PROVE  period'[MonthOf[q.date]] = period[MonthOf[q.date]]
      BY <1>1, <1>2 DEF StillTrue, MonthFound
    <2>1. CASE CommitPeriod(r)
      <3>1. w.op \in PeriodOps
        BY <2>1 DEF CommitPeriod, Commits
      <3>2. /\ PeriodExclusive(MonthOf[q.date]) \in locks[p]
            /\ PeriodExclusive(MonthOf[w.date]) \in locks[r]
            /\ MonthOf[w.date] \in Months /\ MonthOf[q.date] \in Months
        BY <1>2, <3>1 DEF HoldsPeriod, TypeInv, Calls, CallTyped, Months
      <3>3. MonthOf[q.date] # MonthOf[w.date]
        BY <3>2 DEF PeriodInv, PeriodExclusion
      <3>4. period \in [Months -> {"OPEN", "CLOSED"}]
        BY DEF TypeInv, TypeOK
      <3> QED
        BY <2>1, <3>2, <3>3, <3>4 DEF CommitPeriod
    <2>2. CASE ~CommitPeriod(r)
      BY <2>2 DEF Commit, CommitPunch, CommitDay, CommitRequest, CommitReview
    <2> QED
      BY <2>1, <2>2
  <1>7. TargetFound(q)'
    <2> SUFFICES ASSUME q.pc = "commit", q.op = "REQUEST"
                 PROVE  /\ ResolveMissingPunchSession(session', q.emp, q.date, q.field)
                        /\ q.field = "CHECK_OUT" =>
                              \A s \in MissingPunchSessions(session', q.emp, q.date, q.field) :
                                 session'[s].checkIn < q.value
      BY <1>1 DEF TargetFound
    <2>1. DaysLocked(q) /\ q.date \in Dates
      BY <1>2 DEF DaysLocked, LocksDays, PeriodOps, CallTyped
    <2>2. TargetFound(q)
      BY <1>2 DEF StillTrue
    <2> QED
      BY <2>1, <2>2, LockedDayKept, SameTargets DEF TargetFound
  <1>8. OpenKnown(q)'
    <2> SUFFICES ASSUME q.op = "APPROVE", q.field = "CHECK_OUT",
                        q.pc \in {"rowWait", "body", "commit"}, NEW s \in SessionIds,
                        session'[s].status = "OPEN", OnDay(session'[s], q.emp, q.date)
                 PROVE  s = q.seen
      BY <1>1 DEF OpenKnown
    <2>1. DaysLocked(q) /\ q.date \in Dates
      BY <1>2 DEF DaysLocked, LocksDays, PeriodOps, CallTyped
    <2>2. session'[s] = session[s]
      BY <2>1, LockedDayKept
    <2> QED
      BY <1>2, <2>2 DEF StillTrue, OpenKnown
  <1> QED
    BY <1>3, <1>4, <1>5, <1>6, <1>7, <1>8 DEF StillTrue

\* Every step keeps BookInv.
LEMMA StepBook ==
    TypeInv /\ Intents /\ UniqueOpen /\ PeriodInv /\ LockInv /\ ReviewInv /\ SessionInv
        /\ BookInv /\ [Next]_vars => BookInv'
  <1> SUFFICES ASSUME TypeInv, Intents, UniqueOpen, PeriodInv, LockInv, ReviewInv, SessionInv,
                      BookInv, [Next]_vars
               PROVE  BookInv'
    OBVIOUS
  <1>1. CASE UNCHANGED <<stored, req>>
    <2> SUFFICES ASSUME NEW r \in Requests PROVE StillTrue(req[r])'
      BY DEF BookInv
    <2>1. StillTrue(req[r]) /\ UNCHANGED session /\ UNCHANGED record /\ UNCHANGED period
          /\ UNCHANGED req
      BY <1>1 DEF BookInv, stored
    <2>2. Stamped(req[r])' /\ OpenKnown(req[r])' /\ Dated(req[r])'
      BY <2>1 DEF StillTrue, Stamped, OpenKnown, Dated
    <2>3. Refreshes(req[r])' /\ MonthFound(req[r])' /\ TargetFound(req[r])'
      BY <2>1 DEF StillTrue, Refreshes, MonthFound, TargetFound
    <2> QED
      BY <2>2, <2>3 DEF StillTrue
  <1>2. ASSUME NEW r \in Requests, Arrive(r) \/ Step(r) \/ Abort(r) PROVE BookInv'
    <2>1. CASE Commit(r)
      <3>1. Step(r)
        BY <2>1 DEF Step
      <3>2. req'[r] = Idle
        BY <2>1, FinishIs DEF Commit, CommitPunch, CommitDay, CommitPeriod, CommitRequest,
                              CommitReview, Commits
      <3>3. StillTrue(req[r])'
        BY <3>2 DEF StillTrue, Stamped, Dated, Refreshes, MonthFound, TargetFound, OpenKnown,
                    Idle, Punches
      <3> QED
        BY <2>1, <3>1, <3>3, OtherStillTrue DEF BookInv
    <2>2. CASE Arrive(r)
      BY <2>2, BookArrive
    <2>3. CASE ~Commit(r) /\ Finish(r)
      BY <1>2, <2>3, OnlyCommitStores, BookFinish
    <2>4. CASE Abort(r)
      BY <2>1, <2>3, <2>4 DEF Abort
    <2>5. CASE Step(r) /\ ~Finish(r) /\ ~Commit(r)
      <3>1. /\ ~PeekNothing(r) /\ ~ReplayUnderLock(r) /\ ~RefuseBody(r)
            /\ ~RecalculationFailed(r) /\ ~DuplicateRefused(r)
        BY <2>5, Zenon DEF PeekNothing, ReplayUnderLock, RefuseBody, RecalculationFailed,
                           DuplicateRefused
      <3>2. \/ Resolve(r) \/ PeekCheckIn(r) \/ PeekOpen(r) \/ LockCorrection(r)
            \/ LockPeriodShare(r) \/ LockPeriodExclusive(r) \/ LockDay(r)
            \/ LockOpenSession(r) \/ RowReleased(r) \/ Body(r)
        BY <2>5, <3>1, Zenon DEF Step, Acquire
      <3> QED
        BY <2>5, <3>2, BookResolve, BookOnTheWay, BookLockRow, BookBody
    <2> QED
      BY <1>2, <2>1, <2>2, <2>3, <2>4, <2>5
  <1> QED
    BY <1>1, <1>2 DEF Next, Tick, vars, stored

\* BookInv holds in every reachable state.
LEMMA AlwaysBook == Spec => []BookInv
  <1>1. Init => BookInv
    BY DEF Init, BookInv, StillTrue, Stamped, Dated, Refreshes, MonthFound, TargetFound,
           OpenKnown, Idle, Punches
  <1> QED
    BY <1>1, AlwaysTyped, AlwaysIntents, AlwaysUniqueOpen, AlwaysPeriod, AlwaysLocks,
       AlwaysReview, AlwaysSessions, StepBook, PTL DEF Spec

-----------------------------------------------------------------------------
(* The rows as the book shows them                                         *)

SessionMap == [s \in SessionIds |-> ShownSession(session[s])]

DailyMap == [e \in Employees |-> [d \in Dates |-> ShownRecord(e, d)]]

\* The invariants of the ledger, all of which the refinement needs.
LedgerInv ==
    /\ TypeInv /\ Intents /\ UniqueOpen /\ PeriodInv /\ LockInv /\ ReviewInv
    /\ SessionInv /\ RecordInv /\ BookInv

\* What a session shows is what its fields are, and nothing of its break events.
LEMMA ShownFields ==
    ASSUME NEW x
    PROVE  /\ ShownSession(x).status = x.status /\ ShownSession(x).emp = x.emp
           /\ ShownSession(x).date = x.date /\ ShownSession(x).checkIn = x.checkIn
           /\ ShownSession(x).checkOut = x.checkOut /\ ShownSession(x).onBreak = x.onBreak
  BY DEF ShownSession, OpenBreak

\* A record that is there is right, before a step and after it.
LEMMA DailyShown ==
    ASSUME RecordInv, RecordInv', NEW e \in Employees, NEW d \in Dates
    PROVE  /\ DailyMap[e][d] = IF record[e][d] = None THEN "none" ELSE "right"
           /\ DailyMap'[e][d] = IF record'[e][d] = None THEN "none" ELSE "right"
  <1>1. ShownRecord(e, d) = IF record[e][d] = None THEN "none" ELSE "right"
    BY DEF RecordInv, RecordFresh, ShownRecord
  <1>2. ShownRecord(e, d)' = IF record'[e][d] = None THEN "none" ELSE "right"
    BY DEF RecordInv, RecordFresh, ShownRecord
  <1>3. DailyMap[e][d] = ShownRecord(e, d) /\ DailyMap'[e][d] = ShownRecord(e, d)'
    BY DEF DailyMap
  <1> QED
    BY <1>1, <1>2, <1>3

\* The book sees nothing of a step that neither adds nor drops a record.
LEMMA DailyKept ==
    ASSUME RecordInv, RecordInv',
           \A e \in Employees, d \in Dates : record'[e][d] = None <=> record[e][d] = None
    PROVE  DailyMap' = DailyMap
  <1>1. \A e \in Employees, d \in Dates : DailyMap'[e][d] = DailyMap[e][d]
    BY DailyShown
  <1>2. /\ DailyMap = [e \in Employees |-> [d \in Dates |-> DailyMap[e][d]]]
        /\ DailyMap' = [e \in Employees |-> [d \in Dates |-> DailyMap'[e][d]]]
    BY DEF DailyMap
  <1> QED
    BY <1>1, <1>2

\* The book sees that a day's record becomes right.
LEMMA DailyRight ==
    ASSUME RecordInv, RecordInv', NEW a \in Employees, NEW b \in Dates, record'[a][b] # None,
           \A e \in Employees, d \in Dates :
              ~(e = a /\ d = b) => (record'[e][d] = None <=> record[e][d] = None)
    PROVE  DailyMap' = [DailyMap EXCEPT ![a][b] = "right"]
  <1>1. \A e \in Employees, d \in Dates :
           DailyMap'[e][d] = IF e = a /\ d = b THEN "right" ELSE DailyMap[e][d]
    BY DailyShown
  <1>2. /\ DailyMap = [e \in Employees |-> [d \in Dates |-> DailyMap[e][d]]]
        /\ DailyMap' = [e \in Employees |-> [d \in Dates |-> DailyMap'[e][d]]]
    BY DEF DailyMap
  <1>3. [DailyMap EXCEPT ![a][b] = "right"]
           = [e \in Employees |-> [d \in Dates |->
                 IF e = a /\ d = b THEN "right" ELSE DailyMap[e][d]]]
    <2> DEFINE M == DailyMap
    <2>1. M = [e \in Employees |-> [d \in Dates |-> M[e][d]]]
      BY <1>2
    <2> HIDE DEF M
    <2>2. [M EXCEPT ![a][b] = "right"]
             = [e \in Employees |-> [d \in Dates |-> IF e = a /\ d = b THEN "right" ELSE M[e][d]]]
      BY <2>1
    <2> QED
      BY <2>2 DEF M
  <1> QED
    BY <1>1, <1>2, <1>3

-----------------------------------------------------------------------------
(* Each commit is an operation of the book                                 *)

\* Closing or reopening a month.
LEMMA PeriodInBook ==
    ASSUME LedgerInv, LedgerInv', NEW r \in Requests, CommitPeriod(r)
    PROVE  \E m \in Months : Book!ClosePeriod(m) \/ Book!ReopenPeriod(m)
  <1> DEFINE q == req[r]
             m == MonthOf[q.date]
  <1>1. q.pc = "commit" /\ q.op \in PeriodOps /\ UNCHANGED <<session, record, correction, keyed>>
        /\ period' = [period EXCEPT ![m] = IF q.op = "CLOSE" THEN "CLOSED" ELSE "OPEN"]
    BY DEF CommitPeriod, Commits
  <1>2. /\ CallTyped(q, locks[r]) /\ HoldsPeriod(q, locks[r]) /\ MonthFound(q)
    BY DEF LedgerInv, TypeInv, Calls, PeriodInv, BookInv, StillTrue
  <1>3. m \in Months /\ period[m] = (IF q.op = "CLOSE" THEN "OPEN" ELSE "CLOSED")
    BY <1>1, <1>2 DEF CallTyped, MonthFound, Months
  <1>4. q.op = "CLOSE" => \A s \in SessionIds :
           session[s].status = "OPEN" => MonthOf[session[s].date] # m
    BY <1>1, <1>2 DEF HoldsPeriod
  <1>5. SessionMap' = SessionMap
    BY <1>1 DEF SessionMap
  <1>6. DailyMap' = DailyMap
    BY <1>1, DailyKept DEF LedgerInv
  <1>7. \A s \in SessionIds : SessionMap[s].status = session[s].status
                              /\ SessionMap[s].date = session[s].date
    BY ShownFields DEF SessionMap
  <1>8. CASE q.op = "CLOSE"
    <2>1. Book!ClosePeriod(m)
      BY <1>1, <1>3, <1>4, <1>5, <1>6, <1>7, <1>8 DEF Book!ClosePeriod, SessionMap, DailyMap
    <2> QED
      BY <1>3, <2>1
  <1>9. CASE q.op = "REOPEN"
    <2>1. Book!ReopenPeriod(m)
      BY <1>1, <1>3, <1>5, <1>6, <1>9 DEF Book!ReopenPeriod, SessionMap, DailyMap
    <2> QED
      BY <1>3, <2>1
  <1> QED
    BY <1>1, <1>8, <1>9 DEF PeriodOps

\* Which records a commit leaves present: those there were, and those it writes.
LEMMA RecordPresence ==
    ASSUME LedgerInv, NEW r \in Requests, Commit(r), NEW e \in Employees, NEW d \in Dates
    PROVE  record'[e][d] = None
              <=> record[e][d] = None /\ ~(e = req[r].emp /\ req[r].calc[d] # None)
  BY CommitRecords DEF LedgerInv

\* The calculation of one day.
LEMMA DayInBook ==
    ASSUME LedgerInv, LedgerInv', NEW r \in Requests, CommitDay(r)
    PROVE  \E e \in Employees, d \in Dates : Book!Calculate(e, d)
  <1> DEFINE q == req[r]
  <1>1. q.pc = "commit" /\ q.op \in DayOps /\ UNCHANGED <<session, period, correction, keyed>>
    BY DEF CommitDay, Commits
  <1>2. /\ CallTyped(q, locks[r]) /\ HoldsPeriod(q, locks[r]) /\ Refreshes(q) /\ Calculates(q)
    BY DEF LedgerInv, TypeInv, Calls, PeriodInv, BookInv, StillTrue, SessionInv, CallKept
  <1>3. q.emp \in Employees /\ q.date \in Dates /\ period[MonthOf[q.date]] = "OPEN"
    BY <1>1, <1>2 DEF CallTyped, HoldsPeriod, Inside, DayOps, PeriodOps
  <1>4. q.calc[q.date] # None /\ \A d \in Dates : q.calc[d] # None => d = q.date
    BY <1>1, <1>2 DEF Refreshes, Calculates, DayOps
  <1>5. DailyMap' = [DailyMap EXCEPT ![q.emp][q.date] = "right"]
    BY <1>3, <1>4, RecordPresence, DailyRight DEF LedgerInv, Commit
  <1>6. SessionMap' = SessionMap
    BY <1>1 DEF SessionMap
  <1>7. Book!Calculate(q.emp, q.date)
    BY <1>1, <1>3, <1>5, <1>6 DEF Book!Calculate, Book!Writable, Book!Right, SessionMap, DailyMap
  <1> QED
    BY <1>3, <1>7

\* What a punch uses and finds when it commits.
LEMMA PunchFacts ==
    ASSUME LedgerInv, NEW r \in Requests, CommitPunch(r)
    PROVE  /\ req[r].op \in Punches /\ UNCHANGED <<period, correction>>
           /\ session' = SessionAfter(req[r])
           /\ req[r].emp \in Employees /\ req[r].date \in Dates /\ req[r].at \in Times
           /\ period[MonthOf[req[r].date]] = "OPEN"
           /\ req[r].key \in Keys \cup {None}
           /\ req[r].op # "CHECK_IN" => req[r].new = None
  <1> DEFINE q == req[r]
  <1>1. /\ q.pc = "commit" /\ q.op \in Punches /\ UNCHANGED <<period, correction>>
        /\ session' = SessionAfter(q)
    BY DEF CommitPunch, Commits
  <1>2. /\ CallTyped(q, locks[r]) /\ HoldsPeriod(q, locks[r]) /\ Stamped(q) /\ Intent(q)
        /\ q \in Call
    BY DEF LedgerInv, TypeInv, TypeOK, Calls, PeriodInv, BookInv, StillTrue, Intents
  <1>3. q.op \notin PeriodOps
    BY <1>1 DEF Punches, PeriodOps
  <1>4. q.emp \in Employees /\ q.date \in Dates /\ period[MonthOf[q.date]] = "OPEN"
    BY <1>1, <1>2, <1>3 DEF CallTyped, HoldsPeriod, Inside
  <1>5. q.at \in Times /\ q.key \in Keys \cup {None}
    BY <1>1, <1>2 DEF Stamped, Call
  <1>6. q.op # "CHECK_IN" => q.new = None
    BY <1>2 DEF Intent
  <1> QED
    BY <1>1, <1>4, <1>5, <1>6

\* A punch uses its key once.
LEMMA KeyInBook ==
    ASSUME LedgerInv, NEW r \in Requests, CommitPunch(r), NEW op, op = req[r].op
    PROVE  Book!UseKey(req[r].emp, req[r].key, op)
  <1>1. /\ NotReplayed(req[r].emp, req[r].key) /\ keyed' = KeysAfter(req[r])
    BY DEF CommitPunch, Commits, UniqueViolation
  <1> QED
    BY <1>1 DEF NotReplayed, KeysAfter, Book!UseKey

\* What the sessions are after a punch other than a check-in.
LEMMA SessionPunched ==
    ASSUME LedgerInv, NEW r \in Requests, CommitPunch(r), req[r].op # "CHECK_IN"
    PROVE  /\ req[r].seen \in SessionIds /\ session[req[r].seen].date = req[r].date
           /\ Book!OpenSessions(req[r].emp) = {req[r].seen}
           /\ OpenBreak(session[req[r].seen]) <=> req[r].op = "BREAK_END"
           /\ \A s \in SessionIds :
                 session'[s] = IF s = req[r].seen THEN Written(req[r], session[s]) ELSE session[s]
  <1> DEFINE q == req[r]
  <1>1. q.op \in Punches \ {"CHECK_IN"} /\ q.pc = "commit" /\ session' = SessionAfter(q)
        /\ q.new = None
    BY PunchFacts DEF CommitPunch, Commits
  <1>2. CallKept(q, locks[r])
    BY DEF LedgerInv, SessionInv
  <1>3. PunchAllows(q)
    BY <1>1, <1>2 DEF CallKept, Validated
  <1>4. /\ q.seen \in SessionIds /\ session[q.seen].date = q.date
        /\ session[q.seen].status = "OPEN" /\ session[q.seen].emp = q.emp
    BY <1>1, <1>2, <1>3 DEF PunchAllows, CallKept, PeekedAt, HasSeen
  <1>5. ASSUME NEW s \in SessionIds
        PROVE  session'[s] = IF s = q.seen THEN Written(q, session[s]) ELSE session[s]
    BY <1>1, NoneAssumption DEF SessionAfter
  <1>6. \A s \in SessionIds :
           session[s].status = "OPEN" /\ session[s].emp = q.emp <=> s = q.seen
    BY <1>4 DEF LedgerInv, UniqueOpen
  <1>7. Book!OpenSessions(q.emp) = {q.seen}
    BY <1>4, <1>6, ShownFields DEF Book!OpenSessions
  <1> QED
    BY <1>3, <1>4, <1>5, <1>7 DEF PunchAllows

\* The row the book shows of a session.
Row(a, b, c, d, e, f) ==
    [status |-> a, emp |-> b, date |-> c, checkIn |-> d, checkOut |-> e, onBreak |-> f]

\* y is the row x but for its status, its check-out and whether a break is open.
Rewritten(x, y, status, checkOut, onBreak) ==
    /\ y.emp = x.emp /\ y.date = x.date /\ y.checkIn = x.checkIn
    /\ y.status = status /\ y.checkOut = checkOut /\ y.onBreak = onBreak

\* The book shows such a row of every session.
LEMMA ShownRow ==
    ASSUME NEW x
    PROVE  ShownSession(x) = Row(x.status, x.emp, x.date, x.checkIn, x.checkOut, x.onBreak)
  BY DEF ShownSession, OpenBreak, Row

\* A session that was closed.
LEMMA ShownClosed ==
    ASSUME NEW x, NEW y, NEW t, Rewritten(x, y, "CLOSED", t, x.onBreak)
    PROVE  ShownSession(y) = [ShownSession(x) EXCEPT !.status = "CLOSED", !.checkOut = t]
  <1> DEFINE A == ShownSession(x)
             B == [A EXCEPT !.status = "CLOSED"]
  <1>1. A = Row(x.status, x.emp, x.date, x.checkIn, x.checkOut, x.onBreak)
    BY ShownRow
  <1>2. ShownSession(y) = Row("CLOSED", x.emp, x.date, x.checkIn, t, x.onBreak)
    BY ShownRow, Zenon DEF Rewritten
  <1> HIDE DEF A
  <1>3. [A EXCEPT !.status = "CLOSED", !.checkOut = t] = [B EXCEPT !.checkOut = t]
    OBVIOUS
  <1>4. B = Row("CLOSED", x.emp, x.date, x.checkIn, x.checkOut, x.onBreak)
    BY <1>1 DEF Row
  <1> HIDE DEF B
  <1>5. [B EXCEPT !.checkOut = t] = Row("CLOSED", x.emp, x.date, x.checkIn, t, x.onBreak)
    BY <1>4 DEF Row
  <1>6. ShownSession(y) = [A EXCEPT !.status = "CLOSED", !.checkOut = t]
    BY <1>2, <1>3, <1>5, Zenon
  <1> QED
    BY <1>6 DEF A

\* A session that was abandoned.
LEMMA ShownAbandoned ==
    ASSUME NEW x, NEW y, Rewritten(x, y, "ABANDONED", x.checkOut, x.onBreak)
    PROVE  ShownSession(y) = [ShownSession(x) EXCEPT !.status = "ABANDONED"]
  <1> DEFINE A == ShownSession(x)
  <1>1. A = Row(x.status, x.emp, x.date, x.checkIn, x.checkOut, x.onBreak)
    BY ShownRow
  <1>2. ShownSession(y) = Row("ABANDONED", x.emp, x.date, x.checkIn, x.checkOut, x.onBreak)
    BY ShownRow, Zenon DEF Rewritten
  <1> HIDE DEF A
  <1>3. [A EXCEPT !.status = "ABANDONED"]
           = Row("ABANDONED", x.emp, x.date, x.checkIn, x.checkOut, x.onBreak)
    BY <1>1 DEF Row
  <1>4. ShownSession(y) = [A EXCEPT !.status = "ABANDONED"]
    BY <1>2, <1>3, Zenon
  <1> QED
    BY <1>4 DEF A

\* A session that had a break event.
LEMMA ShownBreak ==
    ASSUME NEW x, NEW y, NEW t, Rewritten(x, y, x.status, x.checkOut, t)
    PROVE  ShownSession(y) = [ShownSession(x) EXCEPT !.onBreak = t]
  <1> DEFINE A == ShownSession(x)
  <1>1. A = Row(x.status, x.emp, x.date, x.checkIn, x.checkOut, x.onBreak)
    BY ShownRow
  <1>2. ShownSession(y) = Row(x.status, x.emp, x.date, x.checkIn, x.checkOut, t)
    BY ShownRow, Zenon DEF Rewritten
  <1> HIDE DEF A
  <1>3. [A EXCEPT !.onBreak = t] = Row(x.status, x.emp, x.date, x.checkIn, x.checkOut, t)
    BY <1>1 DEF Row
  <1>4. ShownSession(y) = [A EXCEPT !.onBreak = t]
    BY <1>2, <1>3, Zenon
  <1> QED
    BY <1>4 DEF A

\* A session that was inserted.
LEMMA ShownInserted ==
    ASSUME NEW q
    PROVE  ShownSession(Inserted(q))
             = [Book!NoSession EXCEPT !.status = "OPEN", !.emp = q.emp,
                                      !.date = q.date, !.checkIn = q.at]
  <1> DEFINE y == Inserted(q)
             A == Book!NoSession
             B == [A EXCEPT !.status = "OPEN"]
             C == [B EXCEPT !.emp = q.emp]
             D == [C EXCEPT !.date = q.date]
             no == FALSE
  <1>1. /\ y.status = "OPEN" /\ y.emp = q.emp /\ y.date = q.date /\ y.checkIn = q.at
        /\ y.checkOut = 0 /\ y.onBreak = no
    BY DEF Inserted, NoSession
  <1>2. A = Row("NONE", None, 0, 0, 0, no)
    BY DEF Book!NoSession, Row
  <1> HIDE DEF y, A, no
  <1>3. ShownSession(y) = Row("OPEN", q.emp, q.date, q.at, 0, no)
    BY <1>1, ShownRow, Zenon
  <1>4. [A EXCEPT !.status = "OPEN", !.emp = q.emp, !.date = q.date, !.checkIn = q.at]
           = [D EXCEPT !.checkIn = q.at]
    OBVIOUS
  <1>5. B = Row("OPEN", None, 0, 0, 0, no)
    BY <1>2 DEF Row
  <1> HIDE DEF B
  <1>6. C = Row("OPEN", q.emp, 0, 0, 0, no)
    BY <1>5 DEF Row
  <1> HIDE DEF C
  <1>7. D = Row("OPEN", q.emp, q.date, 0, 0, no)
    BY <1>6 DEF Row
  <1> HIDE DEF D
  <1>8. [D EXCEPT !.checkIn = q.at] = Row("OPEN", q.emp, q.date, q.at, 0, no)
    BY <1>7 DEF Row
  <1>9. ShownSession(y)
           = [A EXCEPT !.status = "OPEN", !.emp = q.emp, !.date = q.date, !.checkIn = q.at]
    BY <1>3, <1>4, <1>8, Zenon
  <1> QED
    BY <1>9 DEF y, A

\* A check-out.
LEMMA CheckOutInBook ==
    ASSUME LedgerInv, LedgerInv', NEW r \in Requests, CommitPunch(r), req[r].op = "CHECK_OUT"
    PROVE  Book!CheckOut(req[r].emp, req[r].seen, req[r].at, req[r].key)
  <1> DEFINE q == req[r]
             n == q.seen
             M == SessionMap
  <1>1. /\ q.emp \in Employees /\ q.date \in Dates /\ period[MonthOf[q.date]] = "OPEN"
        /\ UNCHANGED <<period, correction>> /\ q.pc = "commit"
    BY PunchFacts DEF CommitPunch, Commits
  <1>2. /\ n \in SessionIds /\ session[n].date = q.date /\ Book!OpenSessions(q.emp) = {n}
        /\ ~OpenBreak(session[n])
        /\ \A s \in SessionIds :
              session'[s] = IF s = n THEN Written(q, session[s]) ELSE session[s]
    BY SessionPunched
  <1>3. Refreshes(q) /\ Calculates(q)
    BY DEF LedgerInv, BookInv, StillTrue, SessionInv, CallKept
  <1>4. q.calc[q.date] # None /\ \A d \in Dates : q.calc[d] # None => d = q.date
    BY <1>1, <1>3 DEF Refreshes, Calculates
  <1>5. DailyMap' = [DailyMap EXCEPT ![q.emp][q.date] = "right"]
    BY <1>1, <1>4, RecordPresence, DailyRight DEF LedgerInv, Commit
  <1>6. Written(q, session[n])
           = [session[n] EXCEPT !.status = "CLOSED", !.checkOut = q.at, !.punchedOut = TRUE]
    BY Zenon DEF Written
  <1>7. ShownSession(session'[n])
           = [ShownSession(session[n]) EXCEPT !.status = "CLOSED", !.checkOut = q.at]
    <2>1. session[n] \in Session
      BY <1>2 DEF LedgerInv, TypeInv, TypeOK
    <2> DEFINE x == session[n]
               y == session'[n]
               t == q.at
    <2>2. y = [x EXCEPT !.status = "CLOSED", !.checkOut = t, !.punchedOut = TRUE]
      BY <1>2, <1>6, Zenon
    <2> HIDE DEF x, y, t
    <2>3. Rewritten(x, y, "CLOSED", t, x.onBreak)
      BY <2>1, <2>2 DEF Session, Rewritten, x
    <2>4. ShownSession(y) = [ShownSession(x) EXCEPT !.status = "CLOSED", !.checkOut = t]
      BY <2>3, ShownClosed, Zenon
    <2> QED
      BY <2>4 DEF x, y, t
  <1>8. M' = [M EXCEPT ![n].status = "CLOSED", ![n].checkOut = q.at]
    <2>1. /\ M = [s \in SessionIds |-> ShownSession(session[s])]
          /\ M' = [s \in SessionIds |-> ShownSession(session'[s])]
      BY DEF SessionMap
    <2> HIDE DEF M
    <2> QED
      BY <1>2, <1>7, <2>1
  <1>9. ~M[n].onBreak /\ M[n].date = q.date
    BY <1>2, ShownFields DEF SessionMap, OpenBreak
  <1>10. Book!UseKey(q.emp, q.key, "CHECK_OUT")
    BY KeyInBook
  <1> QED
    BY <1>1, <1>2, <1>5, <1>8, <1>9, <1>10
    DEF Book!CheckOut, Book!Writable, Book!Right, SessionMap, DailyMap

\* The start or the end of a break.
LEMMA BreakInBook ==
    ASSUME LedgerInv, LedgerInv', NEW r \in Requests, CommitPunch(r),
           req[r].op \in {"BREAK_START", "BREAK_END"}
    PROVE  Book!BreakPunch(req[r].emp, req[r].seen, req[r].op = "BREAK_START", req[r].key)
  <1> DEFINE q == req[r]
             n == q.seen
             starts == q.op = "BREAK_START"
             M == SessionMap
  <1>1. /\ q.emp \in Employees /\ q.date \in Dates /\ period[MonthOf[q.date]] = "OPEN"
        /\ UNCHANGED <<period, correction>> /\ q.pc = "commit"
    BY PunchFacts DEF CommitPunch, Commits
  <1>2. /\ n \in SessionIds /\ session[n].date = q.date /\ Book!OpenSessions(q.emp) = {n}
        /\ OpenBreak(session[n]) <=> q.op = "BREAK_END"
        /\ \A s \in SessionIds :
              session'[s] = IF s = n THEN Written(q, session[s]) ELSE session[s]
    BY SessionPunched
  <1>3. session[n] \in Session /\ Refreshes(q)
    BY <1>2 DEF LedgerInv, TypeInv, TypeOK, BookInv, StillTrue
  <1>4. DailyMap' = DailyMap
    <2>1. \A d \in Dates : q.calc[d] # None => record[q.emp][d] # None
      BY <1>1, <1>3 DEF Refreshes
    <2> QED
      BY <2>1, RecordPresence, DailyKept DEF LedgerInv, Commit
  <1>5. \/ ShownSession(session'[n]) = ShownSession(session[n])
        \/ ShownSession(session'[n]) = [ShownSession(session[n]) EXCEPT !.onBreak = starts]
    <2> DEFINE last == IF q.at < session[n].lastBreak THEN session[n].lastBreak ELSE q.at
               on == IF q.at < session[n].lastBreak THEN session[n].onBreak ELSE starts
    <2>1. Written(q, session[n])
             = [session[n] EXCEPT !.breaks = session[n].breaks + 1, !.lastBreak = last,
                                  !.onBreak = on]
      BY Zenon DEF Written, BreakEvent
    <2>2. on = session[n].onBreak \/ on = starts
      OBVIOUS
    <2> DEFINE x == session[n]
               y == session'[n]
    <2>3. y = [x EXCEPT !.breaks = x.breaks + 1, !.lastBreak = last, !.onBreak = on]
      BY <1>2, <2>1, Zenon
    <2> HIDE DEF last, on, starts, x, y
    <2>4. Rewritten(x, y, x.status, x.checkOut, on)
      BY <1>3, <2>3 DEF Session, Rewritten, x
    <2>5. CASE on = x.onBreak
      <3>1. ShownSession(y) = ShownSession(x)
        BY <2>4, <2>5, ShownRow, Zenon DEF Rewritten
      <3> QED
        BY <3>1 DEF x, y
    <2>6. CASE on = starts
      <3>1. ShownSession(y) = [ShownSession(x) EXCEPT !.onBreak = starts]
        BY <2>4, <2>6, ShownBreak, Zenon
      <3> QED
        BY <3>1 DEF x, y
    <2> QED
      BY <2>2, <2>5, <2>6 DEF x
  <1>6. M' = M \/ M' = [M EXCEPT ![n].onBreak = starts]
    <2>1. /\ M = [s \in SessionIds |-> ShownSession(session[s])]
          /\ M' = [s \in SessionIds |-> ShownSession(session'[s])]
      BY DEF SessionMap
    <2> HIDE DEF M, starts
    <2> QED
      BY <1>2, <1>5, <2>1
  <1>7. M[n].onBreak # starts /\ M[n].date = q.date
    <2>1. M[n].onBreak = session[n].onBreak /\ M[n].date = session[n].date
      BY <1>2, ShownFields DEF SessionMap
    <2>2. session[n].onBreak \in BOOLEAN
      BY <1>3 DEF Session
    <2> QED
      BY <1>2, <2>1, <2>2 DEF OpenBreak
  <1>8. Book!UseKey(q.emp, q.key, IF starts THEN "BREAK_START" ELSE "BREAK_END")
    <2>1. (IF starts THEN "BREAK_START" ELSE "BREAK_END") = q.op
      OBVIOUS
    <2> QED
      BY <2>1, KeyInBook
  <1> QED
    BY <1>1, <1>2, <1>4, <1>6, <1>7, <1>8
    DEF Book!BreakPunch, Book!Writable, SessionMap, DailyMap

\* A check-in, with the session it abandons.
LEMMA CheckInInBook ==
    ASSUME LedgerInv, LedgerInv', NEW r \in Requests, CommitPunch(r), req[r].op = "CHECK_IN"
    PROVE  /\ req[r].new \in SessionIds
           /\ Book!CheckIn(req[r].emp, req[r].new, req[r].date, req[r].at, req[r].key)
  <1> DEFINE q == req[r]
             n == q.new
             M == SessionMap
  <1>1. /\ q.emp \in Employees /\ q.date \in Dates /\ period[MonthOf[q.date]] = "OPEN"
        /\ UNCHANGED <<period, correction>> /\ q.pc = "commit" /\ session' = SessionAfter(q)
    BY PunchFacts DEF CommitPunch, Commits
  <1>2. /\ CallKept(q, locks[r]) /\ Refreshes(q) /\ Dated(q)
        /\ OpenSessions(q.emp) \subseteq {q.seen}
    BY DEF LedgerInv, SessionInv, BookInv, StillTrue, CommitPunch, Commits, UniqueViolation
  <1>3. n \in SessionIds /\ session[n].status = "NONE"
    BY <1>1, <1>2 DEF CallKept, Validated
  <1>4. DailyMap' = DailyMap
    <2>1. \A d \in Dates : q.calc[d] # None => record[q.emp][d] # None
      BY <1>1, <1>2 DEF Refreshes
    <2> QED
      BY <2>1, RecordPresence, DailyKept DEF LedgerInv, Commit
  <1>5. ASSUME NEW s \in SessionIds
        PROVE  ShownSession(session'[s]) =
                 IF s = n THEN [Book!NoSession EXCEPT !.status = "OPEN", !.emp = q.emp,
                                                      !.date = q.date, !.checkIn = q.at]
                 ELSE IF s \in Book!OpenSessions(q.emp)
                      THEN [M[s] EXCEPT !.status = "ABANDONED"]
                 ELSE M[s]
    <2>1. /\ session[s] \in Session /\ M[s] = ShownSession(session[s])
          /\ s \in Book!OpenSessions(q.emp) <=> s \in OpenSessions(q.emp)
      <3>1. M[s] = ShownSession(session[s])
        BY DEF SessionMap
      <3>2. s \in Book!OpenSessions(q.emp)
               <=> session[s].status = "OPEN" /\ session[s].emp = q.emp
        BY <3>1, ShownFields DEF Book!OpenSessions, SessionMap
      <3> QED
        BY <3>1, <3>2 DEF OpenSessions, SessionsOf, LedgerInv, TypeInv, TypeOK
    <2>2. CASE s = n
      <3>1. session'[s] = Inserted(q)
        BY <1>1, <2>2 DEF SessionAfter
      <3>2. ShownSession(Inserted(q))
               = [Book!NoSession EXCEPT !.status = "OPEN", !.emp = q.emp,
                                        !.date = q.date, !.checkIn = q.at]
        BY ShownInserted, Zenon
      <3> QED
        BY <2>2, <3>1, <3>2
    <2>3. CASE s # n /\ s = q.seen
      <3>1. s \in OpenSessions(q.emp)
        BY <1>1, <1>2, <2>3, NoneAssumption
        DEF CallKept, HasSeen, OpenSessions, SessionsOf
      <3>2. session'[s] = [session[s] EXCEPT !.status = "ABANDONED"]
        BY <1>1, <2>3 DEF SessionAfter, Written
      <3>3. ShownSession(session'[s]) = [ShownSession(session[s]) EXCEPT !.status = "ABANDONED"]
        <4> DEFINE x == session[s]
                   y == session'[s]
        <4> HIDE DEF x, y
        <4>1. y = [x EXCEPT !.status = "ABANDONED"]
          BY <3>2 DEF x, y
        <4>2. Rewritten(x, y, "ABANDONED", x.checkOut, x.onBreak)
          BY <2>1, <4>1 DEF Session, Rewritten, x
        <4>3. ShownSession(y) = [ShownSession(x) EXCEPT !.status = "ABANDONED"]
          BY <4>2, ShownAbandoned, Zenon
        <4> QED
          BY <4>3 DEF x, y
      <3> QED
        BY <2>1, <2>3, <3>1, <3>3
    <2>4. CASE s # n /\ s # q.seen
      <3>1. session'[s] = session[s] /\ s \notin OpenSessions(q.emp)
        BY <1>1, <1>2, <2>4 DEF SessionAfter
      <3> QED
        BY <2>1, <2>4, <3>1
    <2> QED
      BY <2>2, <2>3, <2>4
  <1>6. M' = [s \in SessionIds |->
                 IF s = n THEN [Book!NoSession EXCEPT !.status = "OPEN", !.emp = q.emp,
                                                      !.date = q.date, !.checkIn = q.at]
                 ELSE IF s \in Book!OpenSessions(q.emp)
                      THEN [M[s] EXCEPT !.status = "ABANDONED"]
                 ELSE M[s]]
    <2>1. M' = [s \in SessionIds |-> ShownSession(session'[s])]
      BY DEF SessionMap
    <2> HIDE DEF M
    <2> QED
      BY <1>5, <2>1
  <1>7. M[n].status = "NONE"
    BY <1>3, ShownFields DEF SessionMap
  <1>8. Book!WorkDateOf(q.emp, q.at, q.date)
    <2>1. CASE q.date = DateOf[q.at]
      BY <2>1 DEF Book!WorkDateOf
    <2>2. CASE q.date # DateOf[q.at]
      <3>1. q.at < ExpectedEnd[q.date]
            /\ \E s \in SessionIds : OnDay(session[s], q.emp, q.date)
        BY <1>1, <1>2, <2>2 DEF Dated
      <3>2. Book!DaySessions(q.emp, q.date) # {}
        BY <3>1, ShownFields DEF Book!DaySessions, OnDay
      <3> QED
        BY <3>1, <3>2 DEF Book!WorkDateOf
    <2> QED
      BY <2>1, <2>2
  <1>9. Book!UseKey(q.emp, q.key, "CHECK_IN")
    BY KeyInBook
  <1> QED
    BY <1>1, <1>3, <1>4, <1>6, <1>7, <1>8, <1>9
    DEF Book!CheckIn, Book!Writable, SessionMap, DailyMap

\* The book's sessions of a day are those of the ledger.
LEMMA SameDaySessions ==
    ASSUME NEW e, NEW d
    PROVE  Book!DaySessions(e, d) = DaySessions(session, e, d)
  BY ShownFields DEF Book!DaySessions, DaySessions

\* So are the sessions a punch is missing from.
LEMMA SameLacking ==
    ASSUME NEW e, NEW d, NEW f \in AllFields \ {"CHECK_IN"}
    PROVE  Book!Lacking(e, d, f) = MissingPunchSessions(session, e, d, f)
  <1>1. CASE f = "CHECK_OUT"
    BY <1>1, SameDaySessions, ShownFields DEF Book!Lacking, MissingPunchSessions, DaySessions
  <1>2. CASE f = "BREAK_END"
    BY <1>2, SameDaySessions, ShownFields
    DEF Book!Lacking, MissingPunchSessions, OpenBreak, DaySessions
  <1> QED
    BY <1>1, <1>2 DEF AllFields

\* A request.
LEMMA RequestInBook ==
    ASSUME LedgerInv, LedgerInv', NEW r \in Requests, CommitRequest(r)
    PROVE  /\ req[r].corr \in CorrectionIds /\ req[r].emp \in Employees
           /\ req[r].date \in Dates /\ req[r].field \in Fields /\ req[r].value \in Times \cup {0}
           /\ Book!RequestCorrection(req[r].corr, req[r].emp, req[r].date, req[r].field,
                                     req[r].value)
  <1> DEFINE q == req[r]
             e == q.emp
             d == q.date
             f == q.field
             v == q.value
  <1>1. /\ q.pc = "commit" /\ q.op = "REQUEST" /\ correction' = CorrectionAfter(q)
        /\ UNCHANGED <<session, period, record, keyed>>
    BY DEF CommitRequest, Commits
  <1>2. /\ CallTyped(q, locks[r]) /\ HoldsPeriod(q, locks[r]) /\ Stamped(q) /\ TargetFound(q)
        /\ ReviewCall(q, locks[r]) /\ Unrivalled(q) /\ q \in Call
    BY DEF LedgerInv, TypeInv, TypeOK, Calls, PeriodInv, BookInv, StillTrue, ReviewInv, RecordInv
  <1>3. e \in Employees /\ d \in Dates /\ f \in Fields /\ period[MonthOf[d]] = "OPEN"
    BY <1>1, <1>2 DEF CallTyped, HoldsPeriod, Inside, PeriodOps, Stamped
  <1>4. q.corr \in CorrectionIds /\ correction[q.corr].status = "NONE"
    BY <1>1, <1>2 DEF ReviewCall
  <1>5. v \in Times \cup {0}
    BY <1>2, BoundsAssumption DEF Call, Times
  <1>6. correction' = [correction EXCEPT ![q.corr] =
           [status |-> "PENDING", emp |-> e, date |-> d, field |-> f, value |-> v]]
    BY <1>1 DEF CorrectionAfter
  <1>7. /\ ResolveMissingPunchSession(session, e, d, f)
        /\ f = "CHECK_OUT" => \A s \in MissingPunchSessions(session, e, d, f) :
                                 session[s].checkIn < v
    BY <1>1, <1>2 DEF TargetFound
  <1>8. f \in AllFields
    BY <1>3, OpsAssumption
  <1>9. IF f = "CHECK_IN" THEN Book!DaySessions(e, d) = {}
        ELSE \E s \in SessionIds : Book!Lacking(e, d, f) = {s}
    BY <1>7, <1>8, SameDaySessions, SameLacking DEF ResolveMissingPunchSession
  <1>10. f = "CHECK_OUT" => \A s \in Book!Lacking(e, d, f) : SessionMap[s].checkIn < v
    <2> SUFFICES ASSUME f = "CHECK_OUT", NEW s \in Book!Lacking(e, d, f)
                 PROVE  SessionMap[s].checkIn < v
      OBVIOUS
    <2>1. s \in MissingPunchSessions(session, e, d, f)
      BY <1>8, SameLacking
    <2>2. s \in SessionIds
      BY <2>1 DEF MissingPunchSessions, DaySessions
    <2>3. SessionMap[s].checkIn = session[s].checkIn
      BY <2>2, ShownFields DEF SessionMap
    <2> QED
      BY <1>7, <2>1, <2>3
  <1>11. ASSUME NEW c \in CorrectionIds, correction[c].emp = e, correction[c].date = d,
                correction[c].field = f
         PROVE  correction[c].status = "REJECTED"
    <2>1. correction[c].status \notin {"PENDING", "APPROVED"}
      BY <1>1, <1>2, <1>11 DEF Unrivalled
    <2>2. correction[c].status # "NONE"
      BY <1>3, <1>11, NoneAssumption DEF LedgerInv, SessionInv, UnusedEmpty, NoCorrection
    <2>3. correction[c] \in Correction
      BY DEF LedgerInv, TypeInv, TypeOK
    <2> QED
      BY <2>1, <2>2, <2>3 DEF Correction
  <1>12. Book!Requestable(e, d, f, v)
    BY <1>9, <1>10, <1>11 DEF Book!Requestable, SessionMap
  <1>13. SessionMap' = SessionMap
    BY <1>1 DEF SessionMap
  <1>14. DailyMap' = DailyMap
    BY <1>1, DailyKept DEF LedgerInv
  <1>15. Book!RequestCorrection(q.corr, e, d, f, v)
    BY <1>1, <1>3, <1>4, <1>6, <1>12, <1>13, <1>14
    DEF Book!RequestCorrection, Book!Writable, SessionMap, DailyMap
  <1> QED
    BY <1>3, <1>4, <1>5, <1>15

\* What a review finds when it commits.
LEMMA ReviewFacts ==
    ASSUME LedgerInv, NEW r \in Requests, CommitReview(r)
    PROVE  /\ req[r].pc = "commit" /\ req[r].op \in Reviews /\ req[r].new = None
           /\ UNCHANGED <<period, keyed>> /\ session' = SessionAfter(req[r])
           /\ correction' = CorrectionAfter(req[r])
           /\ req[r].corr \in CorrectionIds /\ correction[req[r].corr].status = "PENDING"
           /\ req[r].emp = correction[req[r].corr].emp
           /\ req[r].date = correction[req[r].corr].date
           /\ req[r].field = correction[req[r].corr].field
           /\ req[r].value = correction[req[r].corr].value
           /\ req[r].emp \in Employees /\ req[r].date \in Dates
           /\ period[MonthOf[req[r].date]] = "OPEN"
  <1> DEFINE q == req[r]
  <1>1. /\ q.pc = "commit" /\ q.op \in Reviews /\ session' = SessionAfter(q)
        /\ correction' = CorrectionAfter(q) /\ UNCHANGED <<period, keyed>>
    BY DEF CommitReview, Commits
  <1>2. /\ CallTyped(q, locks[r]) /\ HoldsPeriod(q, locks[r]) /\ ReviewCall(q, locks[r])
        /\ ReviewTarget(q) /\ Intent(q)
    BY DEF LedgerInv, TypeInv, Calls, PeriodInv, ReviewInv, SessionInv, CallKept, Intents
  <1>3. q.op \notin PeriodOps
    BY <1>1 DEF PeriodOps, Reviews
  <1>4. q.emp \in Employees /\ q.date \in Dates /\ period[MonthOf[q.date]] = "OPEN"
    BY <1>1, <1>2, <1>3 DEF CallTyped, HoldsPeriod, Inside
  <1>5. q.corr \in CorrectionIds /\ correction[q.corr].status = "PENDING"
    BY <1>1, <1>2 DEF CallTyped, ReviewCall
  <1>6. /\ q.emp = correction[q.corr].emp /\ q.date = correction[q.corr].date
        /\ q.field = correction[q.corr].field /\ q.value = correction[q.corr].value
    BY <1>1, <1>2 DEF ReviewTarget
  <1>7. q.new = None
    BY <1>1, <1>2 DEF Intent, Reviews
  <1> QED
    BY <1>1, <1>4, <1>5, <1>6, <1>7

\* A rejection.
LEMMA RejectInBook ==
    ASSUME LedgerInv, LedgerInv', NEW r \in Requests, CommitReview(r), req[r].op = "REJECT"
    PROVE  req[r].corr \in CorrectionIds /\ Book!RejectCorrection(req[r].corr)
  <1> DEFINE q == req[r]
  <1>1. Calculates(q) /\ HasSeen(q, locks[r])
    BY DEF LedgerInv, SessionInv, CallKept
  <1>2. \A d \in Dates : q.calc[d] = None
    BY <1>1, ReviewFacts DEF Calculates, Punches, DayOps
  <1>3. q.seen = None
    BY <1>1 DEF HasSeen, LocksRow, Punches
  <1>4. session \in [SessionIds -> Session]
    BY DEF LedgerInv, TypeInv, TypeOK
  <1>5. session' = session
    BY <1>3, <1>4, ReviewFacts, NoneAssumption DEF SessionAfter
  <1>6. SessionMap' = SessionMap
    BY <1>5 DEF SessionMap
  <1>7. DailyMap' = DailyMap
    BY <1>2, RecordPresence, DailyKept DEF LedgerInv, Commit
  <1>8. correction' = [correction EXCEPT ![q.corr].status = "REJECTED"]
    <2>1. correction' = CorrectionAfter(q) /\ q.op = "REJECT"
      BY ReviewFacts
    <2> QED
      BY <2>1, Zenon DEF CorrectionAfter
  <1> QED
    BY <1>6, <1>7, <1>8, ReviewFacts
    DEF Book!RejectCorrection, Book!Writable, SessionMap, DailyMap

\* An approval, with the session it closes.
LEMMA ApproveInBook ==
    ASSUME LedgerInv, LedgerInv', NEW r \in Requests, CommitReview(r), req[r].op = "APPROVE"
    PROVE  req[r].corr \in CorrectionIds /\ Book!ApproveCorrection(req[r].corr)
  <1> DEFINE q == req[r]
             x == correction[q.corr]
             M == SessionMap
             closes(s) == /\ x.field = "CHECK_OUT" /\ s \in Book!OpenSessions(x.emp)
                          /\ M[s].date = x.date
             T(s) == IF closes(s) THEN [M[s] EXCEPT !.status = "CLOSED", !.checkOut = x.value]
                     ELSE M[s]
  <1>1. /\ Calculates(q) /\ HasSeen(q, locks[r]) /\ Refreshes(q) /\ OpenKnown(q)
    BY DEF LedgerInv, SessionInv, CallKept, BookInv, StillTrue
  <1>2. q.calc[q.date] # None /\ \A d \in Dates : q.calc[d] # None => d = q.date
    BY <1>1, ReviewFacts DEF Refreshes, Calculates
  <1>3. DailyMap' = [DailyMap EXCEPT ![x.emp][x.date] = "right"]
    BY <1>2, RecordPresence, DailyRight, ReviewFacts DEF LedgerInv, Commit
  <1>4. correction' = [correction EXCEPT ![q.corr].status = "APPROVED"]
    <2>1. correction' = CorrectionAfter(q) /\ q.op = "APPROVE"
      BY ReviewFacts
    <2> QED
      BY <2>1, Zenon DEF CorrectionAfter
  <1>5. ASSUME NEW s \in SessionIds
        PROVE  ShownSession(session'[s]) = T(s)
    <2>1. session[s] \in Session /\ M[s] = ShownSession(session[s])
      BY DEF LedgerInv, TypeInv, TypeOK, SessionMap
    <2>2. closes(s) <=> /\ q.field = "CHECK_OUT" /\ session[s].status = "OPEN"
                        /\ session[s].emp = q.emp /\ session[s].date = q.date
      BY <2>1, ShownFields, ReviewFacts DEF Book!OpenSessions, SessionMap
    <2>3. session'[s] = IF s = q.seen THEN Written(q, session[s]) ELSE session[s]
      BY ReviewFacts, NoneAssumption DEF SessionAfter
    <2>4. closes(s) <=> s = q.seen /\ session[s].date = q.date
      <3>1. ASSUME closes(s) PROVE s = q.seen /\ session[s].date = q.date
        <4>1. OnDay(session[s], q.emp, q.date) /\ session[s].status = "OPEN"
          BY <2>2, <3>1 DEF OnDay
        <4> QED
          BY <1>1, <2>2, <3>1, <4>1, ReviewFacts DEF OpenKnown
      <3>2. ASSUME s = q.seen, session[s].date = q.date PROVE closes(s)
        <4>1. q.seen # None /\ q.pc = "commit"
          BY <3>2, ReviewFacts, NoneAssumption
        <4>2. q.field = "CHECK_OUT"
          BY <1>1, <4>1 DEF HasSeen, LocksRow, Punches
        <4>3. session[s].status = "OPEN" /\ session[s].emp = q.emp
          BY <1>1, <3>2, <4>1 DEF HasSeen
        <4> QED
          BY <2>2, <3>2, <4>2, <4>3
      <3> QED
        BY <3>1, <3>2
    <2>5. CASE closes(s)
      <3>1. Written(q, session[s]) = [session[s] EXCEPT !.status = "CLOSED", !.checkOut = q.value]
        BY <2>4, <2>5, Zenon DEF Written
      <3> DEFINE a == session[s]
                 b == session'[s]
                 t == q.value
      <3>2. b = [a EXCEPT !.status = "CLOSED", !.checkOut = t]
        BY <2>3, <2>4, <2>5, <3>1, Zenon
      <3>3. t = x.value
        BY ReviewFacts
      <3> HIDE DEF a, b, t
      <3>4. Rewritten(a, b, "CLOSED", t, a.onBreak)
        BY <2>1, <3>2 DEF Session, Rewritten, a
      <3>5. ShownSession(b) = [ShownSession(a) EXCEPT !.status = "CLOSED", !.checkOut = t]
        BY <3>4, ShownClosed, Zenon
      <3>6. M[s] = ShownSession(a)
        BY <2>1 DEF a
      <3> HIDE DEF M, closes, x
      <3>7. ShownSession(b) = [M[s] EXCEPT !.status = "CLOSED", !.checkOut = x.value]
        BY <3>3, <3>5, <3>6, Zenon
      <3> QED
        BY <2>5, <3>7, Zenon DEF b
    <2>6. CASE ~closes(s)
      <3>1. session'[s] = session[s]
        BY <2>3, <2>4, <2>6 DEF Written
      <3> QED
        BY <2>1, <2>6, <3>1
    <2> QED
      BY <2>5, <2>6
  <1>6. M' = [s \in SessionIds |-> T(s)]
    <2>1. M' = [s \in SessionIds |-> ShownSession(session'[s])]
      BY DEF SessionMap
    <2> HIDE DEF M, T
    <2> QED
      BY <1>5, <2>1
  <1>7. q.corr \in CorrectionIds /\ x.status = "PENDING" /\ period[MonthOf[x.date]] = "OPEN"
        /\ UNCHANGED <<period, keyed>>
    BY ReviewFacts
  <1> QED
    BY <1>3, <1>4, <1>6, <1>7, Zenon
    DEF Book!ApproveCorrection, Book!Writable, Book!Right, SessionMap, DailyMap

-----------------------------------------------------------------------------
(* The refinement                                                          *)

\* The empty tables are those of the book.
LEMMA InitInBook == Init => Book!Init
  <1> SUFFICES ASSUME Init PROVE Book!Init
    OBVIOUS
  <1>1. SessionMap = [s \in SessionIds |-> Book!NoSession]
    <2>1. ShownSession(NoSession) = Book!NoSession
      BY DEF ShownSession, OpenBreak, NoSession, Book!NoSession
    <2>2. \A s \in SessionIds : session[s] = NoSession
      BY DEF Init
    <2> QED
      BY <2>1, <2>2 DEF SessionMap
  <1>2. DailyMap = [e \in Employees |-> [d \in Dates |-> "none"]]
    BY DEF Init, DailyMap, ShownRecord
  <1>3. period = [m \in {MonthOf[d] : d \in Dates} |-> "OPEN"]
    BY DEF Init, Months
  <1>4. correction = [c \in CorrectionIds |-> Book!NoCorrection]
    BY DEF Init, NoCorrection, Book!NoCorrection
  <1>5. keyed = [e \in Employees |-> [k \in Keys |-> "NONE"]]
    BY DEF Init
  <1> QED
    BY <1>1, <1>2, <1>3, <1>4, <1>5, Zenon DEF Book!Init, SessionMap, DailyMap

\* The book's tables do not change when no row does.
LEMMA NothingShows ==
    ASSUME stored' = stored
    PROVE  UNCHANGED Book!vars
  <1>1. UNCHANGED <<session, period, record, correction, keyed>>
    BY DEF stored
  <1>2. SessionMap' = SessionMap
    BY <1>1 DEF SessionMap
  <1>3. DailyMap' = DailyMap
    BY <1>1 DEF DailyMap, ShownRecord, DayInputs, DaySessions, Approved
  <1> QED
    BY <1>1, <1>2, <1>3 DEF Book!vars, SessionMap, DailyMap

\* A punch is one of the book's.
LEMMA PunchInBook ==
    ASSUME LedgerInv, LedgerInv', NEW r \in Requests, CommitPunch(r)
    PROVE  Book!Next
  <1> DEFINE q == req[r]
  <1>1. q.op \in Punches /\ q.emp \in Employees /\ q.date \in Dates /\ q.at \in Times
        /\ q.key \in Keys \cup {None}
    BY PunchFacts
  <1>2. CASE q.op = "CHECK_IN"
    <2>1. q.new \in SessionIds /\ Book!CheckIn(q.emp, q.new, q.date, q.at, q.key)
      BY <1>2, CheckInInBook
    <2>2. Book!Punch(q.emp, q.new, q.key)
      BY <1>1, <2>1, Zenon DEF Book!Punch
    <2> QED
      BY <1>1, <2>1, <2>2, Zenon DEF Book!Next
  <1>3. CASE q.op # "CHECK_IN"
    <2>1. q.seen \in SessionIds
      BY <1>3, SessionPunched
    <2>2. CASE q.op = "CHECK_OUT"
      <3>1. Book!CheckOut(q.emp, q.seen, q.at, q.key)
        BY <2>2, CheckOutInBook
      <3>2. Book!Punch(q.emp, q.seen, q.key)
        BY <1>1, <3>1, Zenon DEF Book!Punch
      <3> QED
        BY <1>1, <2>1, <3>2, Zenon DEF Book!Next
    <2>3. CASE q.op \in {"BREAK_START", "BREAK_END"}
      <3>1. Book!BreakPunch(q.emp, q.seen, q.op = "BREAK_START", q.key)
        BY <2>3, BreakInBook
      <3>2. (q.op = "BREAK_START") \in BOOLEAN
        OBVIOUS
      <3>3. Book!Punch(q.emp, q.seen, q.key)
        BY <3>1, <3>2, Zenon DEF Book!Punch
      <3> QED
        BY <1>1, <2>1, <3>3, Zenon DEF Book!Next
    <2> QED
      BY <1>1, <1>3, <2>2, <2>3 DEF Punches
  <1> QED
    BY <1>2, <1>3

\* Whatever commits, the book makes one step of its own.
LEMMA CommitInBook ==
    ASSUME LedgerInv, LedgerInv', NEW r \in Requests, Commit(r)
    PROVE  Book!Next
  <1>1. CASE CommitPunch(r)
    BY <1>1, PunchInBook
  <1>2. CASE CommitDay(r)
    <2>1. \E e \in Employees, d \in Dates : Book!Calculate(e, d)
      BY <1>2, DayInBook
    <2> QED
      BY <2>1, Zenon DEF Book!Next
  <1>3. CASE CommitPeriod(r)
    <2>1. \E m \in Months : Book!ClosePeriod(m) \/ Book!ReopenPeriod(m)
      BY <1>3, PeriodInBook
    <2>2. DOMAIN period = Months
      BY DEF LedgerInv, TypeInv, TypeOK
    <2> QED
      BY <2>1, <2>2, Zenon DEF Book!Next
  <1>4. CASE CommitRequest(r)
    <2> DEFINE q == req[r]
    <2>1. /\ q.corr \in CorrectionIds /\ q.emp \in Employees /\ q.date \in Dates
          /\ q.field \in Fields /\ q.value \in Times \cup {0}
          /\ Book!RequestCorrection(q.corr, q.emp, q.date, q.field, q.value)
      BY <1>4, RequestInBook
    <2> QED
      BY <2>1, Zenon DEF Book!Next
  <1>5. CASE CommitReview(r)
    <2>1. req[r].op \in {"APPROVE", "REJECT"}
      BY <1>5, ReviewFacts DEF Reviews
    <2>2. /\ req[r].corr \in CorrectionIds
          /\ Book!ApproveCorrection(req[r].corr) \/ Book!RejectCorrection(req[r].corr)
      BY <1>5, <2>1, ApproveInBook, RejectInBook
    <2> QED
      BY <2>2, Zenon DEF Book!Next
  <1> QED
    BY <1>1, <1>2, <1>3, <1>4, <1>5 DEF Commit

\* Every step of the ledger is a step of the book or none at all.
LEMMA StepInBook == LedgerInv /\ LedgerInv' /\ [Next]_vars => [Book!Next]_Book!vars
  <1> SUFFICES ASSUME LedgerInv, LedgerInv', [Next]_vars
               PROVE  Book!Next \/ UNCHANGED Book!vars
    OBVIOUS
  <1>1. CASE UNCHANGED vars
    BY <1>1, NothingShows DEF vars, stored
  <1>2. CASE Tick
    BY <1>2, NothingShows DEF Tick
  <1>3. ASSUME NEW r \in Requests, Arrive(r) \/ Step(r) \/ Abort(r)
        PROVE  Book!Next \/ UNCHANGED Book!vars
    <2>1. CASE Commit(r)
      BY <2>1, CommitInBook
    <2>2. CASE ~Commit(r)
      BY <1>3, <2>2, OnlyCommitStores, NothingShows
    <2> QED
      BY <2>1, <2>2
  <1> QED
    BY <1>1, <1>2, <1>3 DEF Next

\* The calls, with their stale reads, locks and re-validations, implement the book:
\* each commit is one operation of AttendanceBook on the rows as they are at that
\* moment, and nothing else any call does shows.
THEOREM LedgerImplementsBook == Spec => ImplementsBook
  <1>1. Spec => []LedgerInv
    BY AlwaysTyped, AlwaysIntents, AlwaysUniqueOpen, AlwaysPeriod, AlwaysLocks,
       AlwaysReview, AlwaysSessions, AlwaysRecords, AlwaysBook, PTL DEF LedgerInv
  <1> QED
    BY <1>1, InitInBook, StepInBook, PTL DEF Spec, ImplementsBook, Book!Spec
=============================================================================
