---------------------------- MODULE Access_proofs ----------------------------
(***************************************************************************)
(* What Access keeps for every value of the constants: a session that is   *)
(* gone never works again, no client holds a session obtained with a       *)
(* replaced password unless its row was inserted between the DELETE and    *)
(* the COMMIT of a reset, and a counter exceeds its limit by no more than  *)
(* the attempts that were in flight together.                              *)
(***************************************************************************)
EXTENDS Access, FiniteSetTheorems, TLAPS

-----------------------------------------------------------------------------
(* The inductive invariants                                                *)

\* A row that was ever inserted names its user and company; only such a row's
\* token was given to a client.
Rows ==
    \A t \in Tokens :
        /\ session[t].status # "unused" =>
              session[t].user \in Users /\ session[t].company \in Companies
        /\ session[t].issued => session[t].status # "unused"

\* The operations that replace a password.
Replaces == {"CHANGE", "RESET"}

\* The calls that go on with the row of a token.
NamesRow(q) ==
    \/ q.pc \in {"reread", "discard", "validate", "renew"}
    \/ q.pc = "clear" /\ q.op = "LOGIN"

\* What a call has established by the stage it has reached.
Stage(q) ==
    /\ q.pc = "idle" <=> q.op = "NONE"
    /\ q.pc \in {"verify", "company", "insert", "reread"} => q.op = "LOGIN"
    /\ q.pc \in {"limit", "fail", "clear"} => q.op \in {"LOGIN", "CHANGE"}
    /\ q.pc = "write" => q.op \in {"RESET", "TERMINATE"}
    /\ q.op \notin {"NONE", "LOGOUT"} => q.user \in Users
    /\ q.pc = "insert" => q.company \in Companies
    /\ NamesRow(q) => q.token \in Tokens
    /\ q.pc \in {"revoke", "commit"} /\ q.op \in Replaces => q.holdsUser

Stages ==
    \A i \in Calls :
        /\ Stage(call[i])
        /\ NamesRow(call[i]) => session[call[i].token].status # "unused"

TypeInv == TypeOK /\ Rows /\ Stages

\* A transaction that replaces a password has doomed every session of the user but
\* those inserted since, and those carry the mark.
Dooms(q) ==
    q.pc = "commit" /\ q.op \in Replaces =>
        \A t \in Tokens :
            Live(t) /\ session[t].user = q.target /\ ~session[t].gap => t \in q.doomed

\* The calls that Dooms and HandsOut say nothing about.
Plain(q) ==
    /\ ~(q.pc = "commit" /\ q.op \in Replaces)
    /\ q.pc # "reread" /\ ~(q.pc = "clear" /\ q.op = "LOGIN")

\* A login that is about to hand out a token has found, after inserting its row,
\* that the password it verified is still the current one.
HandsOut(q) ==
    /\ q.token \in Tokens /\ Live(q.token)
    /\ ~session[q.token].gap /\ session[q.token].replaced
    =>
        /\ q.pc = "reread" => ~q.knows
        /\ ~(q.pc = "clear" /\ q.op = "LOGIN")

GuardInv ==
    /\ OnlyAnUncommittedResetIsMissed
    /\ \A i \in Calls : Dooms(call[i]) /\ HandsOut(call[i])

\* The calls that have passed the check of a counter and may still add to it.
Trying(q) == q.pc \in {"verify", "fail"} \/ (q.pc = "lock" /\ q.op = "CHANGE")

Attempts(l) == {i \in Calls : l \in call[i].pending /\ Trying(call[i])}

\* What a counter has, and what attempts may still add to it.
CountInv ==
    FailuresBounded /\
    \A l \in Limits :
        ActiveCount(l) + Cardinality(Attempts(l)) < MaxFailures[l[1]] + Cardinality(Calls)

-----------------------------------------------------------------------------
(* Types                                                                   *)

\* The limits a call counts against are limits.
LEMMA RulesAreLimits ==
    ASSUME NEW u \in Users
    PROVE  EmailLimit(u) \in Limits /\ ChangeLimit(u) \in Limits /\ LoginRules(u) \subseteq Limits
  <1>1. (CHOOSE x \in Users : TRUE) \in Users
    OBVIOUS
  <1> QED
    BY <1>1 DEF EmailLimit, ChangeLimit, IpLimit, LoginRules, Limits, Kinds

\* The initial state is typed.
LEMMA InitTyped == Init => TypeInv
  <1> SUFFICES ASSUME Init PROVE TypeInv
    OBVIOUS
  <1>1. account \in [Users -> Account]
    BY DEF Init, Account
  <1>2. active \in [Users -> [Companies -> BOOLEAN]]
    BY DEF Init
  <1>3. failures \in [Limits -> Counter]
    BY TimeAssumption DEF Init, NoCounter, Counter
  <1>4. Idle \in Call
    BY DEF Idle, Call
  <1>5. call \in [Calls -> Call] /\ \A i \in Calls : call[i] = Idle
    BY <1>4 DEF Init
  <1>6. ASSUME NEW t \in Tokens
        PROVE  /\ session[t] \in Session
               /\ session[t].status # "unused" =>
                     session[t].user \in Users /\ session[t].company \in Companies
               /\ session[t].issued => session[t].status # "unused"
    <2>1. CASE Signed[t] = None
      <3>1. session[t] = NoSession
        BY <2>1 DEF Init
      <3> QED
        BY <3>1, TimeAssumption DEF NoSession, Session
    <2>2. CASE Signed[t] # None
      <3>1. Signed[t][1] \in Users /\ Signed[t][2] \in Companies
        BY <2>2, MembershipAssumption
      <3>2. session[t] = [status |-> "live", user |-> Signed[t][1], company |-> Signed[t][2],
                          life |-> SessionLife, replaced |-> FALSE, gap |-> FALSE,
                          issued |-> TRUE]
        BY <2>2 DEF Init, NewSession
      <3> QED
        BY <3>1, <3>2, TimeAssumption DEF Session
    <2> QED
      BY <2>1, <2>2
  <1>7. session \in [Tokens -> Session]
    BY <1>6 DEF Init
  <1>8. TypeOK
    BY <1>1, <1>2, <1>3, <1>5, <1>6, <1>7, NoneAssumption DEF TypeOK, Live
  <1>9. Stages
    BY <1>5 DEF Stages, Stage, NamesRow, Idle
  <1> QED
    BY <1>6, <1>8, <1>9 DEF TypeInv, Rows

\* A step that moves one call and stores what is typed.
LEMMA MoveTyped ==
    ASSUME TypeInv, NEW i \in Calls, NEW q \in Call, call' = [call EXCEPT ![i] = q],
           account' \in [Users -> Account], active' \in [Users -> [Companies -> BOOLEAN]],
           failures' \in [Limits -> Counter], session' \in [Tokens -> Session], Rows',
           \A t \in Tokens : session[t].status # "unused" => session'[t].status # "unused",
           Stage(q), NamesRow(q) => session'[q.token].status # "unused"
    PROVE  TypeInv'
  <1>1. call' \in [Calls -> Call]
    BY DEF TypeInv, TypeOK
  <1>2. \A t \in Tokens : session'[t].status = "live" =>
           session'[t].user # None /\ session'[t].company # None
    BY NoneAssumption DEF Rows
  <1>3. TypeOK'
    BY <1>1, <1>2 DEF TypeOK, Live
  <1>4. ASSUME NEW j \in Calls
        PROVE  Stage(call'[j]) /\ (NamesRow(call'[j]) => session'[call'[j].token].status # "unused")
    <2>1. CASE j = i
      BY <2>1 DEF TypeInv, TypeOK
    <2>2. CASE j # i
      <3>1. call'[j] = call[j] /\ Stage(call[j])
            /\ (NamesRow(call[j]) => session[call[j].token].status # "unused")
        BY <2>2 DEF TypeInv, TypeOK, Stages
      <3>2. NamesRow(call[j]) => call[j].token \in Tokens
        BY <3>1 DEF Stage
      <3> QED
        BY <3>1, <3>2
    <2> QED
      BY <2>1, <2>2
  <1>5. Stages'
    BY <1>4 DEF Stages
  <1> QED
    BY <1>3, <1>5 DEF TypeInv

\* A step that moves one call and stores nothing.
LEMMA QuietTyped ==
    ASSUME TypeInv, NEW i \in Calls, NEW q \in Call, call' = [call EXCEPT ![i] = q],
           UNCHANGED <<account, active, session, failures>>,
           Stage(q), NamesRow(q) => session[q.token].status # "unused"
    PROVE  TypeInv'
  <1>1. /\ account' \in [Users -> Account] /\ active' \in [Users -> [Companies -> BOOLEAN]]
        /\ failures' \in [Limits -> Counter] /\ session' \in [Tokens -> Session] /\ Rows'
    BY DEF TypeInv, TypeOK, Rows
  <1> QED
    BY <1>1, MoveTyped

\* A slot whose call has ended.
LEMMA IdleTyped == Idle \in Call /\ Stage(Idle) /\ ~NamesRow(Idle)
  BY DEF Idle, Call, Stage, NamesRow

\* The end of a call that stores nothing.
LEMMA DoneTyped ==
    ASSUME TypeInv, NEW i \in Calls, Done(i), UNCHANGED <<account, active, session, failures>>
    PROVE  TypeInv'
  BY IdleTyped, QuietTyped DEF Done, Become

\* Arrivals.
LEMMA ArriveTyped ==
    ASSUME TypeInv, NEW i \in Calls, ArriveCall(i)
    PROVE  TypeInv'
  <1>1. ASSUME NEW u \in Clients, NEW c \in Companies \cup {None}, NEW knows \in BOOLEAN,
               ArriveLogin(i, u, c, knows)
        PROVE  TypeInv'
    <2> DEFINE q == [Idle EXCEPT !.pc = "limit", !.op = "LOGIN", !.user = u, !.company = c,
                                 !.knows = knows, !.pending = LoginRules(u)]
    <2>1. u \in Users /\ LoginRules(u) \subseteq Limits
      BY MembershipAssumption, RulesAreLimits
    <2>2. call' = [call EXCEPT ![i] = q] /\ UNCHANGED <<account, active, session, failures>>
      BY <1>1 DEF ArriveLogin, Arrive, Become
    <2>3. q \in Call
      BY <2>1 DEF Idle, Call, AllOps
    <2>4. Stage(q) /\ ~NamesRow(q)
      BY <2>1 DEF Idle, Stage, NamesRow
    <2> HIDE DEF q
    <2> QED
      BY <2>2, <2>3, <2>4, QuietTyped
  <1>2. ASSUME NEW t \in Tokens, ArriveLogout(i, t)
        PROVE  TypeInv'
    <2> DEFINE q == [Idle EXCEPT !.pc = "discard", !.op = "LOGOUT", !.token = t]
    <2>1. session[t].status # "unused"
      BY <1>2 DEF ArriveLogout, Presented, TypeInv, Rows
    <2>2. call' = [call EXCEPT ![i] = q] /\ UNCHANGED <<account, active, session, failures>>
      BY <1>2 DEF ArriveLogout, Arrive, Become
    <2>3. q \in Call
      BY DEF Idle, Call, AllOps
    <2>4. Stage(q) /\ q.token = t
      BY DEF Idle, Stage, NamesRow
    <2> HIDE DEF q
    <2> QED
      BY <2>1, <2>2, <2>3, <2>4, QuietTyped
  <1>3. ASSUME NEW t \in Tokens, Presented(t)
        PROVE  session[t].status # "unused" /\ session[t].user \in Users
               /\ session[t].company \in Companies
    BY <1>3 DEF Presented, TypeInv, Rows
  <1>4. ASSUME NEW t \in Tokens, ArriveUse(i, t)
        PROVE  TypeInv'
    <2> DEFINE q == Request("USE", t)
    <2>1. Presented(t) /\ call' = [call EXCEPT ![i] = q]
          /\ UNCHANGED <<account, active, session, failures>>
      BY <1>4 DEF ArriveUse, Arrive, Become
    <2>2. session[t].user \in Users /\ session[t].company \in Companies
      BY <1>3, <2>1
    <2>3. q \in Call
      BY <2>2 DEF Request, Idle, Call, AllOps
    <2>4. Stage(q) /\ q.token = t
      BY <2>2 DEF Request, Idle, Stage, NamesRow
    <2> HIDE DEF q
    <2> QED
      BY <1>3, <2>1, <2>3, <2>4, QuietTyped
  <1>5. ASSUME NEW t \in Tokens, NEW knows \in BOOLEAN, ArriveChange(i, t, knows)
        PROVE  TypeInv'
    <2> DEFINE q == [Request("CHANGE", t) EXCEPT !.target = session[t].user, !.knows = knows]
    <2>1. Presented(t) /\ call' = [call EXCEPT ![i] = q]
          /\ UNCHANGED <<account, active, session, failures>>
      BY <1>5 DEF ArriveChange, Arrive, Become
    <2>2. session[t].user \in Users /\ session[t].company \in Companies
      BY <1>3, <2>1
    <2>3. q \in Call
      <3> DEFINE x == Request("CHANGE", t)
      <3>1. x \in Call
        BY <2>2 DEF Request, Idle, Call, AllOps
      <3> HIDE DEF x
      <3>2. [x EXCEPT !.target = session[t].user, !.knows = knows] \in Call
        BY <2>2, <3>1 DEF Call
      <3> QED
        BY <3>2 DEF x
    <2>4. Stage(q) /\ q.token = t
      BY <2>2 DEF Request, Idle, Stage, NamesRow
    <2> HIDE DEF q
    <2> QED
      BY <1>3, <2>1, <2>3, <2>4, QuietTyped
  <1>6. ASSUME NEW t \in Tokens, NEW op \in AccountOps, NEW u \in Users, ArriveAccountOp(i, op, t, u)
        PROVE  TypeInv'
    <2> DEFINE q == [Request(op, t) EXCEPT !.target = u]
    <2>1. Presented(t) /\ call' = [call EXCEPT ![i] = q]
          /\ UNCHANGED <<account, active, session, failures>>
      BY <1>6 DEF ArriveAccountOp, Arrive, Become
    <2>2. session[t].user \in Users /\ session[t].company \in Companies
      BY <1>3, <2>1
    <2>3. q \in Call
      BY <2>2 DEF Request, Idle, Call, AllOps
    <2>4. Stage(q) /\ q.token = t
      BY <2>2 DEF Request, Idle, Stage, NamesRow, AccountOps
    <2> HIDE DEF q
    <2> QED
      BY <1>3, <2>1, <2>3, <2>4, QuietTyped
  <1> QED
    BY <1>1, <1>2, <1>4, <1>5, <1>6 DEF ArriveCall

\* Logging in, up to the insertion of the session, and the re-read after it.
LEMMA LoginTyped ==
    ASSUME TypeInv, NEW i \in Calls,
           CheckLimit(i) \/ Verify(i) \/ ChooseCompany(i) \/ Reread(i)
    PROVE  TypeInv'
  <1> DEFINE q == call[i]
  <1>1. q \in Call /\ Stage(q) /\ (NamesRow(q) => session[q.token].status # "unused")
    BY DEF TypeInv, TypeOK, Stages
  <1>a. UNCHANGED <<account, active, session, failures>>
    BY Zenon DEF CheckLimit, Verify, ChooseCompany, Reread
  <1>2. CASE CheckLimit(i)
    <2> DEFINE seen == \E l \in q.pending : l[1] # "login-ip" /\ ActiveCount(l) > 0
               pc == IF q.op = "LOGIN" THEN "verify" ELSE "lock"
               t == [q EXCEPT !.pc = pc, !.dirty = seen]
    <2>1. q.pc = "limit" /\ (Done(i) \/ call' = [call EXCEPT ![i] = t])
      BY <1>2, Zenon DEF CheckLimit, Become
    <2>2. seen \in BOOLEAN
      OBVIOUS
    <2>3. pc \in {"verify", "lock"} /\ (pc = "verify" => q.op = "LOGIN")
      OBVIOUS
    <2> HIDE DEF seen, pc
    <2>4. t \in Call
      BY <1>1, <2>2, <2>3 DEF Call
    <2>5. Stage(t) /\ ~NamesRow(t)
      BY <1>1, <2>1, <2>3 DEF Call, Stage, NamesRow
    <2> HIDE DEF q, t
    <2> QED
      BY <1>1, <1>a, <2>1, <2>4, <2>5, DoneTyped, QuietTyped
  <1>3. CASE Verify(i)
    <2> DEFINE pc == IF q.user \in Enabled /\ q.knows THEN "company" ELSE "fail"
               t == [q EXCEPT !.pc = pc]
    <2>1. pc \in {"company", "fail"} /\ q.pc = "verify" /\ call' = [call EXCEPT ![i] = t]
      BY <1>3 DEF Verify, Goto, Become
    <2> HIDE DEF pc
    <2>2. t \in Call /\ Stage(t) /\ ~NamesRow(t)
      BY <1>1, <2>1 DEF Call, Stage, NamesRow
    <2> HIDE DEF q, t
    <2> QED
      BY <1>1, <1>a, <2>1, <2>2, QuietTyped
  <1>4. CASE ChooseCompany(i)
    <2>1. CASE Done(i)
      BY <1>a, <2>1, DoneTyped
    <2>2. ASSUME NEW c \in Companies, call' = [call EXCEPT ![i] = [q EXCEPT !.pc = "insert", !.company = c]]
          PROVE  TypeInv'
      <3> DEFINE t == [q EXCEPT !.pc = "insert", !.company = c]
      <3>1. q.pc = "company"
        BY <1>4 DEF ChooseCompany
      <3>2. t \in Call /\ Stage(t) /\ ~NamesRow(t)
        BY <1>1, <3>1 DEF Call, Stage, NamesRow
      <3>3. call' = [call EXCEPT ![i] = t]
        BY <2>2
      <3> HIDE DEF q, t
      <3> QED
        BY <1>a, <3>2, <3>3, QuietTyped
    <2> QED
      BY <1>4, <2>1, <2>2 DEF ChooseCompany, Become
  <1>5. CASE Reread(i)
    <2> DEFINE pc == IF q.user \in Enabled /\ q.knows THEN "clear" ELSE "discard"
               t == [q EXCEPT !.pc = pc]
    <2>1. pc \in {"clear", "discard"} /\ q.pc = "reread" /\ call' = [call EXCEPT ![i] = t]
      BY <1>5 DEF Reread, Goto, Become
    <2> HIDE DEF pc
    <2>2. t \in Call /\ Stage(t) /\ t.token = q.token /\ NamesRow(q)
      BY <1>1, <2>1 DEF Call, Stage, NamesRow
    <2> HIDE DEF q, t
    <2> QED
      BY <1>1, <1>a, <2>1, <2>2, QuietTyped
  <1> QED
    BY <1>2, <1>3, <1>4, <1>5

\* A call that goes on to a stage that names no row.
LEMMA GoesOn ==
    ASSUME TypeInv, NEW i \in Calls, NEW t \in Call, call' = [call EXCEPT ![i] = t],
           UNCHANGED <<account, active, session, failures>>,
           t.op = call[i].op, t.user = call[i].user, call[i].pc # "idle",
           \/ t.pc = "lock"
           \/ t.pc = "write" /\ t.op \in {"RESET", "TERMINATE"}
           \/ t.pc \in {"limit", "fail"} /\ t.op = "CHANGE"
           \/ t.pc \in {"revoke", "commit"} /\ (t.op \in Replaces => t.holdsUser)
    PROVE  TypeInv'
  <1>1. Stage(call[i])
    BY DEF TypeInv, Stages
  <1>2. Stage(t) /\ ~NamesRow(t)
    BY <1>1 DEF Stage, NamesRow
  <1> QED
    BY <1>2, QuietTyped

\* A request up to its transaction, and in it up to its commit.
LEMMA RequestTyped ==
    ASSUME TypeInv, NEW i \in Calls,
           \/ Context(i) \/ LockForChange(i) \/ LockMembership(i)
           \/ ReadMembership(i) \/ WriteRow(i) \/ Revoke(i)
    PROVE  TypeInv'
  <1> DEFINE q == call[i]
  <1>1. q \in Call /\ Stage(q)
    BY DEF TypeInv, TypeOK, Stages
  <1>2. UNCHANGED <<account, active, session, failures>>
    BY Zenon DEF Context, LockForChange, LockMembership, ReadMembership, WriteRow, Revoke
  <1>3. CASE Done(i)
    BY <1>2, <1>3, DoneTyped
  <1>4. CASE Context(i) /\ ~Done(i)
    <2>1. q.pc = "context"
      BY <1>4, Zenon DEF Context
    <2>2. CASE q.op = "CHANGE"
      <3> DEFINE t == [q EXCEPT !.pc = "limit", !.pending = {ChangeLimit(q.user)}]
      <3>1. call' = [call EXCEPT ![i] = t]
        BY <1>4, <2>2, Zenon DEF Context, Become
      <3>2. q.user \in Users
        BY <1>1, <2>2 DEF Stage
      <3>3. ChangeLimit(q.user) \in Limits
        BY <3>2, RulesAreLimits
      <3>4. t \in Call
        BY <1>1, <3>3 DEF Call
      <3>5. t.op = q.op /\ t.user = q.user /\ t.pc = "limit"
        BY <1>1 DEF Call
      <3> HIDE DEF t
      <3> QED
        BY <1>2, <2>1, <2>2, <3>1, <3>4, <3>5, GoesOn
    <2>3. CASE q.op # "CHANGE"
      <3> DEFINE t == [q EXCEPT !.pc = "lock"]
      <3>1. call' = [call EXCEPT ![i] = t]
        BY <1>4, <2>3, Zenon DEF Context, Goto, Become
      <3>2. t \in Call /\ t.op = q.op /\ t.user = q.user /\ t.pc = "lock"
        BY <1>1 DEF Call
      <3> HIDE DEF t
      <3> QED
        BY <1>2, <2>1, <3>1, <3>2, GoesOn
    <2> QED
      BY <2>2, <2>3
  <1>5. CASE LockForChange(i)
    <2>1. q.pc = "lock" /\ q.op = "CHANGE"
      BY <1>5, Zenon DEF LockForChange
    <2> DEFINE a == [q EXCEPT !.pc = "revoke", !.holdsUser = TRUE]
               b == [q EXCEPT !.pc = "fail"]
    <2>2. call' = [call EXCEPT ![i] = a] \/ call' = [call EXCEPT ![i] = b]
      BY <1>5, Zenon DEF LockForChange, Goto, Become
    <2>3. /\ a \in Call /\ a.op = q.op /\ a.user = q.user /\ a.pc = "revoke" /\ a.holdsUser
          /\ b \in Call /\ b.op = q.op /\ b.user = q.user /\ b.pc = "fail"
      BY <1>1 DEF Call
    <2> HIDE DEF a, b
    <2> QED
      BY <1>2, <2>1, <2>2, <2>3, GoesOn
  <1>6. CASE LockMembership(i) /\ ~Done(i)
    <2> DEFINE pc == CASE q.op = "RESET" -> "write" [] q.op = "DEACTIVATE" -> "revoke"
                       [] OTHER -> "commit"
               t == [q EXCEPT !.holdsMembership = TRUE, !.pc = pc]
    <2>1. q.pc = "lock" /\ q.op \in {"RESET", "ACTIVATE", "DEACTIVATE"}
          /\ call' = [call EXCEPT ![i] = t]
      BY <1>6, Zenon DEF LockMembership, Become
    <2>2. pc \in {"write", "revoke", "commit"} /\ (IF pc = "write" THEN q.op = "RESET" ELSE q.op \notin Replaces)
      BY <2>1 DEF Replaces
    <2> HIDE DEF pc
    <2>3. t \in Call /\ t.op = q.op /\ t.user = q.user /\ t.pc = pc
      BY <1>1, <2>2 DEF Call
    <2> HIDE DEF t
    <2> QED
      BY <1>2, <2>1, <2>2, <2>3, GoesOn
  <1>7. CASE ReadMembership(i) /\ ~Done(i)
    <2> DEFINE t == [q EXCEPT !.pc = "write"]
    <2>1. q.pc = "lock" /\ q.op = "TERMINATE" /\ call' = [call EXCEPT ![i] = t]
      BY <1>7, Zenon DEF ReadMembership, Goto, Become
    <2>2. t \in Call /\ t.op = q.op /\ t.user = q.user /\ t.pc = "write"
      BY <1>1 DEF Call
    <2> HIDE DEF t
    <2> QED
      BY <1>2, <2>1, <2>2, GoesOn
  <1>8. CASE WriteRow(i)
    <2> DEFINE a == [q EXCEPT !.pc = "revoke", !.holdsUser = TRUE]
               b == [q EXCEPT !.pc = "revoke", !.holdsMembership = TRUE]
    <2>1. /\ q.pc = "write"
          /\ \/ call' = [call EXCEPT ![i] = a]
             \/ q.op # "RESET" /\ call' = [call EXCEPT ![i] = b]
      BY <1>8, Zenon DEF WriteRow, Become
    <2>2. q.op # "CHANGE"
      BY <1>1, <2>1 DEF Stage
    <2>3. /\ a \in Call /\ a.op = q.op /\ a.user = q.user /\ a.pc = "revoke" /\ a.holdsUser
          /\ b \in Call /\ b.op = q.op /\ b.user = q.user /\ b.pc = "revoke"
      BY <1>1 DEF Call
    <2> HIDE DEF a, b
    <2> QED
      BY <1>2, <2>1, <2>2, <2>3, GoesOn DEF Replaces
  <1>9. CASE Revoke(i)
    <2> DEFINE rows == IF q.op \in {"CHANGE", "RESET"} THEN SessionsOfUser(q.target)
                       ELSE SessionsInCompany(q.target, q.company)
               t == [q EXCEPT !.pc = "commit", !.doomed = rows]
    <2>1. q.pc = "revoke" /\ call' = [call EXCEPT ![i] = t]
      BY <1>9, Zenon DEF Revoke, Become
    <2>2. rows \in SUBSET Tokens
      BY DEF SessionsOfUser, SessionsInCompany
    <2> HIDE DEF rows
    <2>3. t \in Call /\ t.op = q.op /\ t.user = q.user /\ t.pc = "commit"
          /\ t.holdsUser = q.holdsUser
      BY <1>1, <2>2 DEF Call
    <2>4. q.op \in Replaces => q.holdsUser
      BY <1>1, <2>1 DEF Stage
    <2> HIDE DEF t
    <2> QED
      BY <1>2, <2>1, <2>3, <2>4, GoesOn
  <1> QED
    BY <1>3, <1>4, <1>5, <1>6, <1>7, <1>8, <1>9

\* What remains of a row that is deleted.
LEMMA DeletedRow ==
    ASSUME NEW s \in Session
    PROVE  /\ Deleted(s) \in Session /\ Deleted(s).status = "deleted"
           /\ Deleted(s).user = s.user /\ Deleted(s).company = s.company
           /\ Deleted(s).issued = s.issued
  <1> DEFINE a == [s EXCEPT !.status = "deleted"]
             b == [a EXCEPT !.life = 0]
             no == FALSE
             c == [b EXCEPT !.replaced = no]
             d == [c EXCEPT !.gap = no]
  <1>1. Deleted(s) = d
    BY DEF Deleted
  <1>2. a \in Session /\ a.status = "deleted"
        /\ a.user = s.user /\ a.company = s.company /\ a.issued = s.issued
    BY DEF Session
  <1> HIDE DEF a
  <1>3. b \in Session /\ b.status = a.status
        /\ b.user = a.user /\ b.company = a.company /\ b.issued = a.issued
    BY <1>2, TimeAssumption DEF Session
  <1>4. no \in BOOLEAN
    OBVIOUS
  <1> HIDE DEF b, no
  <1>5. c \in Session /\ c.status = b.status
        /\ c.user = b.user /\ c.company = b.company /\ c.issued = b.issued
    BY <1>3, <1>4 DEF Session
  <1> HIDE DEF c
  <1>6. d \in Session /\ d.status = c.status
        /\ d.user = c.user /\ d.company = c.company /\ d.issued = c.issued
    BY <1>5, <1>4 DEF Session
  <1> QED
    BY <1>1, <1>2, <1>3, <1>5, <1>6

\* Deleting keeps the rows typed.
LEMMA DeleteTyped ==
    ASSUME TypeInv, NEW tokens, Delete(tokens)
    PROVE  /\ session' \in [Tokens -> Session] /\ Rows'
           /\ \A t \in Tokens : session[t].status # "unused" => session'[t].status # "unused"
  <1> DEFINE F(t) == IF t \in tokens /\ Live(t) THEN Deleted(session[t]) ELSE session[t]
  <1>1. session' = [t \in Tokens |-> F(t)]
    BY DEF Delete
  <1>2. ASSUME NEW t \in Tokens
        PROVE  /\ F(t) \in Session
               /\ F(t).user = session[t].user /\ F(t).company = session[t].company
               /\ F(t).issued => session[t].issued
               /\ F(t).status = "unused" <=> session[t].status = "unused"
    <2>1. session[t] \in Session
      BY DEF TypeInv, TypeOK
    <2> QED
      BY <2>1, DeletedRow DEF Live
  <1> HIDE DEF F
  <1>3. session' \in [Tokens -> Session]
    BY <1>1, <1>2
  <1>4. \A t \in Tokens : session'[t] = F(t)
    BY <1>1
  <1> QED
    BY <1>2, <1>3, <1>4 DEF TypeInv, Rows

\* The end of a call that deletes rows.
LEMMA DeleteDoneTyped ==
    ASSUME TypeInv, NEW i \in Calls, NEW tokens, Delete(tokens), Done(i),
           account' = account, active' \in [Users -> [Companies -> BOOLEAN]], failures' = failures
    PROVE  TypeInv'
  <1>1. /\ session' \in [Tokens -> Session] /\ Rows'
        /\ \A t \in Tokens : session[t].status # "unused" => session'[t].status # "unused"
    BY DeleteTyped
  <1>2. account' \in [Users -> Account] /\ failures' \in [Limits -> Counter]
    BY DEF TypeInv, TypeOK
  <1> QED
    BY <1>1, <1>2, IdleTyped, MoveTyped DEF Done, Become

\* What a further failure makes of a counter.
LEMMA CountedCounter ==
    ASSUME NEW f \in Counter
    PROVE  /\ Counted(f) \in Counter
           /\ Counted(f).age < Window
           /\ Counted(f).count = (IF f.age < Window THEN f.count ELSE 0) + 1
  BY TimeAssumption DEF Counter, Counted

\* Counting a failure.
LEMMA FailureTyped ==
    ASSUME TypeInv, NEW i \in Calls, RecordFailure(i)
    PROVE  TypeInv'
  <1> DEFINE q == call[i]
  <1>1. q \in Call /\ Stage(q) /\ q.pc = "fail"
    BY DEF TypeInv, TypeOK, Stages, RecordFailure
  <1>2. PICK l \in q.pending :
           /\ failures' = [failures EXCEPT ![l] = Counted(@)]
           /\ Done(i) \/ Become(i, [q EXCEPT !.pending = @ \ {l}])
    BY Zenon DEF RecordFailure
  <1> DEFINE t == [q EXCEPT !.pending = @ \ {l}]
  <1>3. l \in Limits
    BY <1>1 DEF Call
  <1>4. failures' \in [Limits -> Counter]
    BY <1>2, <1>3, CountedCounter DEF TypeInv, TypeOK
  <1>5. t \in Call /\ Stage(t) /\ ~NamesRow(t)
    BY <1>1 DEF Call, Stage, NamesRow
  <1>6. UNCHANGED <<account, active, session>>
    BY DEF RecordFailure
  <1>7. /\ account' \in [Users -> Account] /\ active' \in [Users -> [Companies -> BOOLEAN]]
        /\ session' \in [Tokens -> Session] /\ Rows'
    BY <1>6 DEF TypeInv, TypeOK, Rows
  <1>8. \/ call' = [call EXCEPT ![i] = Idle]
        \/ call' = [call EXCEPT ![i] = t]
    BY <1>2 DEF Done, Become
  <1> HIDE DEF t
  <1> QED
    BY <1>4, <1>5, <1>6, <1>7, <1>8, IdleTyped, MoveTyped

\* Whether a row was obtained with a replaced password, and inserted in the gap.
LEMMA NewRow ==
    ASSUME NEW u \in Users, NEW c \in Companies, NEW replaced \in BOOLEAN, NEW gap \in BOOLEAN
    PROVE  /\ NewSession(u, c, replaced, gap) \in Session
           /\ NewSession(u, c, replaced, gap).status = "live"
           /\ NewSession(u, c, replaced, gap).user = u
           /\ NewSession(u, c, replaced, gap).company = c
           /\ NewSession(u, c, replaced, gap).replaced = replaced
           /\ NewSession(u, c, replaced, gap).gap = gap
           /\ ~NewSession(u, c, replaced, gap).issued
  BY TimeAssumption DEF NewSession, Session

\* Inserting the row of a session.
LEMMA InsertTyped ==
    ASSUME TypeInv, NEW i \in Calls, InsertSession(i)
    PROVE  TypeInv'
  <1> DEFINE q == call[i]
             old == ~q.knows
             gap == BeingReplaced(q.user)
             row == NewSession(q.user, q.company, old, gap)
  <1>1. q \in Call /\ Stage(q) /\ q.pc = "insert"
    BY DEF TypeInv, TypeOK, Stages, InsertSession
  <1>2. PICK t \in Tokens :
           /\ session[t].status = "unused"
           /\ session' = [session EXCEPT ![t] = row]
           /\ call' = [call EXCEPT ![i] = [q EXCEPT !.pc = "reread", !.token = t]]
    BY Zenon DEF InsertSession, Become
  <1> DEFINE r == [q EXCEPT !.pc = "reread", !.token = t]
  <1>3. q.user \in Users /\ q.company \in Companies /\ q.op = "LOGIN"
    BY <1>1 DEF Stage
  <1>4. old \in BOOLEAN /\ gap \in BOOLEAN
    BY DEF BeingReplaced
  <1> HIDE DEF old, gap
  <1>5. /\ row \in Session /\ row.status = "live"
        /\ row.user \in Users /\ row.company \in Companies /\ ~row.issued
    BY <1>3, <1>4, NewRow
  <1> HIDE DEF row
  <1>6. /\ session' \in [Tokens -> Session]
        /\ \A s \in Tokens : session'[s] = IF s = t THEN row ELSE session[s]
    BY <1>2, <1>5 DEF TypeInv, TypeOK
  <1>7. Rows' /\ \A s \in Tokens : session[s].status # "unused" => session'[s].status # "unused"
    BY <1>5, <1>6 DEF Rows, TypeInv
  <1>8. r \in Call /\ r.token = t
    BY <1>1 DEF Call
  <1>9. Stage(r)
    BY <1>1, <1>3 DEF Call, Stage, NamesRow
  <1>10. UNCHANGED <<account, active, failures>>
    BY DEF InsertSession
  <1>11. /\ account' \in [Users -> Account] /\ active' \in [Users -> [Companies -> BOOLEAN]]
         /\ failures' \in [Limits -> Counter]
    BY <1>10 DEF TypeInv, TypeOK
  <1>12. call' = [call EXCEPT ![i] = r] /\ session'[t].status # "unused"
    BY <1>2, <1>5, <1>6
  <1> HIDE DEF r, q
  <1> QED
    BY <1>6, <1>7, <1>8, <1>9, <1>11, <1>12, MoveTyped

\* Clearing a counter and handing out a token.
LEMMA ClearTyped ==
    ASSUME TypeInv, NEW i \in Calls, Clear(i)
    PROVE  TypeInv'
  <1> DEFINE q == call[i]
             l == IF q.op = "LOGIN" THEN EmailLimit(q.user) ELSE ChangeLimit(q.user)
             given == TRUE
  <1>1. q \in Call /\ Stage(q) /\ q.pc = "clear"
    BY DEF TypeInv, TypeOK, Stages, Clear
  <1>2. q.user \in Users
    BY <1>1 DEF Stage
  <1>3. l \in Limits
    BY <1>2, RulesAreLimits
  <1>4. /\ failures' = failures \/ failures' = [failures EXCEPT ![l] = NoCounter]
        /\ IF q.op = "LOGIN" THEN session' = [session EXCEPT ![q.token].issued = given]
           ELSE session' = session
        /\ call' = [call EXCEPT ![i] = Idle] /\ UNCHANGED <<account, active>>
    BY DEF Clear, Done, Become
  <1>5. failures' \in [Limits -> Counter]
    BY <1>3, <1>4, TimeAssumption DEF TypeInv, TypeOK, NoCounter, Counter
  <1>6. given \in BOOLEAN
    OBVIOUS
  <1> HIDE DEF given, l
  <1>7. q.op = "LOGIN" => NamesRow(q) /\ q.token \in Tokens /\ session[q.token].status # "unused"
    BY <1>1 DEF NamesRow, Stage, TypeInv, Stages
  <1>8. /\ session' \in [Tokens -> Session]
        /\ \A t \in Tokens :
              /\ session'[t].status = session[t].status /\ session'[t].user = session[t].user
              /\ session'[t].company = session[t].company
              /\ session'[t].issued => session[t].issued \/ session[t].status # "unused"
    <2>1. CASE q.op = "LOGIN"
      <3> DEFINE row == [session[q.token] EXCEPT !.issued = given]
      <3>1. session[q.token] \in Session
        BY <1>7, <2>1 DEF TypeInv, TypeOK
      <3>2. /\ row \in Session /\ row.status = session[q.token].status
            /\ row.user = session[q.token].user /\ row.company = session[q.token].company
        BY <1>6, <3>1 DEF Session
      <3>3. session' = [session EXCEPT ![q.token] = row]
        BY <1>4, <2>1
      <3> HIDE DEF row
      <3> QED
        BY <1>7, <2>1, <3>2, <3>3 DEF TypeInv, TypeOK
    <2>2. CASE q.op # "LOGIN"
      BY <1>4, <2>2 DEF TypeInv, TypeOK
    <2> QED
      BY <2>1, <2>2
  <1>9. Rows'
    BY <1>8 DEF TypeInv, Rows
  <1>10. /\ account' \in [Users -> Account] /\ active' \in [Users -> [Companies -> BOOLEAN]]
    BY <1>4 DEF TypeInv, TypeOK
  <1> QED
    BY <1>4, <1>5, <1>8, <1>9, <1>10, IdleTyped, MoveTyped

\* Looking at the session that a request presents, and renewing it.
LEMMA SessionTyped ==
    ASSUME TypeInv, NEW i \in Calls, Validate(i) \/ Renew(i)
    PROVE  TypeInv'
  <1> DEFINE q == call[i]
             row == session[q.token]
  <1>1. q \in Call /\ Stage(q) /\ NamesRow(q) /\ row.status # "unused"
    BY DEF TypeInv, TypeOK, Stages, Validate, Renew, NamesRow
  <1>2. q.token \in Tokens
    BY <1>1 DEF Stage
  <1>3. row \in Session
    BY <1>2 DEF TypeInv, TypeOK
  <1>4. UNCHANGED <<account, active, failures>>
    BY Zenon DEF Validate, Renew
  <1>5. /\ account' \in [Users -> Account] /\ active' \in [Users -> [Companies -> BOOLEAN]]
        /\ failures' \in [Limits -> Counter]
    BY <1>4 DEF TypeInv, TypeOK
  <1>6. /\ session' \in [Tokens -> Session] /\ Rows'
        /\ \A t \in Tokens : session[t].status # "unused" => session'[t].status # "unused"
    <2>1. CASE session' = session
      BY <2>1 DEF TypeInv, TypeOK, Rows
    <2>2. CASE Validate(i) /\ Delete({q.token})
      BY <2>2, DeleteTyped
    <2>3. CASE Renew(i) /\ session' = [session EXCEPT ![q.token].life = SessionLife]
      <3> DEFINE new == [row EXCEPT !.life = SessionLife]
      <3>1. /\ new \in Session /\ new.status = row.status /\ new.user = row.user
            /\ new.company = row.company /\ new.issued = row.issued
        BY <1>3, TimeAssumption DEF Session
      <3>2. session' = [session EXCEPT ![q.token] = new]
        BY <2>3
      <3> HIDE DEF new
      <3> QED
        BY <1>2, <3>1, <3>2 DEF TypeInv, TypeOK, Rows
    <2> QED
      BY <2>1, <2>2, <2>3, Zenon DEF Validate, Renew
  <1>7. \/ Done(i)
        \/ \E pc \in {"renew", "context"} :
              /\ call' = [call EXCEPT ![i] = [q EXCEPT !.pc = pc]]
              /\ q.pc \in {"validate", "renew"}
    <2>1. CASE Validate(i)
      BY <2>1 DEF Validate, Goto, Become
    <2>2. CASE Renew(i)
      BY <2>2 DEF Renew, Goto, Become
    <2> QED
      BY <2>1, <2>2
  <1>8. CASE Done(i)
    BY <1>5, <1>6, <1>8, IdleTyped, MoveTyped DEF Done, Become
  <1>9. ASSUME NEW pc \in {"renew", "context"}, q.pc \in {"validate", "renew"},
               call' = [call EXCEPT ![i] = [q EXCEPT !.pc = pc]]
        PROVE  TypeInv'
    <2> DEFINE t == [q EXCEPT !.pc = pc]
    <2>1. t \in Call /\ t.token = q.token /\ Stage(t)
      BY <1>1, <1>9 DEF Call, Stage, NamesRow
    <2>2. call' = [call EXCEPT ![i] = t]
      BY <1>9
    <2> HIDE DEF t
    <2> QED
      BY <1>1, <1>2, <1>5, <1>6, <2>1, <2>2, MoveTyped
  <1> QED
    BY <1>7, <1>8, <1>9

\* The end of a membership, or its return.
LEMMA MembershipTyped ==
    ASSUME TypeInv, NEW i \in Calls, CommitMembership(i)
    PROVE  TypeInv'
  <1> DEFINE q == call[i]
             on == q.op = "ACTIVATE"
  <1>1. /\ active' = [active EXCEPT ![q.target][q.company] = on]
        /\ Delete(q.doomed) /\ Done(i) /\ UNCHANGED <<account, failures>>
    BY DEF CommitMembership
  <1>2. on \in BOOLEAN
    OBVIOUS
  <1> HIDE DEF on
  <1>3. active' \in [Users -> [Companies -> BOOLEAN]]
    BY <1>1, <1>2 DEF TypeInv, TypeOK
  <1> QED
    BY <1>1, <1>3, DeleteDoneTyped

\* What CommitPassword makes of a row: doomed rows are gone, later ones marked.
LEMMA PasswordRows ==
    ASSUME TypeInv, NEW i \in Calls, CommitPassword(i), NEW t \in Tokens
    PROVE  /\ session'[t] \in Session
           /\ session'[t].user = session[t].user /\ session'[t].company = session[t].company
           /\ session'[t].issued = session[t].issued
           /\ session'[t].status = IF t \in call[i].doomed /\ Live(t) THEN "deleted"
                                   ELSE session[t].status
           /\ t \notin call[i].doomed =>
                 /\ session'[t].gap = session[t].gap
                 /\ session'[t].replaced # session[t].replaced =>
                       Live(t) /\ session[t].user = call[i].target
  <1> DEFINE s == session[t]
             old == TRUE
             marked == [s EXCEPT !.replaced = old]
  <1>1. s \in Session
    BY DEF TypeInv, TypeOK
  <1>2. session'[t] = IF t \in call[i].doomed /\ Live(t) THEN Deleted(s)
                      ELSE IF Live(t) /\ s.user = call[i].target THEN marked ELSE s
    BY DEF CommitPassword
  <1>3. old \in BOOLEAN
    OBVIOUS
  <1> HIDE DEF old
  <1>4. /\ marked \in Session /\ marked.user = s.user /\ marked.company = s.company
        /\ marked.issued = s.issued /\ marked.status = s.status /\ marked.gap = s.gap
    BY <1>1, <1>3 DEF Session
  <1> HIDE DEF marked, s
  <1>5. CASE t \in call[i].doomed /\ Live(t)
    BY <1>1, <1>2, <1>5, DeletedRow DEF s
  <1>6. CASE ~(t \in call[i].doomed /\ Live(t))
    BY <1>1, <1>2, <1>4, <1>6 DEF s
  <1> QED
    BY <1>5, <1>6

\* What CommitPassword makes of the calls.
LEMMA PasswordCalls ==
    ASSUME TypeInv, NEW i \in Calls, CommitPassword(i), NEW j \in Calls
    PROVE  /\ call'[j] \in Call
           /\ j = i => call'[j].pc \in {"idle", "clear"} /\ (call'[j].pc = "clear" => call[i].op = "CHANGE")
           /\ j = i => call'[j].op = (IF call[i].op = "CHANGE" THEN "CHANGE" ELSE "NONE")
           /\ j = i /\ call[i].op = "CHANGE" =>
                 call'[j].pc = "clear" /\ call'[j].user = call[i].user
           /\ j # i =>
                 /\ call'[j].pc = call[j].pc /\ call'[j].op = call[j].op
                 /\ call'[j].user = call[j].user /\ call'[j].company = call[j].company
                 /\ call'[j].token = call[j].token /\ call'[j].target = call[j].target
                 /\ call'[j].pending = call[j].pending /\ call'[j].doomed = call[j].doomed
                 /\ call'[j].holdsUser = call[j].holdsUser
                 /\ call'[j].knows => call[j].knows
  <1> DEFINE no == FALSE
             q == call[i]
             a == [q EXCEPT !.pc = "clear"]
             b == [a EXCEPT !.doomed = {}]
             c == [b EXCEPT !.holdsUser = no]
             d == [call[j] EXCEPT !.knows = no]
  <1>1. q \in Call /\ call[j] \in Call /\ q.op \in {"CHANGE", "RESET"}
    BY DEF TypeInv, TypeOK, CommitPassword
  <1>2. call'[j] = IF j = i THEN IF q.op = "CHANGE" THEN c ELSE Idle
                   ELSE IF call[j].user = q.target THEN d ELSE call[j]
    BY DEF CommitPassword
  <1>3. a \in Call /\ a.pc = "clear" /\ a.op = q.op /\ a.user = q.user
    BY <1>1 DEF Call
  <1> HIDE DEF a
  <1>4. b \in Call /\ b.pc = "clear" /\ b.op = q.op /\ b.user = q.user
    BY <1>3 DEF Call
  <1>5. no \in BOOLEAN /\ ~no
    OBVIOUS
  <1> HIDE DEF b, no
  <1>6. c \in Call /\ c.pc = "clear" /\ c.op = q.op /\ c.user = q.user
    BY <1>4, <1>5 DEF Call
  <1>7. /\ d \in Call /\ d.pc = call[j].pc /\ d.op = call[j].op
        /\ d.user = call[j].user /\ d.company = call[j].company
        /\ d.token = call[j].token /\ d.target = call[j].target
        /\ d.pending = call[j].pending /\ d.doomed = call[j].doomed
        /\ d.holdsUser = call[j].holdsUser /\ ~d.knows
    BY <1>1, <1>5 DEF Call
  <1>8. Idle \in Call /\ Idle.pc = "idle" /\ Idle.op = "NONE"
    BY IdleTyped DEF Idle
  <1> HIDE DEF c, d, q
  <1>9. CASE j = i
    BY <1>1, <1>2, <1>6, <1>8, <1>9 DEF q
  <1>10. CASE j # i
    BY <1>1, <1>2, <1>7, <1>10 DEF q
  <1> QED
    BY <1>9, <1>10

\* A new password.
LEMMA PasswordTyped ==
    ASSUME TypeInv, NEW i \in Calls, CommitPassword(i)
    PROVE  TypeInv'
  <1>1. UNCHANGED <<active, failures>> /\ account' \in [Users -> Account]
    <2> DEFINE flag == call[i].op = "RESET"
               row == [mustChange |-> flag]
    <2>1. account' = [account EXCEPT ![call[i].target] = row] /\ UNCHANGED <<active, failures>>
      BY DEF CommitPassword
    <2>2. flag \in BOOLEAN
      OBVIOUS
    <2> HIDE DEF flag
    <2>3. row \in Account
      BY <2>2 DEF Account
    <2> HIDE DEF row
    <2> QED
      BY <2>1, <2>3 DEF TypeInv, TypeOK
  <1>2. session' \in [Tokens -> Session]
    <2>1. session' = [t \in Tokens |-> session'[t]]
      BY Zenon DEF CommitPassword
    <2> QED
      BY <2>1, PasswordRows
  <1>3. call' \in [Calls -> Call]
    <2>1. call' = [j \in Calls |-> call'[j]]
      BY Zenon DEF CommitPassword
    <2> QED
      BY <2>1, PasswordCalls
  <1>4. Rows' /\ \A t \in Tokens : session[t].status # "unused" => session'[t].status # "unused"
    <2>1. \A t \in Tokens :
             /\ session'[t].user = session[t].user /\ session'[t].company = session[t].company
             /\ session'[t].issued = session[t].issued
             /\ session'[t].status = "unused" <=> session[t].status = "unused"
      BY PasswordRows DEF Live
    <2> QED
      BY <2>1 DEF TypeInv, Rows
  <1>5. \A t \in Tokens : session'[t].status = "live" =>
           session'[t].user # None /\ session'[t].company # None
    BY <1>4, NoneAssumption DEF Rows
  <1>6. TypeOK'
    BY <1>1, <1>2, <1>3, <1>5 DEF TypeInv, TypeOK, Live
  <1>7. ASSUME NEW j \in Calls
        PROVE  Stage(call'[j]) /\ (NamesRow(call'[j]) => session'[call'[j].token].status # "unused")
    <2>1. Stage(call[j]) /\ (NamesRow(call[j]) => session[call[j].token].status # "unused")
      BY DEF TypeInv, Stages
    <2>2. CASE j = i
      <3>1. CASE call[i].op = "CHANGE"
        BY <2>1, <2>2, <3>1, PasswordCalls DEF Stage, NamesRow
      <3>2. CASE call[i].op # "CHANGE"
        <4>1. call'[j] = Idle
          BY <2>2, <3>2 DEF CommitPassword
        <4> QED
          BY <4>1, IdleTyped
      <3> QED
        BY <3>1, <3>2
    <2>3. CASE j # i
      <3> DEFINE q == call[j]
                 r == call'[j]
      <3>1. /\ r.pc = q.pc /\ r.op = q.op /\ r.user = q.user /\ r.company = q.company
            /\ r.token = q.token /\ r.holdsUser = q.holdsUser
        BY <2>3, PasswordCalls
      <3>2. Stage(r) /\ (NamesRow(r) <=> NamesRow(q))
        BY <2>1, <3>1 DEF Stage, NamesRow
      <3>3. NamesRow(q) => q.token \in Tokens
        BY <2>1 DEF Stage
      <3> QED
        BY <1>4, <2>1, <3>1, <3>2, <3>3
    <2> QED
      BY <2>2, <2>3
  <1>8. Stages'
    BY <1>7 DEF Stages
  <1> QED
    BY <1>4, <1>6, <1>8 DEF TypeInv

\* Time.
LEMMA TickTyped == TypeInv /\ Tick => TypeInv'
  <1> SUFFICES ASSUME TypeInv, Tick PROVE TypeInv'
    OBVIOUS
  <1>1. ASSUME NEW l \in Limits
        PROVE  failures'[l] \in Counter
    <2>1. failures[l] \in Counter
      BY DEF TypeInv, TypeOK
    <2>2. failures'[l] = IF failures[l].count = 0 \/ failures[l].age = Window THEN failures[l]
                         ELSE [failures[l] EXCEPT !.age = @ + 1]
      BY DEF Tick
    <2> QED
      BY <2>1, <2>2, TimeAssumption DEF Counter
  <1>2. failures' \in [Limits -> Counter]
    BY <1>1 DEF Tick
  <1>3. ASSUME NEW t \in Tokens
        PROVE  /\ session'[t] \in Session /\ session'[t].status = session[t].status
               /\ session'[t].user = session[t].user /\ session'[t].company = session[t].company
               /\ session'[t].issued = session[t].issued
    <2>1. session[t] \in Session
      BY DEF TypeInv, TypeOK
    <2>2. session'[t] = IF Live(t) /\ session[t].life > 0
                        THEN [session[t] EXCEPT !.life = @ - 1] ELSE session[t]
      BY DEF Tick
    <2> QED
      BY <2>1, <2>2, TimeAssumption DEF Session
  <1>4. session' \in [Tokens -> Session]
    BY <1>3 DEF Tick
  <1>5. UNCHANGED <<account, active, call>>
    BY DEF Tick
  <1>6. TypeOK' /\ Rows'
    BY <1>2, <1>3, <1>4, <1>5 DEF TypeInv, TypeOK, Rows, Live
  <1>7. Stages'
    <2>1. \A i \in Calls : NamesRow(call[i]) => call[i].token \in Tokens
      BY DEF TypeInv, Stages, Stage
    <2> QED
      BY <1>3, <1>5, <2>1 DEF TypeInv, Stages
  <1> QED
    BY <1>6, <1>7 DEF TypeInv

\* Every step keeps the types.
LEMMA StepTyped == TypeInv /\ [Next]_vars => TypeInv'
  <1> SUFFICES ASSUME TypeInv, [Next]_vars PROVE TypeInv'
    OBVIOUS
  <1>1. ASSUME NEW i \in Calls, LoginStep(i)
        PROVE  TypeInv'
    <2>1. CASE Discard(i)
      <3>1. /\ Delete({call[i].token}) /\ Done(i) /\ UNCHANGED <<account, active, failures>>
        BY <2>1 DEF Discard
      <3>2. active' \in [Users -> [Companies -> BOOLEAN]]
        BY <3>1 DEF TypeInv, TypeOK
      <3> QED
        BY <3>1, <3>2, DeleteDoneTyped
    <2> QED
      BY <1>1, <2>1, LoginTyped, FailureTyped, InsertTyped, ClearTyped, Zenon DEF LoginStep
  <1>2. ASSUME NEW i \in Calls, RequestStep(i)
        PROVE  TypeInv'
    BY <1>2, RequestTyped, SessionTyped, PasswordTyped, MembershipTyped, Zenon DEF RequestStep
  <1>3. CASE UNCHANGED vars
    BY <1>3 DEF vars, TypeInv, TypeOK, Rows, Stages, Live
  <1> QED
    BY <1>1, <1>2, <1>3, TickTyped, ArriveTyped DEF Next, Step

\* Every variable keeps its type; a row that was ever inserted names its user and
\* company, a token in a client's hands has had a row, and each call has
\* established what its stage rests on.
THEOREM AccessTyped == Spec => []TypeInv
  BY InitTyped, StepTyped, PTL DEF Spec

\* The type invariant that the run checks.
THEOREM TypeCorrect == Spec => []TypeOK
  <1>1. TypeInv => TypeOK
    BY DEF TypeInv
  <1> QED
    BY <1>1, AccessTyped, PTL

-----------------------------------------------------------------------------
(* A session that is gone stays gone                                       *)

\* Deleting leaves a row as it is or deletes it.
LEMMA DeleteRow ==
    ASSUME TypeInv, NEW tokens, Delete(tokens), NEW t \in Tokens
    PROVE  session'[t] = session[t] \/ session'[t].status = "deleted"
  <1>1. session[t] \in Session
    BY DEF TypeInv, TypeOK
  <1>2. session'[t] = IF t \in tokens /\ Live(t) THEN Deleted(session[t]) ELSE session[t]
    BY DEF Delete
  <1> QED
    BY <1>1, <1>2, DeletedRow

\* What the guard of login looks at in a row.
Alike(s, r) ==
    /\ r.status = s.status /\ r.user = s.user
    /\ r.replaced = s.replaced /\ r.gap = s.gap

\* Whatever a step does to a row other than to insert it, to replace its password
\* or to hand out its token, it deletes it or leaves it alike.
LEMMA RowKept ==
    ASSUME TypeInv, [Next]_vars, NEW t \in Tokens
    PROVE  \/ \E i \in Calls : InsertSession(i) /\ session[t].status = "unused"
           \/ \E i \in Calls : CommitPassword(i)
           \/ \E i \in Calls : Clear(i) /\ call[i].op = "LOGIN" /\ call[i].token = t
                              /\ Alike(session[t], session'[t])
           \/ session'[t].status = "deleted"
           \/ Alike(session[t], session'[t]) /\ session'[t].issued = session[t].issued
  <1> DEFINE Goal == \/ \E i \in Calls : InsertSession(i) /\ session[t].status = "unused"
                     \/ \E i \in Calls : CommitPassword(i)
                     \/ \E i \in Calls : Clear(i) /\ call[i].op = "LOGIN" /\ call[i].token = t
                                        /\ Alike(session[t], session'[t])
                     \/ session'[t].status = "deleted"
                     \/ Alike(session[t], session'[t]) /\ session'[t].issued = session[t].issued
  <1>0. session[t] \in Session
    BY DEF TypeInv, TypeOK
  <1>1. CASE session' = session
    BY <1>1 DEF Alike
  <1>2. ASSUME NEW tokens, Delete(tokens)
        PROVE  Goal
    <2>1. session'[t] = session[t] \/ session'[t].status = "deleted"
      BY <1>2, DeleteRow
    <2> QED
      BY <2>1 DEF Alike
  <1>3. ASSUME NEW i \in Calls, InsertSession(i)
        PROVE  Goal
    <2>1. session'[t] = session[t] \/ session[t].status = "unused"
      BY <1>3 DEF InsertSession, TypeInv, TypeOK
    <2> QED
      BY <1>3, <2>1 DEF Alike
  <1>4. ASSUME NEW i \in Calls, Clear(i)
        PROVE  Goal
    <2> DEFINE given == TRUE
               row == [session[t] EXCEPT !.issued = given]
    <2>1. \/ session' = session
          \/ call[i].op = "LOGIN" /\ session' = [session EXCEPT ![call[i].token].issued = given]
      BY <1>4 DEF Clear
    <2>2. given \in BOOLEAN
      OBVIOUS
    <2> HIDE DEF given
    <2>3. Alike(session[t], row)
      BY <1>0, <2>2 DEF Alike, Session
    <2>4. CASE call[i].op = "LOGIN" /\ session' = [session EXCEPT ![call[i].token].issued = given]
      <3>1. session'[t] = IF call[i].token = t THEN row ELSE session[t]
        BY <2>4 DEF TypeInv, TypeOK
      <3> QED
        BY <1>4, <2>3, <2>4, <3>1 DEF Alike
    <2> QED
      BY <1>1, <2>1, <2>4
  <1>5. ASSUME NEW i \in Calls, Renew(i)
        PROVE  Goal
    <2>1. session'[t] = session[t] \/ session'[t] = [session[t] EXCEPT !.life = SessionLife]
      BY <1>5 DEF Renew, TypeInv, TypeOK
    <2> QED
      BY <1>0, <2>1 DEF Alike, Session
  <1>6. CASE Tick
    <2>1. session'[t] = session[t] \/ session'[t] = [session[t] EXCEPT !.life = @ - 1]
      BY <1>6 DEF Tick
    <2> QED
      BY <1>0, <2>1 DEF Alike, Session
  <1>7. ASSUME NEW i \in Calls, LoginStep(i)
        PROVE  Goal
    <2>1. CASE Discard(i)
      BY <1>2, <2>1 DEF Discard
    <2>2. CASE CheckLimit(i) \/ Verify(i) \/ RecordFailure(i) \/ ChooseCompany(i) \/ Reread(i)
      <3>1. session' = session
        BY <2>2, Zenon DEF CheckLimit, Verify, RecordFailure, ChooseCompany, Reread
      <3> QED
        BY <1>1, <3>1
    <2> QED
      BY <1>3, <1>4, <1>7, <2>1, <2>2, Zenon DEF LoginStep
  <1>8. ASSUME NEW i \in Calls, RequestStep(i)
        PROVE  Goal
    <2>1. CASE Validate(i)
      <3>1. Delete({call[i].token}) \/ session' = session
        BY <2>1 DEF Validate
      <3> QED
        BY <1>1, <1>2, <3>1
    <2>2. CASE CommitMembership(i)
      BY <1>2, <2>2 DEF CommitMembership
    <2>3. CASE Context(i) \/ LockForChange(i) \/ LockMembership(i) \/ ReadMembership(i)
               \/ WriteRow(i) \/ Revoke(i)
      <3>1. session' = session
        BY <2>3, Zenon DEF Context, LockForChange, LockMembership, ReadMembership, WriteRow, Revoke
      <3> QED
        BY <1>1, <3>1
    <2>4. CASE CommitPassword(i)
      BY <2>4
    <2> QED
      BY <1>5, <1>8, <2>1, <2>2, <2>3, <2>4, Zenon DEF RequestStep
  <1>9. ASSUME NEW i \in Calls, ArriveCall(i)
        PROVE  session' = session
    BY <1>9, Zenon DEF ArriveCall, ArriveLogin, ArriveLogout, ArriveUse, ArriveChange, ArriveAccountOp
  <1>10. CASE UNCHANGED vars
    BY <1>1, <1>10 DEF vars
  <1> QED
    BY <1>1, <1>6, <1>7, <1>8, <1>9, <1>10 DEF Next, Step

\* No step brings a deleted session back.
LEMMA StepKeepsDeleted ==
    ASSUME TypeInv, [Next]_vars, NEW t \in Tokens, session[t].status = "deleted"
    PROVE  session'[t].status = "deleted"
  <1>1. ASSUME NEW i \in Calls, CommitPassword(i)
        PROVE  session'[t].status = "deleted"
    BY <1>1, PasswordRows
  <1> QED
    BY <1>1, RowKept DEF Alike

\* A session that was logged out, revoked or expired never works again: neither a
\* renewal nor a password change nor a late login brings its row back
\* (lib/auth/session.ts, auth/service.ts).
THEOREM GoneForGood == Spec => DeletedStaysDeleted
  <1>1. TypeInv /\ [Next]_vars =>
           [\A t \in Tokens : session[t].status = "deleted" => session'[t].status = "deleted"]_vars
    <2>1. ASSUME TypeInv, [Next]_vars
          PROVE  \A t \in Tokens : session[t].status = "deleted" => session'[t].status = "deleted"
      BY <2>1, StepKeepsDeleted
    <2> QED
      BY <2>1
  <1> QED
    BY <1>1, AccessTyped, PTL DEF Spec, DeletedStaysDeleted

-----------------------------------------------------------------------------
(* What a step does to the calls                                           *)

\* The call that moves, and the others.
LEMMA Moved ==
    ASSUME TypeInv, NEW i \in Calls, NEW q, Become(i, q)
    PROVE  call'[i] = q /\ \A j \in Calls \ {i} : call'[j] = call[j]
  BY DEF Become, TypeInv, TypeOK

\* A call arrives at the check of a counter, at its token or at the end of it.
LEMMA ArriveMoves ==
    ASSUME TypeInv, NEW i \in Calls, ArriveCall(i)
    PROVE  /\ \A j \in Calls \ {i} : call'[j] = call[j]
           /\ Plain(call'[i]) /\ ~Trying(call'[i])
           /\ UNCHANGED <<session, failures>>
  <1>1. UNCHANGED <<session, failures>>
    BY Zenon DEF ArriveCall, ArriveLogin, ArriveLogout, ArriveUse, ArriveChange, ArriveAccountOp
  <1>2. PICK q : Become(i, q) /\ q.pc \in {"limit", "discard", "validate"}
    <2> DEFINE new == \E q : Become(i, q) /\ q.pc \in {"limit", "discard", "validate"}
    <2>1. ASSUME NEW u, NEW c, NEW knows, ArriveLogin(i, u, c, knows)
          PROVE  new
      <3> DEFINE q == [Idle EXCEPT !.pc = "limit", !.op = "LOGIN", !.user = u, !.company = c,
                                   !.knows = knows, !.pending = LoginRules(u)]
      <3>1. Become(i, q)
        BY <2>1 DEF ArriveLogin, Arrive
      <3>2. q.pc = "limit"
        BY DEF Idle
      <3> HIDE DEF q
      <3> QED
        BY <3>1, <3>2
    <2>2. ASSUME NEW t, ArriveLogout(i, t)
          PROVE  new
      <3> DEFINE q == [Idle EXCEPT !.pc = "discard", !.op = "LOGOUT", !.token = t]
      <3>1. Become(i, q)
        BY <2>2 DEF ArriveLogout, Arrive
      <3>2. q.pc = "discard"
        BY DEF Idle
      <3> HIDE DEF q
      <3> QED
        BY <3>1, <3>2
    <2>3. ASSUME NEW op, NEW t
          PROVE  Request(op, t).pc = "validate"
      BY DEF Request, Idle
    <2>4. ASSUME NEW t, ArriveUse(i, t)
          PROVE  new
      <3>1. Become(i, Request("USE", t))
        BY <2>4 DEF ArriveUse, Arrive
      <3> QED
        BY <2>3, <3>1
    <2>5. ASSUME NEW t, NEW knows, ArriveChange(i, t, knows)
          PROVE  new
      <3> DEFINE q == [Request("CHANGE", t) EXCEPT !.target = session[t].user, !.knows = knows]
      <3>1. Become(i, q)
        BY <2>5 DEF ArriveChange, Arrive
      <3>2. q.pc = "validate"
        BY DEF Request, Idle
      <3> HIDE DEF q
      <3> QED
        BY <3>1, <3>2
    <2>6. ASSUME NEW op, NEW t, NEW u, ArriveAccountOp(i, op, t, u)
          PROVE  new
      <3> DEFINE q == [Request(op, t) EXCEPT !.target = u]
      <3>1. Become(i, q)
        BY <2>6 DEF ArriveAccountOp, Arrive
      <3>2. q.pc = "validate"
        BY DEF Request, Idle
      <3> HIDE DEF q
      <3> QED
        BY <3>1, <3>2
    <2> HIDE DEF new
    <2>7. new
      BY <2>1, <2>2, <2>4, <2>5, <2>6, Zenon DEF ArriveCall
    <2> QED
      BY <2>7 DEF new
  <1> QED
    BY <1>1, <1>2, Moved DEF Plain, Trying

\* The steps of a call that change neither session nor counter.
LEMMA QuietMoves ==
    ASSUME TypeInv, NEW i \in Calls,
           \/ CheckLimit(i) \/ Verify(i) \/ ChooseCompany(i) \/ Reread(i) \/ Context(i)
           \/ LockForChange(i) \/ LockMembership(i) \/ ReadMembership(i)
           \/ WriteRow(i) \/ Revoke(i)
    PROVE  /\ \A j \in Calls \ {i} : call'[j] = call[j]
           /\ Plain(call'[i]) \/ Reread(i) \/ Revoke(i)
           /\ \/ ~Trying(call'[i])
              \/ CheckLimit(i)
              \/ Trying(call[i]) /\ call'[i].pending = call[i].pending
           /\ UNCHANGED <<session, failures>>
  <1> DEFINE q == call[i]
             Goal == /\ \A j \in Calls \ {i} : call'[j] = call[j]
                     /\ Plain(call'[i]) \/ Reread(i) \/ Revoke(i)
                     /\ \/ ~Trying(call'[i])
                        \/ CheckLimit(i)
                        \/ Trying(call[i]) /\ call'[i].pending = call[i].pending
  <1>1. q \in Call /\ Stage(q)
    BY DEF TypeInv, TypeOK, Stages
  <1>2. UNCHANGED <<session, failures>>
    BY Zenon DEF CheckLimit, Verify, ChooseCompany, Reread, Context, LockForChange,
                 LockMembership, ReadMembership, WriteRow, Revoke
  <1>3. CASE Done(i)
    <2>1. Plain(Idle) /\ ~Trying(Idle)
      BY DEF Idle, Plain, Trying
    <2> QED
      BY <1>2, <1>3, <2>1, Moved DEF Done
  <1>4. ASSUME NEW r, Become(i, r), Plain(r) \/ Reread(i) \/ Revoke(i),
               ~Trying(r) \/ CheckLimit(i) \/ (Trying(q) /\ r.pending = q.pending)
        PROVE  Goal
    BY <1>4, Moved
  <1>5. CASE CheckLimit(i) /\ ~Done(i)
    <2> DEFINE seen == \E l \in q.pending : l[1] # "login-ip" /\ ActiveCount(l) > 0
               pc == IF q.op = "LOGIN" THEN "verify" ELSE "lock"
               t == [q EXCEPT !.pc = pc, !.dirty = seen]
    <2>1. Become(i, t)
      BY <1>5, Zenon DEF CheckLimit
    <2>2. pc \in {"verify", "lock"}
      OBVIOUS
    <2> HIDE DEF seen, pc
    <2>3. Plain(t)
      BY <1>1, <2>2 DEF Call, Plain
    <2> HIDE DEF t
    <2> QED
      BY <1>2, <1>4, <1>5, <2>1, <2>3
  <1>6. CASE Verify(i)
    <2> DEFINE pc == IF q.user \in Enabled /\ q.knows THEN "company" ELSE "fail"
               t == [q EXCEPT !.pc = pc]
    <2>1. q.pc = "verify" /\ Become(i, t) /\ pc \in {"company", "fail"}
      BY <1>6 DEF Verify, Goto
    <2> HIDE DEF pc
    <2>2. Plain(t) /\ Trying(q) /\ t.pending = q.pending
      BY <1>1, <2>1 DEF Call, Plain, Trying
    <2> HIDE DEF t
    <2> QED
      BY <1>2, <1>4, <2>1, <2>2
  <1>7. CASE ChooseCompany(i) /\ ~Done(i)
    <2>1. PICK c \in Companies : Become(i, [q EXCEPT !.pc = "insert", !.company = c])
      BY <1>7, Zenon DEF ChooseCompany
    <2> DEFINE t == [q EXCEPT !.pc = "insert", !.company = c]
    <2>2. Plain(t) /\ ~Trying(t)
      BY <1>1 DEF Call, Plain, Trying
    <2> HIDE DEF t
    <2> QED
      BY <1>2, <1>4, <2>1, <2>2 DEF t
  <1>8. CASE Reread(i)
    <2> DEFINE pc == IF q.user \in Enabled /\ q.knows THEN "clear" ELSE "discard"
               t == [q EXCEPT !.pc = pc]
    <2>1. Become(i, t) /\ pc \in {"clear", "discard"}
      BY <1>8 DEF Reread, Goto
    <2> HIDE DEF pc
    <2>2. ~Trying(t)
      BY <1>1, <2>1 DEF Call, Trying
    <2> HIDE DEF t
    <2> QED
      BY <1>2, <1>4, <1>8, <2>1, <2>2
  <1>9. CASE Context(i) /\ ~Done(i)
    <2>1. CASE q.op = "CHANGE"
      <3> DEFINE t == [q EXCEPT !.pc = "limit", !.pending = {ChangeLimit(q.user)}]
      <3>1. Become(i, t)
        BY <1>9, <2>1, Zenon DEF Context
      <3>2. Plain(t) /\ ~Trying(t)
        BY <1>1 DEF Call, Plain, Trying
      <3> HIDE DEF t
      <3> QED
        BY <1>2, <1>4, <3>1, <3>2
    <2>2. CASE q.op # "CHANGE"
      <3> DEFINE t == [q EXCEPT !.pc = "lock"]
      <3>1. Become(i, t)
        BY <1>9, <2>2, Zenon DEF Context, Goto
      <3>2. Plain(t) /\ ~Trying(t)
        BY <1>1, <2>2 DEF Call, Plain, Trying
      <3> HIDE DEF t
      <3> QED
        BY <1>2, <1>4, <3>1, <3>2
    <2> QED
      BY <2>1, <2>2
  <1>10. CASE LockForChange(i)
    <2>1. q.pc = "lock" /\ q.op = "CHANGE"
      BY <1>10, Zenon DEF LockForChange
    <2> DEFINE a == [q EXCEPT !.pc = "revoke", !.holdsUser = TRUE]
               b == [q EXCEPT !.pc = "fail"]
    <2>2. Become(i, a) \/ Become(i, b)
      BY <1>10, Zenon DEF LockForChange, Goto
    <2>3. Plain(a) /\ ~Trying(a) /\ Plain(b) /\ Trying(q) /\ b.pending = q.pending
      BY <1>1, <2>1 DEF Call, Plain, Trying
    <2> HIDE DEF a, b
    <2> QED
      BY <1>2, <1>4, <2>2, <2>3
  <1>11. CASE LockMembership(i) /\ ~Done(i)
    <2> DEFINE pc == CASE q.op = "RESET" -> "write" [] q.op = "DEACTIVATE" -> "revoke"
                       [] OTHER -> "commit"
               t == [q EXCEPT !.holdsMembership = TRUE, !.pc = pc]
    <2>1. q.pc = "lock" /\ q.op \in {"RESET", "ACTIVATE", "DEACTIVATE"} /\ Become(i, t)
      BY <1>11, Zenon DEF LockMembership
    <2>2. pc \in {"write", "revoke", "commit"} /\ (IF pc = "write" THEN q.op = "RESET" ELSE q.op \notin Replaces)
      BY <2>1 DEF Replaces
    <2> HIDE DEF pc
    <2>3. Plain(t) /\ ~Trying(t)
      BY <1>1, <2>2 DEF Call, Plain, Trying
    <2> HIDE DEF t
    <2> QED
      BY <1>2, <1>4, <2>1, <2>3
  <1>12. CASE ReadMembership(i) /\ ~Done(i)
    <2> DEFINE t == [q EXCEPT !.pc = "write"]
    <2>1. Become(i, t)
      BY <1>12, Zenon DEF ReadMembership, Goto
    <2>2. Plain(t) /\ ~Trying(t)
      BY <1>1 DEF Call, Plain, Trying
    <2> HIDE DEF t
    <2> QED
      BY <1>2, <1>4, <2>1, <2>2
  <1>13. CASE WriteRow(i)
    <2> DEFINE a == [q EXCEPT !.pc = "revoke", !.holdsUser = TRUE]
               b == [q EXCEPT !.pc = "revoke", !.holdsMembership = TRUE]
    <2>1. Become(i, a) \/ Become(i, b)
      BY <1>13, Zenon DEF WriteRow
    <2>2. Plain(a) /\ ~Trying(a) /\ Plain(b) /\ ~Trying(b)
      BY <1>1 DEF Call, Plain, Trying
    <2> HIDE DEF a, b
    <2> QED
      BY <1>2, <1>4, <2>1, <2>2
  <1>14. CASE Revoke(i)
    <2> DEFINE rows == IF q.op \in {"CHANGE", "RESET"} THEN SessionsOfUser(q.target)
                       ELSE SessionsInCompany(q.target, q.company)
               t == [q EXCEPT !.pc = "commit", !.doomed = rows]
    <2>1. Become(i, t)
      BY <1>14, Zenon DEF Revoke
    <2> HIDE DEF rows
    <2>2. ~Trying(t)
      BY <1>1 DEF Call, Trying
    <2> HIDE DEF t
    <2> QED
      BY <1>2, <1>4, <1>14, <2>1, <2>2
  <1> QED
    BY <1>2, <1>3, <1>5, <1>6, <1>7, <1>8, <1>9, <1>10, <1>11, <1>12, <1>13, <1>14

-----------------------------------------------------------------------------
(* The race guard of login                                                 *)

\* Nobody holds a session, and no transaction is about to commit, at the start.
LEMMA InitGuard == Init => GuardInv
  <1> SUFFICES ASSUME Init PROVE GuardInv
    OBVIOUS
  <1>1. \A i \in Calls : call[i] = Idle
    BY DEF Init
  <1>2. \A i \in Calls : Dooms(call[i]) /\ HandsOut(call[i])
    BY <1>1 DEF Dooms, HandsOut, Idle
  <1>3. ASSUME NEW t \in Tokens
        PROVE  ~session[t].replaced
    <2>1. CASE Signed[t] = None
      BY <2>1 DEF Init, NoSession
    <2>2. CASE Signed[t] # None
      <3>1. session[t] = [status |-> "live", user |-> Signed[t][1], company |-> Signed[t][2],
                          life |-> SessionLife, replaced |-> FALSE, gap |-> FALSE,
                          issued |-> TRUE]
        BY <2>2 DEF Init, NewSession
      <3> QED
        BY <3>1
    <2> QED
      BY <2>1, <2>2
  <1> QED
    BY <1>2, <1>3 DEF GuardInv, OnlyAnUncommittedResetIsMissed

\* A step that leaves the rows alike or deletes them, hands out no token, and
\* leaves the moving call at none of the stages the guard is about.
LEMMA GuardKept ==
    ASSUME TypeInv, GuardInv, NEW i \in Calls,
           \A t \in Tokens :
              \/ session'[t].status = "deleted"
              \/ Alike(session[t], session'[t]) /\ session'[t].issued = session[t].issued,
           \A j \in Calls \ {i} : call'[j] = call[j],
           Dooms(call[i])' /\ HandsOut(call[i])'
    PROVE  GuardInv'
  <1>1. OnlyAnUncommittedResetIsMissed'
    BY DEF GuardInv, OnlyAnUncommittedResetIsMissed, Live, Alike
  <1>2. ASSUME NEW j \in Calls
        PROVE  Dooms(call[j])' /\ HandsOut(call[j])'
    <2>1. CASE j = i
      BY <2>1
    <2>2. CASE j # i
      <3>1. call'[j] = call[j] /\ Dooms(call[j]) /\ HandsOut(call[j])
        BY <2>2 DEF GuardInv
      <3> DEFINE q == call[j]
      <3>2. Dooms(q)'
        BY <3>1 DEF Dooms, Live, Alike
      <3>3. HandsOut(q)'
        BY <3>1 DEF HandsOut, Live, Alike
      <3> QED
        BY <3>2, <3>3
    <2> QED
      BY <2>1, <2>2
  <1> QED
    BY <1>1, <1>2 DEF GuardInv

\* A call at none of the stages the guard is about.
LEMMA PlainGuard ==
    ASSUME NEW i \in Calls, Plain(call'[i])
    PROVE  Dooms(call[i])' /\ HandsOut(call[i])'
  BY DEF Plain, Dooms, HandsOut

\* The steps that touch no session.
LEMMA QuietGuard ==
    ASSUME TypeInv, TypeInv', GuardInv, NEW i \in Calls,
           \/ CheckLimit(i) \/ Verify(i) \/ ChooseCompany(i) \/ Reread(i) \/ Context(i)
           \/ LockForChange(i) \/ LockMembership(i) \/ ReadMembership(i)
           \/ WriteRow(i) \/ Revoke(i)
    PROVE  GuardInv'
  <1>1. /\ \A j \in Calls \ {i} : call'[j] = call[j]
        /\ Plain(call'[i]) \/ Reread(i) \/ Revoke(i)
        /\ session' = session
    BY QuietMoves
  <1>2. \A t \in Tokens : Alike(session[t], session'[t]) /\ session'[t].issued = session[t].issued
    BY <1>1 DEF Alike
  <1> DEFINE q == call[i]
  <1>3. q \in Call /\ Dooms(q) /\ HandsOut(q)
    BY DEF TypeInv, TypeOK, GuardInv
  <1>4. ASSUME Reread(i)
        PROVE  Dooms(call[i])' /\ HandsOut(call[i])'
    <2> DEFINE pc == IF q.user \in Enabled /\ q.knows THEN "clear" ELSE "discard"
               r == [q EXCEPT !.pc = pc]
    <2>1. /\ q.pc = "reread" /\ call'[i] = r
          /\ pc \in {"clear", "discard"} /\ (pc = "clear" => q.knows)
      BY <1>4, Moved DEF Reread, Goto
    <2> HIDE DEF pc
    <2>2. r.pc = pc /\ r.token = q.token
      BY <1>3 DEF Call
    <2>3. pc = "clear" =>
             ~(q.token \in Tokens /\ Live(q.token) /\ ~session[q.token].gap /\ session[q.token].replaced)
      BY <1>3, <2>1 DEF HandsOut
    <2>4. HandsOut(call[i])'
      BY <1>1, <2>1, <2>2, <2>3 DEF HandsOut, Live
    <2>5. Dooms(call[i])'
      BY <2>1, <2>2 DEF Dooms
    <2> QED
      BY <2>4, <2>5
  <1>5. ASSUME Revoke(i)
        PROVE  Dooms(call[i])' /\ HandsOut(call[i])'
    <2> DEFINE rows == IF q.op \in {"CHANGE", "RESET"} THEN SessionsOfUser(q.target)
                       ELSE SessionsInCompany(q.target, q.company)
               r == [q EXCEPT !.pc = "commit", !.doomed = rows]
    <2>1. call'[i] = r
      BY <1>5, Moved DEF Revoke
    <2>2. q.op \in Replaces => rows = SessionsOfUser(q.target)
      BY DEF Replaces
    <2> HIDE DEF rows
    <2>3. r.pc = "commit" /\ r.op = q.op /\ r.target = q.target /\ r.doomed = rows
      BY <1>3 DEF Call
    <2>4. Dooms(call[i])'
      BY <1>1, <2>1, <2>2, <2>3 DEF Dooms, Live, SessionsOfUser
    <2>5. HandsOut(call[i])'
      BY <2>1, <2>3 DEF HandsOut
    <2> QED
      BY <2>4, <2>5
  <1>6. Dooms(call[i])' /\ HandsOut(call[i])'
    BY <1>1, <1>4, <1>5, PlainGuard
  <1> QED
    BY <1>1, <1>2, <1>6, GuardKept

\* The end of a call whose rows are alike or gone.
LEMMA DoneGuard ==
    ASSUME TypeInv, GuardInv, NEW i \in Calls, Done(i),
           \A t \in Tokens :
              \/ session'[t].status = "deleted"
              \/ Alike(session[t], session'[t]) /\ session'[t].issued = session[t].issued
    PROVE  GuardInv'
  <1>1. call'[i] = Idle /\ \A j \in Calls \ {i} : call'[j] = call[j]
    BY Moved DEF Done
  <1>2. Plain(call'[i])
    BY <1>1 DEF Idle, Plain
  <1> QED
    BY <1>1, <1>2, PlainGuard, GuardKept

\* Deleting what a session needs no more.
LEMMA DeleteGuard ==
    ASSUME TypeInv, GuardInv, NEW i \in Calls, Discard(i) \/ CommitMembership(i)
    PROVE  GuardInv'
  <1>1. PICK tokens : Delete(tokens)
    BY DEF Discard, CommitMembership
  <1>2. \A t \in Tokens : session'[t] = session[t] \/ session'[t].status = "deleted"
    BY <1>1, DeleteRow
  <1>3. Done(i)
    BY DEF Discard, CommitMembership
  <1> QED
    BY <1>2, <1>3, DoneGuard DEF Alike

\* Handing out a token: the login has found its password current after its row was
\* inserted, so a replacement in between has deleted the row or marked it.
LEMMA ClearGuard ==
    ASSUME TypeInv, GuardInv, NEW i \in Calls, Clear(i)
    PROVE  GuardInv'
  <1> DEFINE q == call[i]
             given == TRUE
  <1>1. /\ q.pc = "clear" /\ Done(i)
        /\ IF q.op = "LOGIN" THEN session' = [session EXCEPT ![q.token].issued = given]
           ELSE session' = session
    BY DEF Clear
  <1>2. CASE q.op # "LOGIN"
    <2>1. \A t \in Tokens : Alike(session[t], session'[t]) /\ session'[t].issued = session[t].issued
      BY <1>1, <1>2 DEF Alike
    <2> QED
      BY <1>1, <2>1, DoneGuard
  <1>3. CASE q.op = "LOGIN"
    <2>1. HandsOut(q) /\ OnlyAnUncommittedResetIsMissed /\ \A j \in Calls : Dooms(call[j]) /\ HandsOut(call[j])
      BY DEF GuardInv
    <2>2. given \in BOOLEAN
      OBVIOUS
    <2> HIDE DEF given
    <2>3. ASSUME NEW t \in Tokens
          PROVE  /\ Alike(session[t], session'[t])
                 /\ t # q.token => session'[t].issued = session[t].issued
      <3>1. session[t] \in Session
        BY DEF TypeInv, TypeOK
      <3>2. session'[t] = IF t = q.token THEN [session[t] EXCEPT !.issued = given] ELSE session[t]
        BY <1>1, <1>3 DEF TypeInv, TypeOK
      <3> QED
        BY <2>2, <3>1, <3>2 DEF Alike, Session
    <2>4. OnlyAnUncommittedResetIsMissed'
      <3>1. ASSUME NEW t \in Tokens, session'[t].status = "live", session'[t].issued,
                   ~session'[t].gap, session'[t].replaced
            PROVE  FALSE
        <4>1. Live(t) /\ ~session[t].gap /\ session[t].replaced
          BY <2>3, <3>1 DEF Alike, Live
        <4>2. CASE t = q.token
          BY <1>1, <1>3, <2>1, <4>1, <4>2 DEF HandsOut
        <4>3. CASE t # q.token
          BY <2>1, <2>3, <3>1, <4>1, <4>3 DEF OnlyAnUncommittedResetIsMissed
        <4> QED
          BY <4>2, <4>3
      <3> QED
        BY <3>1 DEF OnlyAnUncommittedResetIsMissed, Live
    <2>5. call'[i] = Idle /\ \A j \in Calls \ {i} : call'[j] = call[j]
      BY <1>1, Moved DEF Done
    <2>6. ASSUME NEW j \in Calls
          PROVE  Dooms(call[j])' /\ HandsOut(call[j])'
      <3>1. CASE j = i
        BY <2>5, <3>1 DEF Dooms, HandsOut, Idle
      <3>2. CASE j # i
        <4>1. call'[j] = call[j] /\ Dooms(call[j]) /\ HandsOut(call[j])
          BY <2>1, <2>5, <3>2
        <4>2. Dooms(call[j])'
          BY <2>3, <4>1 DEF Dooms, Live, Alike
        <4>3. HandsOut(call[j])'
          BY <2>3, <4>1 DEF HandsOut, Live, Alike
        <4> QED
          BY <4>2, <4>3
      <3> QED
        BY <3>1, <3>2
    <2> QED
      BY <2>4, <2>6 DEF GuardInv
  <1> QED
    BY <1>2, <1>3

\* A request's look at its session, and the renewal.
LEMMA SessionGuard ==
    ASSUME TypeInv, GuardInv, NEW i \in Calls, Validate(i) \/ Renew(i)
    PROVE  GuardInv'
  <1> DEFINE q == call[i]
  <1>1. q \in Call
    BY DEF TypeInv, TypeOK
  <1>2. ASSUME NEW t \in Tokens
        PROVE  \/ session'[t].status = "deleted"
               \/ Alike(session[t], session'[t]) /\ session'[t].issued = session[t].issued
    <2>1. session[t] \in Session
      BY DEF TypeInv, TypeOK
    <2>2. CASE session' = session
      BY <2>2 DEF Alike
    <2>3. CASE Validate(i) /\ Delete({q.token})
      BY <2>3, DeleteRow DEF Alike
    <2>4. CASE Renew(i) /\ session' = [session EXCEPT ![q.token].life = SessionLife]
      <3>1. session'[t] = session[t] \/ session'[t] = [session[t] EXCEPT !.life = SessionLife]
        BY <2>4 DEF TypeInv, TypeOK
      <3> QED
        BY <2>1, <3>1 DEF Alike, Session
    <2> QED
      BY <2>2, <2>3, <2>4, Zenon DEF Validate, Renew
  <1>3. Done(i) \/ \E pc \in {"renew", "context"} : Become(i, [q EXCEPT !.pc = pc])
    <2>1. CASE Validate(i)
      BY <2>1 DEF Validate, Goto
    <2>2. CASE Renew(i)
      BY <2>2 DEF Renew, Goto
    <2> QED
      BY <2>1, <2>2
  <1>4. CASE Done(i)
    BY <1>2, <1>4, DoneGuard
  <1>5. ASSUME NEW pc \in {"renew", "context"}, Become(i, [q EXCEPT !.pc = pc])
        PROVE  GuardInv'
    <2> DEFINE r == [q EXCEPT !.pc = pc]
    <2>1. call'[i] = r /\ \A j \in Calls \ {i} : call'[j] = call[j]
      BY <1>5, Moved
    <2>2. Plain(r)
      BY <1>1 DEF Call, Plain
    <2> HIDE DEF r
    <2> QED
      BY <1>2, <2>1, <2>2, PlainGuard, GuardKept
  <1> QED
    BY <1>3, <1>4, <1>5

\* Counting a failure touches no session.
LEMMA FailureGuard ==
    ASSUME TypeInv, GuardInv, NEW i \in Calls, RecordFailure(i)
    PROVE  GuardInv'
  <1> DEFINE q == call[i]
  <1>1. PICK l \in q.pending : Done(i) \/ Become(i, [q EXCEPT !.pending = @ \ {l}])
    BY Zenon DEF RecordFailure
  <1> DEFINE r == [q EXCEPT !.pending = @ \ {l}]
  <1>2. q \in Call /\ q.pc = "fail" /\ session' = session
    BY DEF TypeInv, TypeOK, RecordFailure
  <1>3. \A t \in Tokens : Alike(session[t], session'[t]) /\ session'[t].issued = session[t].issued
    BY <1>2 DEF Alike
  <1>4. Plain(r)
    BY <1>2 DEF Call, Plain
  <1>5. CASE Done(i)
    BY <1>3, <1>5, DoneGuard
  <1>6. CASE Become(i, r)
    <2>1. call'[i] = r /\ \A j \in Calls \ {i} : call'[j] = call[j]
      BY <1>6, Moved
    <2> HIDE DEF r
    <2> QED
      BY <1>3, <1>4, <2>1, PlainGuard, GuardKept
  <1> QED
    BY <1>1, <1>5, <1>6

\* Inserting a session: a transaction of the user that has run its DELETE misses
\* the row, which is marked for it.
LEMMA InsertGuard ==
    ASSUME TypeInv, GuardInv, NEW i \in Calls, InsertSession(i)
    PROVE  GuardInv'
  <1> DEFINE q == call[i]
             old == ~q.knows
             gap == BeingReplaced(q.user)
             row == NewSession(q.user, q.company, old, gap)
  <1>1. q \in Call /\ Stage(q) /\ q.pc = "insert"
    BY DEF TypeInv, TypeOK, Stages, InsertSession
  <1>2. PICK t \in Tokens :
           /\ session[t].status = "unused"
           /\ session' = [session EXCEPT ![t] = row]
           /\ Become(i, [q EXCEPT !.pc = "reread", !.token = t])
    BY Zenon DEF InsertSession
  <1> DEFINE r == [q EXCEPT !.pc = "reread", !.token = t]
  <1>3. q.user \in Users /\ q.company \in Companies
    BY <1>1 DEF Stage
  <1>4. old \in BOOLEAN /\ gap \in BOOLEAN
    BY DEF BeingReplaced
  <1> HIDE DEF old, gap
  <1>5. /\ row.status = "live" /\ row.user = q.user /\ row.replaced = old
        /\ row.gap = gap /\ ~row.issued
    BY <1>3, <1>4, NewRow
  <1> HIDE DEF row
  <1>6. \A s \in Tokens : session'[s] = IF s = t THEN row ELSE session[s]
    BY <1>2 DEF TypeInv, TypeOK
  <1>7. call'[i] = r /\ \A j \in Calls \ {i} : call'[j] = call[j]
    BY <1>2, Moved
  <1>8. r.pc = "reread" /\ r.token = t /\ r.knows = q.knows
    BY <1>1 DEF Call
  <1>9. OnlyAnUncommittedResetIsMissed'
    BY <1>5, <1>6 DEF GuardInv, OnlyAnUncommittedResetIsMissed, Live
  <1>10. Dooms(call[i])' /\ HandsOut(call[i])'
    <2>1. row.replaced => ~q.knows
      BY <1>5 DEF old
    <2> HIDE DEF r
    <2> QED
      BY <1>6, <1>7, <1>8, <2>1 DEF Dooms, HandsOut, Live
  <1>11. ASSUME NEW j \in Calls, j # i
         PROVE  Dooms(call[j])' /\ HandsOut(call[j])'
    <2> DEFINE p == call[j]
    <2>1. /\ call'[j] = p /\ Dooms(p) /\ HandsOut(p) /\ Stage(p)
          /\ NamesRow(p) => session[p.token].status # "unused"
      BY <1>7, <1>11 DEF GuardInv, TypeInv, Stages
    <2>2. p.pc = "commit" /\ p.op \in Replaces /\ p.target = q.user => gap
      BY <2>1 DEF gap, BeingReplaced, Stage
    <2>3. Dooms(call[j])'
      <3>1. ASSUME NEW s \in Tokens, p.pc = "commit", p.op \in Replaces,
                   session'[s].status = "live", session'[s].user = p.target, ~session'[s].gap
            PROVE  s \in p.doomed
        <4>1. CASE s = t
          BY <1>5, <1>6, <2>2, <3>1, <4>1
        <4>2. CASE s # t
          BY <1>6, <2>1, <3>1, <4>2 DEF Dooms, Live
        <4> QED
          BY <4>1, <4>2
      <3> QED
        BY <2>1, <3>1 DEF Dooms, Live
    <2>4. HandsOut(call[j])'
      <3>1. CASE NamesRow(p)
        <4>1. p.token # t
          BY <1>2, <2>1, <3>1
        <4> QED
          BY <1>6, <2>1, <4>1 DEF HandsOut, Live
      <3>2. CASE ~NamesRow(p)
        BY <2>1, <3>2 DEF HandsOut, NamesRow
      <3> QED
        BY <3>1, <3>2
    <2> QED
      BY <2>3, <2>4
  <1> QED
    BY <1>9, <1>10, <1>11 DEF GuardInv

\* A new password: what the transaction did not delete is marked, so a session
\* obtained with the old one is gone or marked, and a login still under way no
\* longer knows the current password.
LEMMA PasswordGuard ==
    ASSUME TypeInv, GuardInv, NEW i \in Calls, CommitPassword(i)
    PROVE  GuardInv'
  <1> DEFINE q == call[i]
  <1>1. q.pc = "commit" /\ q.op \in Replaces /\ Dooms(q)
    BY DEF CommitPassword, GuardInv, Replaces
  <1>2. ASSUME NEW t \in Tokens, session'[t].status = "live", ~session'[t].gap
        PROVE  /\ Live(t) /\ session[t].user = session'[t].user
               /\ ~session[t].gap /\ session'[t].replaced = session[t].replaced
               /\ session'[t].issued = session[t].issued
    <2>1. Live(t) /\ t \notin q.doomed
      BY <1>2, PasswordRows DEF Live
    <2>2. /\ session'[t].gap = session[t].gap /\ session'[t].user = session[t].user
          /\ session'[t].issued = session[t].issued
          /\ session'[t].replaced # session[t].replaced => session[t].user = q.target
      BY <2>1, PasswordRows
    <2>3. session[t].user # q.target
      BY <1>1, <1>2, <2>1, <2>2 DEF Dooms
    <2> QED
      BY <1>2, <2>1, <2>2, <2>3
  <1>3. OnlyAnUncommittedResetIsMissed'
    BY <1>2 DEF GuardInv, OnlyAnUncommittedResetIsMissed, Live
  <1>4. ASSUME NEW j \in Calls
        PROVE  Dooms(call[j])' /\ HandsOut(call[j])'
    <2>1. CASE j = i
      <3>1. call'[i].pc \in {"idle", "clear"} /\ call'[i].op # "LOGIN"
        BY PasswordCalls
      <3>2. Plain(call'[i])
        BY <3>1 DEF Plain
      <3> QED
        BY <2>1, <3>2, PlainGuard
    <2>2. CASE j # i
      <3> DEFINE p == call[j]
                 r == call'[j]
      <3>1. /\ r.pc = p.pc /\ r.op = p.op /\ r.token = p.token /\ r.target = p.target
            /\ r.doomed = p.doomed /\ (r.knows => p.knows)
        BY <2>2, PasswordCalls
      <3>2. Dooms(p) /\ HandsOut(p)
        BY DEF GuardInv
      <3>3. Dooms(call[j])'
        BY <1>2, <3>1, <3>2 DEF Dooms, Live
      <3>4. HandsOut(call[j])'
        BY <1>2, <3>1, <3>2 DEF HandsOut, Live
      <3> QED
        BY <3>3, <3>4
    <2> QED
      BY <2>1, <2>2
  <1> QED
    BY <1>3, <1>4 DEF GuardInv

\* Time, and a step that does nothing.
LEMMA TickGuard ==
    ASSUME TypeInv, GuardInv, Tick \/ UNCHANGED vars
    PROVE  GuardInv'
  <1>1. \A t \in Tokens : Alike(session[t], session'[t]) /\ session'[t].issued = session[t].issued
    <2>1. ASSUME NEW t \in Tokens
          PROVE  Alike(session[t], session'[t]) /\ session'[t].issued = session[t].issued
      <3>1. session[t] \in Session
        BY DEF TypeInv, TypeOK
      <3>2. session'[t] = session[t] \/ session'[t] = [session[t] EXCEPT !.life = @ - 1]
        BY DEF Tick, vars
      <3> QED
        BY <3>1, <3>2 DEF Alike, Session
    <2> QED
      BY <2>1
  <1>2. call' = call
    BY DEF Tick, vars
  <1>3. OnlyAnUncommittedResetIsMissed'
    BY <1>1 DEF GuardInv, OnlyAnUncommittedResetIsMissed, Live, Alike
  <1>4. ASSUME NEW j \in Calls
        PROVE  Dooms(call[j])' /\ HandsOut(call[j])'
    <2>1. call'[j] = call[j] /\ Dooms(call[j]) /\ HandsOut(call[j])
      BY <1>2 DEF GuardInv
    <2>2. Dooms(call[j])'
      BY <1>1, <2>1 DEF Dooms, Live, Alike
    <2>3. HandsOut(call[j])'
      BY <1>1, <2>1 DEF HandsOut, Live, Alike
    <2> QED
      BY <2>2, <2>3
  <1> QED
    BY <1>3, <1>4 DEF GuardInv

\* An arrival touches no session and is at none of the stages.
LEMMA ArriveGuard ==
    ASSUME TypeInv, GuardInv, NEW i \in Calls, ArriveCall(i)
    PROVE  GuardInv'
  <1>1. /\ \A j \in Calls \ {i} : call'[j] = call[j]
        /\ Plain(call'[i]) /\ session' = session
    BY ArriveMoves
  <1>2. \A t \in Tokens : Alike(session[t], session'[t]) /\ session'[t].issued = session[t].issued
    BY <1>1 DEF Alike
  <1> QED
    BY <1>1, <1>2, PlainGuard, GuardKept

\* Every step keeps the guard.
LEMMA StepGuard ==
    ASSUME TypeInv, TypeInv', GuardInv, [Next]_vars
    PROVE  GuardInv'
  <1>1. ASSUME NEW i \in Calls, LoginStep(i)
        PROVE  GuardInv'
    BY <1>1, QuietGuard, FailureGuard, InsertGuard, DeleteGuard, ClearGuard, Zenon DEF LoginStep
  <1>2. ASSUME NEW i \in Calls, RequestStep(i)
        PROVE  GuardInv'
    BY <1>2, QuietGuard, SessionGuard, PasswordGuard, DeleteGuard, Zenon DEF RequestStep
  <1> QED
    BY <1>1, <1>2, TickGuard, ArriveGuard DEF Next, Step

\* Whatever the order of a login and a replacement of the password, no session that
\* a client holds was obtained with a password that has been replaced, unless its
\* row was inserted between the DELETE and the COMMIT of a reset
\* (auth/service.ts, the re-read after createSession).
THEOREM NoStaleSessionButInTheGap == Spec => []OnlyAnUncommittedResetIsMissed
  <1>1. TypeInv /\ TypeInv' /\ GuardInv /\ [Next]_vars => GuardInv'
    BY StepGuard
  <1>2. GuardInv => OnlyAnUncommittedResetIsMissed
    BY DEF GuardInv
  <1> QED
    BY <1>1, <1>2, InitGuard, AccessTyped, PTL DEF Spec

-----------------------------------------------------------------------------
(* The failure counters                                                    *)

\* The room that the attempts in flight leave below a limit.
Room(l) == ActiveCount(l) + Cardinality(Attempts(l)) < MaxFailures[l[1]] + Cardinality(Calls)

\* The numbers that the counters are compared by.
LEMMA Numbers ==
    ASSUME TypeInv, NEW l \in Limits
    PROVE  /\ ActiveCount(l) \in Nat /\ failures[l].count \in Nat
           /\ MaxFailures[l[1]] \in Nat \ {0} /\ Cardinality(Calls) \in Nat
           /\ IsFiniteSet(Attempts(l)) /\ Cardinality(Attempts(l)) \in Nat
           /\ Cardinality(Attempts(l)) <= Cardinality(Calls)
  <1>1. failures[l] \in Counter
    BY DEF TypeInv, TypeOK
  <1>2. l[1] \in Kinds
    BY DEF Limits
  <1>3. IsFiniteSet(Calls) /\ Cardinality(Calls) \in Nat
    BY CallsAssumption, FS_CardinalityType
  <1>4. Attempts(l) \in SUBSET Calls
    BY DEF Attempts
  <1>5. IsFiniteSet(Attempts(l)) /\ Cardinality(Attempts(l)) <= Cardinality(Calls)
    BY <1>3, <1>4, FS_Subset
  <1>6. Cardinality(Attempts(l)) \in Nat
    BY <1>5, FS_CardinalityType
  <1>7. ActiveCount(l) \in Nat /\ failures[l].count \in Nat
    BY <1>1 DEF Counter, ActiveCount
  <1>8. MaxFailures[l[1]] \in Nat \ {0}
    BY <1>2, TimeAssumption
  <1> QED
    BY <1>3, <1>5, <1>6, <1>7, <1>8

\* The same after a step.
LEMMA NumbersNext ==
    ASSUME TypeInv', NEW l \in Limits
    PROVE  /\ ActiveCount(l)' \in Nat /\ failures'[l].count \in Nat
           /\ Cardinality(Attempts(l)') \in Nat
           /\ Cardinality(Attempts(l)') <= Cardinality(Calls)
  <1>1. failures'[l] \in Counter
    BY DEF TypeInv, TypeOK
  <1>2. Attempts(l)' \in SUBSET Calls
    BY DEF Attempts
  <1>3. IsFiniteSet(Attempts(l)') /\ Cardinality(Attempts(l)') <= Cardinality(Calls)
    BY <1>2, CallsAssumption, FS_Subset
  <1>4. Cardinality(Attempts(l)') \in Nat
    BY <1>3, FS_CardinalityType
  <1> QED
    BY <1>1, <1>3, <1>4 DEF Counter, ActiveCount

\* No failure has been counted at the start.
LEMMA InitCount == Init => CountInv
  <1> SUFFICES ASSUME Init, NEW l \in Limits
               PROVE  failures[l].count < MaxFailures[l[1]] + Cardinality(Calls) /\ Room(l)
    BY DEF CountInv, FailuresBounded, Room
  <1>1. TypeInv
    BY InitTyped
  <1>2. failures[l].count = 0 /\ ActiveCount(l) = 0
    BY DEF Init, NoCounter, ActiveCount
  <1>3. Attempts(l) = {}
    BY DEF Init, Idle, Attempts, Trying
  <1>4. Cardinality(Attempts(l)) = 0
    BY <1>3, FS_EmptySet
  <1> QED
    BY <1>1, <1>2, <1>4, Numbers DEF Room

\* A counter that has not grown, and that no attempt has joined, keeps its room.
LEMMA RoomKept ==
    ASSUME TypeInv, TypeInv', NEW l \in Limits, Room(l),
           failures[l].count < MaxFailures[l[1]] + Cardinality(Calls),
           failures'[l].count <= failures[l].count,
           ActiveCount(l)' <= ActiveCount(l), Attempts(l)' \subseteq Attempts(l)
    PROVE  Room(l)' /\ failures'[l].count < MaxFailures[l[1]] + Cardinality(Calls)
  <1>1. Cardinality(Attempts(l)') <= Cardinality(Attempts(l))
    BY Numbers, FS_Subset
  <1>2. /\ ActiveCount(l) \in Nat /\ failures[l].count \in Nat
        /\ MaxFailures[l[1]] \in Nat \ {0} /\ Cardinality(Calls) \in Nat
        /\ Cardinality(Attempts(l)) \in Nat
    BY Numbers
  <1>3. /\ ActiveCount(l)' \in Nat /\ failures'[l].count \in Nat /\ Cardinality(Attempts(l)') \in Nat
    BY NumbersNext
  <1>4. ActiveCount(l)' + Cardinality(Attempts(l)') < MaxFailures[l[1]] + Cardinality(Calls)
    BY <1>1, <1>2, <1>3 DEF Room
  <1>5. Room(l)'
    BY <1>4 DEF Room
  <1> QED
    BY <1>2, <1>3, <1>5

\* The attempts, when no call has begun to try anew.
LEMMA AttemptsKept ==
    ASSUME NEW l \in Limits,
           \A j \in Calls : Trying(call'[j]) => Trying(call[j]) /\ call'[j].pending \subseteq call[j].pending
    PROVE  Attempts(l)' \subseteq Attempts(l)
  BY DEF Attempts

\* The counter, when it has not been touched.
LEMMA CounterKept ==
    ASSUME TypeInv, NEW l \in Limits, failures' = failures
    PROVE  failures'[l].count <= failures[l].count /\ ActiveCount(l)' <= ActiveCount(l)
  <1>1. ActiveCount(l)' = ActiveCount(l)
    BY DEF ActiveCount
  <1> QED
    BY <1>1, Numbers

\* A step that counts nothing and lets nobody past the check.
LEMMA CountKept ==
    ASSUME TypeInv, TypeInv', CountInv,
           \A l \in Limits :
              failures'[l].count <= failures[l].count /\ ActiveCount(l)' <= ActiveCount(l),
           \A j \in Calls : Trying(call'[j]) => Trying(call[j]) /\ call'[j].pending \subseteq call[j].pending
    PROVE  CountInv'
  <1>1. ASSUME NEW l \in Limits
        PROVE  Room(l)' /\ failures'[l].count < MaxFailures[l[1]] + Cardinality(Calls)
    <2>1. Room(l) /\ failures[l].count < MaxFailures[l[1]] + Cardinality(Calls)
      BY DEF CountInv, FailuresBounded, Room
    <2> QED
      BY <2>1, AttemptsKept, RoomKept
  <1> QED
    BY <1>1 DEF CountInv, FailuresBounded, Room

\* Passing the check: the counter is below its limit, and no more calls than there
\* are can be trying.
LEMMA CheckCount ==
    ASSUME TypeInv, TypeInv', CountInv, NEW i \in Calls, CheckLimit(i)
    PROVE  CountInv'
  <1> DEFINE q == call[i]
  <1>1. failures' = failures /\ q \in Call
    BY DEF CheckLimit, TypeInv, TypeOK
  <1>2. \A j \in Calls \ {i} : call'[j] = call[j]
    BY QuietMoves
  <1>3. CASE Done(i)
    <2>1. call'[i] = Idle
      BY <1>3, Moved DEF Done
    <2>2. \A j \in Calls : Trying(call'[j]) => Trying(call[j]) /\ call'[j].pending \subseteq call[j].pending
      BY <1>2, <2>1 DEF Trying, Idle
    <2> QED
      BY <1>1, <2>2, CounterKept, CountKept
  <1>4. CASE ~Done(i)
    <2> DEFINE seen == \E l \in q.pending : l[1] # "login-ip" /\ ActiveCount(l) > 0
               pc == IF q.op = "LOGIN" THEN "verify" ELSE "lock"
               t == [q EXCEPT !.pc = pc, !.dirty = seen]
    <2>1. Become(i, t) /\ \A l \in q.pending : ~Blocked(l)
      BY <1>4, Zenon DEF CheckLimit
    <2> HIDE DEF seen, pc
    <2>2. t.pending = q.pending
      BY <1>1 DEF Call
    <2>3. call'[i].pending = q.pending
      BY <2>1, <2>2, Moved
    <2>4. ASSUME NEW l \in Limits
          PROVE  Room(l)' /\ failures'[l].count < MaxFailures[l[1]] + Cardinality(Calls)
      <3>1. Room(l) /\ failures[l].count < MaxFailures[l[1]] + Cardinality(Calls)
        BY DEF CountInv, FailuresBounded, Room
      <3>2. CASE l \in q.pending
        <4>1. ~(ActiveCount(l) >= MaxFailures[l[1]])
          BY <2>1, <3>2 DEF Blocked
        <4>2. /\ ActiveCount(l) \in Nat /\ MaxFailures[l[1]] \in Nat \ {0}
              /\ Cardinality(Calls) \in Nat
          BY Numbers
        <4>3. Cardinality(Attempts(l)') \in Nat /\ Cardinality(Attempts(l)') <= Cardinality(Calls)
          BY NumbersNext
        <4>4. ActiveCount(l)' = ActiveCount(l)
          BY <1>1 DEF ActiveCount
        <4>5. ActiveCount(l)' + Cardinality(Attempts(l)') < MaxFailures[l[1]] + Cardinality(Calls)
          BY <4>1, <4>2, <4>3, <4>4
        <4> QED
          BY <1>1, <3>1, <4>5 DEF Room
      <3>3. CASE l \notin q.pending
        <4>1. Attempts(l)' \subseteq Attempts(l)
          BY <1>2, <2>3, <3>3 DEF Attempts
        <4> QED
          BY <1>1, <3>1, <4>1, CounterKept, RoomKept
      <3> QED
        BY <3>2, <3>3
    <2> QED
      BY <2>4 DEF CountInv, FailuresBounded, Room
  <1> QED
    BY <1>3, <1>4

\* Counting a failure: the attempt it was is one of those there was room for.
LEMMA FailureCount ==
    ASSUME TypeInv, TypeInv', CountInv, NEW i \in Calls, RecordFailure(i)
    PROVE  CountInv'
  <1> DEFINE q == call[i]
  <1>1. PICK l \in q.pending :
           /\ failures' = [failures EXCEPT ![l] = Counted(@)]
           /\ \/ q.pending = {l} /\ Done(i)
              \/ Become(i, [q EXCEPT !.pending = @ \ {l}])
    BY Zenon DEF RecordFailure
  <1> DEFINE r == [q EXCEPT !.pending = @ \ {l}]
  <1>2. q \in Call /\ q.pc = "fail" /\ l \in Limits
    BY DEF TypeInv, TypeOK, RecordFailure, Call
  <1>3. r.pending = q.pending \ {l} /\ r.pc = "fail"
    BY <1>2 DEF Call
  <1>4. /\ \A j \in Calls \ {i} : call'[j] = call[j]
        /\ Trying(call'[i]) => call'[i].pending = q.pending \ {l}
    <2> HIDE DEF r
    <2>1. CASE Done(i)
      BY <2>1, Moved DEF Done, Idle, Trying
    <2>2. CASE Become(i, r)
      BY <1>3, <2>2, Moved
    <2> QED
      BY <1>1, <2>1, <2>2 DEF r
  <1>5. Trying(q)
    BY <1>2 DEF Trying
  <1>6. ASSUME NEW k \in Limits
        PROVE  Room(k)' /\ failures'[k].count < MaxFailures[k[1]] + Cardinality(Calls)
    <2>1. Room(k) /\ failures[k].count < MaxFailures[k[1]] + Cardinality(Calls)
      BY DEF CountInv, FailuresBounded, Room
    <2>2. CASE k # l
      <3>1. failures'[k] = failures[k]
        BY <1>1, <2>2 DEF TypeInv, TypeOK
      <3>2. failures'[k].count <= failures[k].count /\ ActiveCount(k)' <= ActiveCount(k)
        BY <3>1, Numbers DEF ActiveCount
      <3>3. Attempts(k)' \subseteq Attempts(k)
        BY <1>4, <1>5 DEF Attempts
      <3> QED
        BY <2>1, <3>2, <3>3, RoomKept
    <2>3. CASE k = l
      <3>1. failures[k] \in Counter /\ failures'[k] = Counted(failures[k])
        BY <1>1, <1>2, <2>3 DEF TypeInv, TypeOK
      <3>2. failures'[k].count = ActiveCount(k) + 1 /\ ActiveCount(k)' = ActiveCount(k) + 1
        BY <3>1, CountedCounter DEF ActiveCount
      <3>3. i \in Attempts(k) /\ Attempts(k)' \subseteq Attempts(k) \ {i}
        BY <1>2, <1>4, <1>5, <2>3 DEF Attempts
      <3>4. /\ IsFiniteSet(Attempts(k) \ {i})
            /\ Cardinality(Attempts(k) \ {i}) = Cardinality(Attempts(k)) - 1
        BY <3>3, Numbers, FS_RemoveElement
      <3>5. Cardinality(Attempts(k)') <= Cardinality(Attempts(k)) - 1
        BY <3>3, <3>4, FS_Subset
      <3>6. /\ ActiveCount(k) \in Nat /\ MaxFailures[k[1]] \in Nat \ {0}
            /\ Cardinality(Calls) \in Nat /\ Cardinality(Attempts(k)) \in Nat
        BY Numbers
      <3>7. Cardinality(Attempts(k)') \in Nat
        BY NumbersNext
      <3>8. /\ ActiveCount(k)' + Cardinality(Attempts(k)') < MaxFailures[k[1]] + Cardinality(Calls)
            /\ failures'[k].count < MaxFailures[k[1]] + Cardinality(Calls)
        BY <2>1, <3>2, <3>5, <3>6, <3>7 DEF Room
      <3> QED
        BY <3>8 DEF Room
    <2> QED
      BY <2>2, <2>3
  <1> QED
    BY <1>6 DEF CountInv, FailuresBounded, Room

\* The other steps count nothing and let nobody past the check.
LEMMA StepCount ==
    ASSUME TypeInv, TypeInv', CountInv, [Next]_vars
    PROVE  CountInv'
  <1> DEFINE Lower == \A l \in Limits :
                         failures'[l].count <= failures[l].count /\ ActiveCount(l)' <= ActiveCount(l)
             Tries(j) == Trying(call'[j]) => Trying(call[j]) /\ call'[j].pending \subseteq call[j].pending
  <1>0. ASSUME Lower, \A j \in Calls : Tries(j)
        PROVE  CountInv'
    BY <1>0, CountKept
  <1>1. ASSUME failures' = failures
        PROVE  Lower
    BY <1>1, CounterKept
  <1>2. ASSUME NEW i \in Calls, Lower, \A j \in Calls \ {i} : call'[j] = call[j], ~Trying(call'[i])
        PROVE  CountInv'
    BY <1>0, <1>2
  <1>3. ASSUME NEW i \in Calls, Done(i)
        PROVE  (\A j \in Calls \ {i} : call'[j] = call[j]) /\ ~Trying(call'[i])
    <2>1. call'[i] = Idle /\ \A j \in Calls \ {i} : call'[j] = call[j]
      BY <1>3, Moved DEF Done
    <2> QED
      BY <2>1 DEF Idle, Trying
  <1>4. ASSUME NEW i \in Calls, ArriveCall(i)
        PROVE  CountInv'
    BY <1>1, <1>2, <1>4, ArriveMoves
  <1>5. ASSUME NEW i \in Calls, ~CheckLimit(i),
               \/ Verify(i) \/ ChooseCompany(i) \/ Reread(i) \/ Context(i)
               \/ LockForChange(i) \/ LockMembership(i) \/ ReadMembership(i)
               \/ WriteRow(i) \/ Revoke(i)
        PROVE  CountInv'
    <2>1. /\ \A j \in Calls \ {i} : call'[j] = call[j]
          /\ ~Trying(call'[i]) \/ (Trying(call[i]) /\ call'[i].pending = call[i].pending)
          /\ failures' = failures
      BY <1>5, QuietMoves
    <2>2. \A j \in Calls : Tries(j)
      BY <2>1
    <2> QED
      BY <1>0, <1>1, <2>1, <2>2
  <1>6. ASSUME NEW i \in Calls, Discard(i) \/ CommitMembership(i)
        PROVE  CountInv'
    <2>1. Done(i) /\ failures' = failures
      BY <1>6 DEF Discard, CommitMembership
    <2> QED
      BY <1>1, <1>2, <1>3, <2>1
  <1>7. ASSUME NEW i \in Calls, Clear(i)
        PROVE  CountInv'
    <2> DEFINE l == IF call[i].op = "LOGIN" THEN EmailLimit(call[i].user)
                    ELSE ChangeLimit(call[i].user)
    <2>1. Done(i) /\ (failures' = failures \/ failures' = [failures EXCEPT ![l] = NoCounter])
      BY <1>7, Zenon DEF Clear
    <2> HIDE DEF l
    <2>2. ASSUME failures' = [failures EXCEPT ![l] = NoCounter], NEW k \in Limits
          PROVE  failures'[k].count <= failures[k].count /\ ActiveCount(k)' <= ActiveCount(k)
      <3>1. failures[k].count \in Nat /\ ActiveCount(k) \in Nat
        BY Numbers
      <3>2. failures'[k] = failures[k] \/ failures'[k].count = 0
        BY <2>2 DEF TypeInv, TypeOK, NoCounter
      <3> QED
        BY <3>1, <3>2 DEF ActiveCount
    <2>3. Lower
      BY <1>1, <2>1, <2>2
    <2> QED
      BY <1>2, <1>3, <2>1, <2>3
  <1>8. ASSUME NEW i \in Calls, InsertSession(i)
        PROVE  CountInv'
    <2>1. PICK t \in Tokens : Become(i, [call[i] EXCEPT !.pc = "reread", !.token = t])
      BY <1>8, Zenon DEF InsertSession
    <2> DEFINE r == [call[i] EXCEPT !.pc = "reread", !.token = t]
    <2>2. ~Trying(r)
      BY DEF TypeInv, TypeOK, Call, Trying
    <2> HIDE DEF r
    <2>3. call'[i] = r /\ \A j \in Calls \ {i} : call'[j] = call[j]
      BY <2>1, Moved DEF r
    <2>4. failures' = failures
      BY <1>8 DEF InsertSession
    <2> QED
      BY <1>1, <1>2, <2>2, <2>3, <2>4
  <1>9. ASSUME NEW i \in Calls, Validate(i) \/ Renew(i)
        PROVE  CountInv'
    <2>1. failures' = failures
      BY <1>9, Zenon DEF Validate, Renew
    <2>2. Done(i) \/ \E pc \in {"renew", "context"} : Become(i, [call[i] EXCEPT !.pc = pc])
      <3>1. CASE Validate(i)
        BY <3>1 DEF Validate, Goto
      <3>2. CASE Renew(i)
        BY <3>2 DEF Renew, Goto
      <3> QED
        BY <1>9, <3>1, <3>2
    <2>3. ASSUME NEW pc \in {"renew", "context"}, Become(i, [call[i] EXCEPT !.pc = pc])
          PROVE  CountInv'
      <3> DEFINE r == [call[i] EXCEPT !.pc = pc]
      <3>1. ~Trying(r)
        BY DEF TypeInv, TypeOK, Call, Trying
      <3>2. call'[i] = r /\ \A j \in Calls \ {i} : call'[j] = call[j]
        BY <2>3, Moved
      <3> HIDE DEF r
      <3> QED
        BY <1>1, <1>2, <2>1, <3>1, <3>2
    <2> QED
      BY <1>1, <1>2, <1>3, <2>1, <2>2, <2>3
  <1>10. ASSUME NEW i \in Calls, CommitPassword(i)
         PROVE  CountInv'
    <2>1. failures' = failures
      BY <1>10 DEF CommitPassword
    <2>2. ASSUME NEW j \in Calls
          PROVE  Tries(j)
      <3>1. CASE j = i
        <4>1. call'[j].pc \in {"idle", "clear"}
          BY <1>10, <3>1, PasswordCalls
        <4> QED
          BY <4>1 DEF Trying
      <3>2. CASE j # i
        <4>1. call'[j].pc = call[j].pc /\ call'[j].op = call[j].op /\ call'[j].pending = call[j].pending
          BY <1>10, <3>2, PasswordCalls
        <4> QED
          BY <4>1 DEF Trying
      <3> QED
        BY <3>1, <3>2
    <2> QED
      BY <1>0, <1>1, <2>1, <2>2
  <1>11. CASE Tick
    <2>1. ASSUME NEW l \in Limits
          PROVE  failures'[l].count <= failures[l].count /\ ActiveCount(l)' <= ActiveCount(l)
      <3>1. failures[l] \in Counter
        BY DEF TypeInv, TypeOK
      <3>2. failures'[l] = failures[l] \/ failures'[l] = [failures[l] EXCEPT !.age = @ + 1]
        BY <1>11 DEF Tick
      <3> QED
        BY <3>1, <3>2, TimeAssumption DEF Counter, ActiveCount
    <2>2. \A j \in Calls : Tries(j)
      BY <1>11 DEF Tick
    <2> QED
      BY <1>0, <2>1, <2>2
  <1>12. CASE UNCHANGED vars
    <2>1. failures' = failures /\ \A j \in Calls : Tries(j)
      BY <1>12 DEF vars
    <2> QED
      BY <1>0, <1>1, <2>1
  <1>13. ASSUME NEW i \in Calls, LoginStep(i)
         PROVE  CountInv'
    BY <1>5, <1>6, <1>7, <1>8, <1>13, CheckCount, FailureCount, Zenon DEF LoginStep
  <1>14. ASSUME NEW i \in Calls, RequestStep(i)
         PROVE  CountInv'
    BY <1>5, <1>6, <1>9, <1>10, <1>14, CheckCount, Zenon DEF RequestStep
  <1> QED
    BY <1>4, <1>11, <1>12, <1>13, <1>14 DEF Next, Step

\* The check of a counter and the counting are two statements, with the password
\* verified in between: attempts in flight together all pass the check before any
\* of them is counted, and a counter exceeds its limit by no more than those
\* (auth/rate-limit.service.ts, assertNotRateLimited and recordFailedAttempt).
THEOREM LimitsHoldUpToTheCallsInFlight == Spec => []FailuresBounded
  <1>1. TypeInv /\ TypeInv' /\ CountInv /\ [Next]_vars => CountInv'
    BY StepCount
  <1>2. CountInv => FailuresBounded
    BY DEF CountInv
  <1> QED
    BY <1>1, <1>2, InitCount, AccessTyped, PTL DEF Spec
=============================================================================
