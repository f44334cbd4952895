------------------------------- MODULE Access -------------------------------
(***************************************************************************)
(* Who is signed in: logins, sessions, the failure counters, password      *)
(* changes and resets, and the two ways a membership ends (deactivation by *)
(* a user manager, an employee's resignation or termination).              *)
(*                                                                         *)
(* A server call is a slot i of `call` and takes one database statement    *)
(* per step.  The variables hold committed rows.  A transaction that       *)
(* revokes sessions deletes the ones its DELETE saw (`doomed`); a session  *)
(* inserted between that statement and the commit is not among them.       *)
(*                                                                         *)
(* A password is known only by whether it is still the current one, so     *)
(* that any number of replacements fits in; time is relative too: a        *)
(* counter has an age, a session a remaining life, in ticks.               *)
(***************************************************************************)
EXTENDS Roles, FiniteSets

CONSTANTS
    Users, Companies,
    Enabled,            \* the accounts whose users.status is active
    RoleIn,             \* company_memberships.role, None if not a member
    Inactive,           \* the memberships that are inactive at the start
    Signed,             \* the sessions that exist at the start, by token
    Tokens, Calls,
    Ops,                \* the operations this instance exercises
    Clients,            \* the users who log in and act for themselves
    Targets,            \* the users each account operation is tried on
    HasAddress,         \* a proxy header names the client's address
    MaxFailures,        \* the limit of each kind of counter
    Window,             \* life of a counter, in ticks
    SessionLife,        \* life of a new session, in ticks
    RenewBelow,         \* a session with less life left is renewed
    None

AccountOps == {"RESET", "ACTIVATE", "DEACTIVATE", "TERMINATE"}
AllOps     == {"LOGIN", "LOGOUT", "USE", "CHANGE"} \cup AccountOps

\* The failure counters: one per attempted email, per client address (one here)
\* and per user changing a password.
Kinds  == {"login-email", "login-ip", "pw-change"}
Limits == Kinds \X Users
EmailLimit(u)  == <<"login-email", u>>
IpLimit        == <<"login-ip", CHOOSE u \in Users : TRUE>>
ChangeLimit(u) == <<"pw-change", u>>

ASSUME MembershipAssumption ==
    /\ Enabled \subseteq Users
    /\ RoleIn \in [Users -> [Companies -> RoleNames \cup {None}]]
    /\ Inactive \subseteq Users \X Companies
    /\ Signed \in [Tokens -> (Users \X Companies) \cup {None}]
    /\ Ops \subseteq AllOps /\ Clients \subseteq Users
    /\ Targets \in [AccountOps -> SUBSET Users] /\ HasAddress \in BOOLEAN
ASSUME NoneAssumption ==
    /\ None \notin Users \cup Companies \cup Tokens \cup Calls \cup RoleNames
    /\ None \notin Users \X Companies
ASSUME TimeAssumption ==
    /\ MaxFailures \in [Kinds -> Nat \ {0}]
    /\ Window \in Nat \ {0}
    /\ RenewBelow \in Nat /\ SessionLife \in Nat /\ RenewBelow <= SessionLife
ASSUME CallsAssumption == IsFiniteSet(Calls)

VARIABLES
    account,    \* users: the password, the forced-change flag
    active,     \* company_memberships.is_active
    session,    \* sessions, by token
    failures,   \* auth_rate_limits, by limit
    call        \* the server calls in flight

vars == <<account, active, session, failures, call>>
-----------------------------------------------------------------------------
Account ==
    [mustChange: BOOLEAN]

\* `replaced`, `gap` and `issued` are history: whether the password the session
\* was obtained with has been replaced since, whether it was being replaced when
\* the row was inserted, and whether the client was given the token.
Session ==
    [status: {"unused", "live", "deleted"}, user: Users \cup {None},
     company: Companies \cup {None}, life: 0..SessionLife,
     replaced: BOOLEAN, gap: BOOLEAN, issued: BOOLEAN]

NoSession ==
    [status |-> "unused", user |-> None, company |-> None, life |-> 0,
     replaced |-> FALSE, gap |-> FALSE, issued |-> FALSE]

NewSession(u, c, replaced, gap) ==
    [status |-> "live", user |-> u, company |-> c, life |-> SessionLife,
     replaced |-> replaced, gap |-> gap, issued |-> FALSE]

Call ==
    [pc: {"idle", "limit", "verify", "fail", "company", "insert", "reread",
          "discard", "clear", "validate", "renew", "context", "lock", "write",
          "revoke", "commit"},
     op: AllOps \cup {"NONE"},
     user: Users \cup {None},       \* the email tried, later the caller
     company: Companies \cup {None},
     token: Tokens \cup {None},
     knows: BOOLEAN,                \* the password sent, or verified, is current
     pending: SUBSET Limits,        \* the counters a failure adds to
     dirty: BOOLEAN,                \* the counter had failures when checked
     target: Users \cup {None},
     doomed: SUBSET Tokens,         \* the rows the DELETE found
     holdsUser: BOOLEAN, holdsMembership: BOOLEAN]   \* row locks on `target`

Idle ==
    [pc |-> "idle", op |-> "NONE", user |-> None, company |-> None, token |-> None,
     knows |-> FALSE, pending |-> {}, dirty |-> FALSE, target |-> None,
     doomed |-> {}, holdsUser |-> FALSE, holdsMembership |-> FALSE]

Counter == [count: Nat, age: 0..Window]
NoCounter == [count |-> 0, age |-> 0]

Init ==
    /\ account = [u \in Users |-> [mustChange |-> FALSE]]
    /\ active = [u \in Users |-> [c \in Companies |-> RoleIn[u][c] # None /\ <<u, c>> \notin Inactive]]
    /\ session = [t \in Tokens |->
                    IF Signed[t] = None THEN NoSession
                    ELSE [NewSession(Signed[t][1], Signed[t][2], FALSE, FALSE)
                            EXCEPT !.issued = TRUE]]
    /\ failures = [l \in Limits |-> NoCounter]
    /\ call = [i \in Calls |-> Idle]
-----------------------------------------------------------------------------
(* Queries and helpers                                                     *)

Live(t) == session[t].status = "live"

SessionsOfUser(u) == {t \in Tokens : Live(t) /\ session[t].user = u}

SessionsInCompany(u, c) == {t \in SessionsOfUser(u) : session[t].company = c}

\* findActive: counters whose window has ended are absent.
ActiveCount(l) == IF failures[l].age < Window THEN failures[l].count ELSE 0

\* A plausible bug: an attempt too many is let through.
BlockedOneLate(l) == ActiveCount(l) > MaxFailures[l[1]]

Blocked(l) == ActiveCount(l) >= MaxFailures[l[1]]

\* Calls other than i that hold a row lock on the user, or on the membership.
UserRowFree(i, u) == \A j \in Calls \ {i} : call[j].target = u => ~call[j].holdsUser

MembershipRowFree(i, u, c) ==
    \A j \in Calls \ {i} :
        call[j].target = u /\ call[j].company = c => ~call[j].holdsMembership

\* users.password_hash of u has been updated by a transaction that has not
\* committed yet.
BeingReplaced(u) ==
    \E j \in Calls : call[j].target = u /\ call[j].holdsUser /\ call[j].pc = "commit"

Become(i, q) == call' = [call EXCEPT ![i] = q]
Goto(i, pc)  == Become(i, [call[i] EXCEPT !.pc = pc])
Done(i)      == Become(i, Idle)

MayManage(i, u) ==
    LET q == call[i]
        role == RoleIn[u][q.company]
    IN role # None /\ u # q.user /\ CanManageUserRole(RoleIn[q.user][q.company], role)

MembershipsElsewhere(u, c) == {d \in Companies \ {c} : RoleIn[u][d] # None}
-----------------------------------------------------------------------------
(* Login                                                                   *)

Arrive(i, q) == call[i] = Idle /\ Become(i, q)

\* Bound: a login needs an unused token.
RoomForSession ==
    Cardinality({t \in Tokens : session[t].status = "unused"})
        > Cardinality({j \in Calls : call[j].op = "LOGIN"})

LoginRules(u) == {EmailLimit(u)} \cup (IF HasAddress THEN {IpLimit} ELSE {})

\* Naming a company one has never belonged to is refused and left out.
ArriveLogin(i, u, c, knows) ==
    /\ "LOGIN" \in Ops /\ RoomForSession
    /\ c # None => RoleIn[u][c] # None
    /\ Arrive(i, [Idle EXCEPT !.pc = "limit", !.op = "LOGIN", !.user = u, !.company = c,
                              !.knows = knows, !.pending = LoginRules(u)])
    /\ UNCHANGED <<account, active, session, failures>>

\* assertNotRateLimited, before any password is looked at.
CheckLimit(i) ==
    LET q == call[i] IN
    /\ q.pc = "limit"
    /\ IF \E l \in q.pending : Blocked(l) THEN Done(i)
       ELSE Become(i, [q EXCEPT !.pc = IF q.op = "LOGIN" THEN "verify" ELSE "lock",
                                !.dirty = \E l \in q.pending :
                                            l[1] # "login-ip" /\ ActiveCount(l) > 0])
    /\ UNCHANGED <<account, active, session, failures>>

Verify(i) ==
    LET q == call[i] IN
    /\ q.pc = "verify"
    /\ Goto(i, IF q.user \in Enabled /\ q.knows THEN "company" ELSE "fail")
    /\ UNCHANGED <<account, active, session, failures>>

\* recordFailedAttempt: one counter at a time; a window that has ended restarts.
Counted(f) ==
    IF f.age < Window /\ f.count > 0 THEN [f EXCEPT !.count = @ + 1]
    ELSE [count |-> 1, age |-> 0]

RecordFailure(i) ==
    LET q == call[i] IN
    /\ q.pc = "fail"
    /\ \E l \in q.pending :
        /\ l = IpLimit => q.pending = {IpLimit}
        /\ failures' = [failures EXCEPT ![l] = Counted(@)]
        /\ IF q.pending = {l} THEN Done(i)
           ELSE Become(i, [q EXCEPT !.pending = @ \ {l}])
    /\ UNCHANGED <<account, active, session>>

\* If no company was named the user must have exactly one active membership.
ChooseCompany(i) ==
    LET q == call[i]
        open == {c \in Companies : active[q.user][c]}
    IN
    /\ q.pc = "company"
    /\ IF \E c \in open : q.company = c \/ (q.company = None /\ open = {c})
       THEN \E c \in open :
                /\ q.company = c \/ (q.company = None /\ open = {c})
                /\ Become(i, [q EXCEPT !.pc = "insert", !.company = c])
       ELSE Done(i)
    /\ UNCHANGED <<account, active, session, failures>>

\* createSession.  The foreign key to users waits for a row locked FOR UPDATE, as
\* a password change locks it, but not for the plain UPDATE of a reset.
InsertSession(i) ==
    LET q == call[i] IN
    /\ q.pc = "insert"
    /\ \A j \in Calls : call[j].op = "CHANGE" /\ call[j].target = q.user => ~call[j].holdsUser
    /\ \E t \in Tokens :
        /\ session[t].status = "unused"
        /\ session' = [session EXCEPT ![t] =
                         NewSession(q.user, q.company, ~q.knows, BeingReplaced(q.user))]
        /\ Become(i, [q EXCEPT !.pc = "reread", !.token = t])
    /\ UNCHANGED <<account, active, failures>>

\* A plausible bug: the race guard looks at the account's status only.
RereadStatusOnly(i) ==
    /\ call[i].pc = "reread"
    /\ Goto(i, IF call[i].user \in Enabled THEN "clear" ELSE "discard")
    /\ UNCHANGED <<account, active, session, failures>>

Reread(i) ==
    LET q == call[i] IN
    /\ q.pc = "reread"
    /\ Goto(i, IF q.user \in Enabled /\ q.knows THEN "clear" ELSE "discard")
    /\ UNCHANGED <<account, active, session, failures>>

\* Only whose token it was, and that a client has it, is remembered of a row.
Deleted(s) == [s EXCEPT !.status = "deleted", !.life = 0, !.replaced = FALSE, !.gap = FALSE]

Delete(tokens) ==
    session' = [t \in Tokens |-> IF t \in tokens /\ Live(t) THEN Deleted(session[t])
                                 ELSE session[t]]

Discard(i) ==
    /\ call[i].pc = "discard"
    /\ Delete({call[i].token})
    /\ Done(i)
    /\ UNCHANGED <<account, active, failures>>

\* clearFailures, when the check had seen any; a login then hands out its token.
Clear(i) ==
    LET q == call[i]
        l == IF q.op = "LOGIN" THEN EmailLimit(q.user) ELSE ChangeLimit(q.user)
    IN
    /\ q.pc = "clear"
    /\ failures' = IF q.dirty THEN [failures EXCEPT ![l] = NoCounter] ELSE failures
    /\ session' = IF q.op = "LOGIN" THEN [session EXCEPT ![q.token].issued = TRUE]
                  ELSE session
    /\ Done(i)
    /\ UNCHANGED <<account, active>>
-----------------------------------------------------------------------------
(* A request that carries a token                                          *)

\* The client has been given the token; whether the row still exists, nobody
\* has looked yet.
Presented(t) == session[t].issued

ArriveLogout(i, t) ==
    /\ "LOGOUT" \in Ops /\ Presented(t) /\ session[t].user \in Clients
    /\ Arrive(i, [Idle EXCEPT !.pc = "discard", !.op = "LOGOUT", !.token = t])
    /\ UNCHANGED <<account, active, session, failures>>

\* The operations that the caller's role does not permit are refused and left
\* out: TERMINATE needs employee.manage_status, the other account operations
\* user.manage.
Permitted(op, role) ==
    CASE op = "TERMINATE" -> Can(role, "employee", "manage_status")
      [] op \in AccountOps \ {"TERMINATE"} -> Can(role, "user", "manage")
      [] OTHER -> TRUE

\* getRequestContext: the caller is whoever the presented token belongs to.
Request(op, t) ==
    [Idle EXCEPT !.pc = "validate", !.op = op, !.token = t,
                 !.user = session[t].user, !.company = session[t].company]

ArriveUse(i, t) ==
    /\ "USE" \in Ops /\ Presented(t) /\ session[t].user \in Clients
    /\ Arrive(i, Request("USE", t))
    /\ UNCHANGED <<account, active, session, failures>>

ArriveChange(i, t, knows) ==
    LET u == session[t].user IN
    /\ "CHANGE" \in Ops /\ Presented(t) /\ u \in Clients
    /\ Arrive(i, [Request("CHANGE", t) EXCEPT !.target = u, !.knows = knows])
    /\ UNCHANGED <<account, active, session, failures>>

ArriveAccountOp(i, op, t, u) ==
    LET s == session[t] IN
    /\ op \in Ops /\ Presented(t) /\ u \in Targets[op]
    /\ Permitted(op, RoleIn[s.user][s.company]) /\ u # s.user
    /\ Arrive(i, [Request(op, t) EXCEPT !.target = u])
    /\ UNCHANGED <<account, active, session, failures>>

\* The row is read together with its user; an expired row is deleted.  An account
\* that must change its password gets nothing but the change (the flag is the one
\* read here).
Validate(i) ==
    LET q == call[i]
        s == session[q.token]
    IN
    /\ q.pc = "validate"
    /\ IF ~Live(q.token) \/ s.life = 0 \/ q.user \notin Enabled
             \/ (account[q.user].mustChange /\ q.op # "CHANGE")
       THEN Done(i)
       ELSE Goto(i, IF s.life < RenewBelow THEN "renew" ELSE "context")
    /\ IF Live(q.token) /\ s.life = 0 THEN Delete({q.token}) ELSE UNCHANGED session
    /\ UNCHANGED <<account, active, failures>>

\* A plausible bug: renewing writes the whole row back instead of its expiry.
RenewUpsert(i) ==
    /\ call[i].pc = "renew"
    /\ session' = [session EXCEPT ![call[i].token].status = "live",
                                  ![call[i].token].life = SessionLife]
    /\ Goto(i, "context")
    /\ UNCHANGED <<account, active, failures>>

Renew(i) ==
    LET t == call[i].token IN
    /\ call[i].pc = "renew"
    /\ session' = IF Live(t) THEN [session EXCEPT ![t].life = SessionLife] ELSE session
    /\ Goto(i, "context")
    /\ UNCHANGED <<account, active, failures>>

\* The active membership gives the company context and the role.
Context(i) ==
    LET q == call[i] IN
    /\ q.pc = "context"
    /\ IF ~active[q.user][q.company] \/ q.op = "USE" THEN Done(i)
       ELSE IF q.op = "CHANGE"
       THEN Become(i, [q EXCEPT !.pc = "limit", !.pending = {ChangeLimit(q.user)}])
       ELSE Goto(i, "lock")
    /\ UNCHANGED <<account, active, session, failures>>
-----------------------------------------------------------------------------
(* Transactions that revoke sessions                                       *)

\* changeOwnPassword locks the user's row FOR UPDATE and verifies against it.
LockForChange(i) ==
    LET q == call[i] IN
    /\ q.pc = "lock" /\ q.op = "CHANGE"
    /\ UserRowFree(i, q.user)
    /\ IF q.knows THEN Become(i, [q EXCEPT !.pc = "revoke", !.holdsUser = TRUE])
       ELSE Goto(i, "fail")
    /\ UNCHANGED <<account, active, session, failures>>

\* findMembershipForUpdate, then the refusals of the user manager.
LockMembership(i) ==
    LET q == call[i] IN
    /\ q.pc = "lock" /\ q.op \in {"RESET", "ACTIVATE", "DEACTIVATE"}
    /\ MembershipRowFree(i, q.target, q.company)
    /\ IF \/ ~MayManage(i, q.target)
          \/ q.op = "RESET" /\ MembershipsElsewhere(q.target, q.company) # {}
          \/ q.op = "ACTIVATE" /\ active[q.target][q.company]
          \/ q.op = "DEACTIVATE" /\ ~active[q.target][q.company]
       THEN Done(i)
       ELSE Become(i, [q EXCEPT !.holdsMembership = TRUE,
                                !.pc = CASE q.op = "RESET" -> "write"
                                         [] q.op = "DEACTIVATE" -> "revoke"
                                         [] OTHER -> "commit"])
    /\ UNCHANGED <<account, active, session, failures>>

\* changeEmployeeStatus reads the active membership without a lock and leaves the
\* login alone when the actor does not outrank it.
ReadMembership(i) ==
    LET q == call[i] IN
    /\ q.pc = "lock" /\ q.op = "TERMINATE"
    /\ IF active[q.target][q.company] /\ MayManage(i, q.target)
       THEN Goto(i, "write") ELSE Done(i)
    /\ UNCHANGED <<account, active, session, failures>>

\* The UPDATE of users (RESET) or of the membership (TERMINATE) takes its row.
WriteRow(i) ==
    LET q == call[i] IN
    /\ q.pc = "write"
    /\ IF q.op = "RESET"
       THEN /\ UserRowFree(i, q.target)
            /\ Become(i, [q EXCEPT !.pc = "revoke", !.holdsUser = TRUE])
       ELSE /\ MembershipRowFree(i, q.target, q.company)
            /\ Become(i, [q EXCEPT !.pc = "revoke", !.holdsMembership = TRUE])
    /\ UNCHANGED <<account, active, session, failures>>

\* The DELETE: every session of the user when the password is replaced, those in
\* the company when the membership ends.
Revoke(i) ==
    LET q == call[i] IN
    /\ q.pc = "revoke"
    /\ Become(i, [q EXCEPT !.pc = "commit",
                           !.doomed = IF q.op \in {"CHANGE", "RESET"}
                                      THEN SessionsOfUser(q.target)
                                      ELSE SessionsInCompany(q.target, q.company)])
    /\ UNCHANGED <<account, active, session, failures>>

\* A new password replaces the one that other calls of the user have sent or
\* verified, and the one behind the user's sessions.
CommitPassword(i) ==
    LET q == call[i]
        after == [q EXCEPT !.pc = "clear", !.doomed = {}, !.holdsUser = FALSE]
    IN
    /\ q.pc = "commit" /\ q.op \in {"CHANGE", "RESET"}
    /\ account' = [account EXCEPT ![q.target] = [mustChange |-> q.op = "RESET"]]
    /\ session' = [t \in Tokens |->
                     IF t \in q.doomed /\ Live(t) THEN Deleted(session[t])
                     ELSE IF Live(t) /\ session[t].user = q.target
                     THEN [session[t] EXCEPT !.replaced = TRUE]
                     ELSE session[t]]
    /\ call' = [j \in Calls |->
                  IF j = i THEN IF q.op = "CHANGE" THEN after ELSE Idle
                  ELSE IF call[j].user = q.target THEN [call[j] EXCEPT !.knows = FALSE]
                  ELSE call[j]]
    /\ UNCHANGED <<active, failures>>

CommitMembership(i) ==
    LET q == call[i] IN
    /\ q.pc = "commit" /\ q.op \in {"ACTIVATE", "DEACTIVATE", "TERMINATE"}
    /\ active' = [active EXCEPT ![q.target][q.company] = q.op = "ACTIVATE"]
    /\ Delete(q.doomed)
    /\ Done(i)
    /\ UNCHANGED <<account, failures>>
-----------------------------------------------------------------------------
\* Time passes for every counter and every session.
Tick ==
    /\ failures' = [l \in Limits |->
                      IF failures[l].count = 0 \/ failures[l].age = Window THEN failures[l]
                      ELSE [failures[l] EXCEPT !.age = @ + 1]]
    /\ session' = [t \in Tokens |->
                     IF Live(t) /\ session[t].life > 0
                     THEN [session[t] EXCEPT !.life = @ - 1] ELSE session[t]]
    /\ UNCHANGED <<account, active, call>>

LoginStep(i) ==
    CheckLimit(i) \/ Verify(i) \/ RecordFailure(i) \/ ChooseCompany(i)
    \/ InsertSession(i) \/ Reread(i) \/ Discard(i) \/ Clear(i)

RequestStep(i) ==
    Validate(i) \/ Renew(i) \/ Context(i) \/ LockForChange(i) \/ LockMembership(i)
    \/ ReadMembership(i) \/ WriteRow(i) \/ Revoke(i)
    \/ CommitPassword(i) \/ CommitMembership(i)

Step(i) == LoginStep(i) \/ RequestStep(i)

ArriveCall(i) ==
    \/ \E u \in Clients, c \in Companies \cup {None}, knows \in BOOLEAN :
            ArriveLogin(i, u, c, knows)
    \/ \E t \in Tokens :
            \/ ArriveLogout(i, t)
            \/ ArriveUse(i, t)
            \/ \E knows \in BOOLEAN : ArriveChange(i, t, knows)
            \/ \E op \in AccountOps, u \in Users : ArriveAccountOp(i, op, t, u)

Next == Tick \/ \E i \in Calls : ArriveCall(i) \/ Step(i)

Spec == Init /\ [][Next]_vars
-----------------------------------------------------------------------------
(* Properties                                                              *)

TypeOK ==
    /\ account \in [Users -> Account]
    /\ active \in [Users -> [Companies -> BOOLEAN]]
    /\ session \in [Tokens -> Session]
    /\ failures \in [Limits -> Counter]
    /\ call \in [Calls -> Call]
    /\ \A t \in Tokens : Live(t) => session[t].user # None /\ session[t].company # None

\* The race guard of login (auth/service.ts:53-57): whatever the order of a login
\* and a replacement of the password, no session that a client holds was obtained
\* with a password that has been replaced, unless its row was inserted between the
\* DELETE and the COMMIT of an administrator's reset.
OnlyAnUncommittedResetIsMissed ==
    \A t \in Tokens :
        Live(t) /\ session[t].issued /\ ~session[t].gap => ~session[t].replaced

\* A session that was logged out, revoked or expired never works again, whatever
\* request was using or renewing it at that moment.
DeletedStaysDeleted ==
    [][\A t \in Tokens : session[t].status = "deleted" => session'[t].status = "deleted"]_vars

\* Attempts in flight together all pass the check before any is counted; a limit
\* is exceeded by no more than those.
FailuresBounded ==
    \A l \in Limits : failures[l].count < MaxFailures[l[1]] + Cardinality(Calls)
=============================================================================
