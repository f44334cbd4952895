------------------------------ MODULE MCAccess ------------------------------
(***************************************************************************)
(* Instances of Access for TLC: an administrator of company c1 who is      *)
(* signed in, a user of c1 only, and a user of both companies.             *)
(***************************************************************************)
EXTENDS Access, TLC
CONSTANTS admin, user, both, c1, c2, t1, t2

MCUsers     == {admin, user, both}
MCCompanies == {c1, c2}
MCRoleIn ==
    (admin :> (c1 :> "HR_ADMIN" @@ c2 :> None))
    @@ (user :> (c1 :> "EMPLOYEE" @@ c2 :> None))
    @@ (both :> (c1 :> "EMPLOYEE" @@ c2 :> "HR_ADMIN"))
MCInactive == {<<both, c2>>}
MCSigned == [t \in Tokens |-> IF t = t1 THEN <<admin, c1>> ELSE None]
MCTargets ==
    [op \in AccountOps |-> IF op = "RESET" THEN {user, both} ELSE {user}]
MCSymmetry == Permutations(Calls)
MCMaxFailures == [k \in Kinds |-> 1]
=============================================================================
