------------------------------- MODULE Roles -------------------------------
(***************************************************************************)
(* The role table of the service (src/lib/auth/rbac.ts): which operations  *)
(* a role may call at all, whose account an administrator may act on, and  *)
(* whose attendance correction an approver may decide.                     *)
(***************************************************************************)
EXTENDS Naturals

RoleNames == {"SUPER_ADMIN", "COMPANY_ADMIN", "HR_ADMIN", "HR_MANAGER", "MANAGER", "EMPLOYEE"}

\* Every permission is <<domain, action>>.
Grant(domain, actions) == {domain} \X actions

Full      == {"view", "create", "update", "archive"}
NoArchive == Full \ {"archive"}

OrgStructure(actions) ==
    UNION {Grant(x, actions) : x \in {"department", "designation", "location"}}

WorkforceTemplate(actions) == UNION {Grant(x, actions) : x \in {"schedule", "shift"}}

WorkforceAssignment(actions) ==
    UNION {Grant(x, actions) : x \in {"employee_schedule", "weekly_off"}}

Everyone ==
    Grant("organization", {"read"}) \cup Grant("holiday", {"view"})
    \cup Grant("workforce_calendar", {"view"})
    \cup Grant("attendance", {"view", "correction.request"})

Punching == Grant("attendance", {"check_in", "check_out"})

ManagerGrants ==
    Everyone \cup OrgStructure({"view"}) \cup Grant("employee", {"view", "update"})
    \cup WorkforceTemplate({"view"}) \cup WorkforceAssignment({"view"})
    \cup Grant("workforce_dashboard", {"view"}) \cup Grant("report", {"read"})

HrManagerGrants ==
    ManagerGrants \cup Punching
    \cup Grant("department", NoArchive) \cup Grant("designation", NoArchive)
    \cup Grant("employee", {"create", "manage_status", "manage_documents",
                            "view_documents", "view_private"})
    \cup Grant("attendance", {"correction.approve", "correction.reject", "recalculate",
                              "report.view", "exception.manage", "policy.view",
                              "process.view"})
    \cup WorkforceTemplate(NoArchive) \cup WorkforceAssignment(NoArchive)
    \cup Grant("holiday", NoArchive)

HrAdminGrants ==
    HrManagerGrants \cup OrgStructure(Full) \cup Grant("employee", {"archive"})
    \cup Grant("attendance", {"period.lock", "policy.update"})
    \cup WorkforceTemplate(Full) \cup Grant("holiday", Full)
    \cup Grant("device", {"read", "manage"}) \cup Grant("user", {"manage"})

AdminGrants ==
    HrAdminGrants \cup Grant("organization", {"manage"})
    \cup Grant("attendance", {"period.unlock"})

RolePermissions ==
    [SUPER_ADMIN |-> AdminGrants, COMPANY_ADMIN |-> AdminGrants,
     HR_ADMIN |-> HrAdminGrants, HR_MANAGER |-> HrManagerGrants,
     MANAGER |-> ManagerGrants, EMPLOYEE |-> Everyone \cup Punching]

Can(role, domain, action) == <<domain, action>> \in RolePermissions[role]
-----------------------------------------------------------------------------
UserManagementRank ==
    [EMPLOYEE |-> 0, MANAGER |-> 1, HR_MANAGER |-> 2, HR_ADMIN |-> 3,
     COMPANY_ADMIN |-> 4, SUPER_ADMIN |-> 5]

CanManageUserRole(actor, target) ==
    \/ actor = "SUPER_ADMIN"
    \/ actor = "COMPANY_ADMIN" /\ target # "SUPER_ADMIN"
    \/ UserManagementRank[actor] > UserManagementRank[target]

ApproverRank ==
    [HR_MANAGER |-> 1, HR_ADMIN |-> 2, COMPANY_ADMIN |-> 3, SUPER_ADMIN |-> 4]

\* A requester's role that is not listed adds no minimum.
MinimumApprover ==
    [EMPLOYEE |-> "HR_MANAGER", MANAGER |-> "HR_MANAGER",
     HR_MANAGER |-> "HR_ADMIN", HR_ADMIN |-> "COMPANY_ADMIN"]

CanReviewAttendanceCorrection(requester, approver) ==
    requester \in DOMAIN MinimumApprover =>
        /\ approver \in DOMAIN ApproverRank
        /\ ApproverRank[approver] >= ApproverRank[MinimumApprover[requester]]
=============================================================================
