------------------------------- MODULE Access -------------------------------
(***************************************************************************)
(* Who may use the server:                                                 *)
(*   POST   /auth/register        check the phone, insert the workspace,   *)
(*                                insert its owner, roll back on an error  *)
(*   POST   /auth/firebase-login  find the employee, issue a token         *)
(*   DELETE /auth/account         delete the workspace and all it has      *)
(*   PUT    /superadmin/tenants/{id}/active   suspend or reopen it         *)
(* and the chain of checks in front of the other routes.  Registrations    *)
(* and logins pass the RateLimiter of /auth first; the limiter in front of *)
(* every route only refuses more, and is left out.  Statements of          *)
(* different requests interleave; a workspace may be suspended or deleted  *)
(* between the check of a request and what it writes.                      *)
(***************************************************************************)
EXTENDS RateLimiter

CONSTANTS Phone,
          Tenant,    \* the rows of tenants that are ever inserted
          Employee,  \* the rows of employees that are ever inserted
          Register,  \* registration requests, each made once
          Call,      \* other requests, each made once
          NoRow,     \* a row that is not there
          NoTenant

VARIABLES tenant, \* tenant[t]: the row of tenants
          emp,    \* emp[e]: the row of employees
          used,   \* the rows that were inserted once: ids do not come back
          tokens, \* the tokens that were issued: the tenant and the employee
          reg,    \* reg[r]: how far the registration is
          call    \* call[c]: how far the request is

rowVars == <<tenant, emp, used>>
accessVars == <<rowVars, tokens, reg, call>>
vars == <<limiterVars, accessVars>>

Role == {"owner", "employee"}  \* a supervisor is an owner here
TenantRow == [phone : Phone, active : BOOLEAN]
EmployeeRow == [tenant : Tenant, phone : Phone, role : Role, active : BOOLEAN]
Token == [tenant : Tenant, emp : Employee, role : Role]

ASSUME AccessAssumption == NoRow \notin TenantRow \cup EmployeeRow

\* The routes of the workspace are behind the check of its status; the deletion
\* of the account, the super admin's routes and GET /uploads are not.
Guarded == {"addStaff", "dismiss", "profile"}
Op == Guarded \cup {"deleteAccount"}

TypeOK ==
  /\ LimiterTypeOK
  /\ tenant \in [Tenant -> TenantRow \cup {NoRow}]
  /\ emp \in [Employee -> EmployeeRow \cup {NoRow}]
  /\ used \subseteq Tenant \cup Employee
  /\ tokens \subseteq Token
  /\ reg \in [Register -> [stage : {"idle", "checked", "inserted", "failed",
                                    "done", "refused", "stopped"},
                           phone : Phone \cup {NoRow}, tenant : Tenant \cup {NoTenant}]]
  /\ call \in [Call -> [stage : {"idle", "authed", "inside", "done"},
                        op : Op, token : Token \cup {NoRow}, early : BOOLEAN]]
  /\ \A e \in Employee : emp[e] # NoRow => tenant[emp[e].tenant] # NoRow
  /\ \A t, u \in Tenant :
       tenant[t] # NoRow /\ tenant[u] # NoRow /\ tenant[t].phone = tenant[u].phone => t = u

Init ==
  /\ LimiterInit
  /\ tenant = [t \in Tenant |-> NoRow]
  /\ emp = [e \in Employee |-> NoRow]
  /\ used = {}
  /\ tokens = {}
  /\ reg = [r \in Register |-> [stage |-> "idle", phone |-> NoRow, tenant |-> NoTenant]]
  /\ call = [c \in Call |-> [stage |-> "idle", op |-> "profile", token |-> NoRow,
                             early |-> FALSE]]

HasPhone(t, p) == tenant[t] # NoRow /\ tenant[t].phone = p
StaffOf(t) == {e \in Employee : emp[e] # NoRow /\ emp[e].tenant = t}

\* GenerateToken: what it says is not looked up again.
TokenOf(e) == [tenant |-> emp[e].tenant, emp |-> e, role |-> emp[e].role]

InsertEmployee(e, t, p, role) ==  \* the foreign key wants the workspace
  /\ tenant[t] # NoRow
  /\ e \notin used
  /\ emp' = [emp EXCEPT ![e] = [tenant |-> t, phone |-> p, role |-> role, active |-> TRUE]]

\* DELETE FROM tenants; the employees go with it (ON DELETE CASCADE).
RemoveTenant(t) ==
  /\ tenant' = [tenant EXCEPT ![t] = NoRow]
  /\ emp' = [e \in Employee |-> IF e \in StaffOf(t) THEN NoRow ELSE emp[e]]

-----------------------------------------------------------------------------
(* Registration *)

RegGo(r, stage) == reg' = [reg EXCEPT ![r].stage = stage]

\* The Firebase token names the phone; FindTenantByPhone.
CheckPhone(r, p) ==
  /\ reg[r].stage = "idle"
  /\ reg' = [reg EXCEPT ![r] = [@ EXCEPT !.phone = p, !.stage =
                IF \E t \in Tenant : HasPhone(t, p) THEN "refused" ELSE "checked"]]
  /\ UNCHANGED <<rowVars, tokens, call>>

\* phone is UNIQUE: a registration that was faster makes this one fail.
CreateTenant(r, t) ==
  /\ reg[r].stage = "checked"
  /\ \/ /\ t \notin used
        /\ ~\E u \in Tenant : HasPhone(u, reg[r].phone)
        /\ tenant' = [tenant EXCEPT ![t] = [phone |-> reg[r].phone, active |-> TRUE]]
        /\ used' = used \cup {t}
        /\ reg' = [reg EXCEPT ![r].stage = "inserted", ![r].tenant = t]
     \/ /\ \E u \in Tenant : HasPhone(u, reg[r].phone)
        /\ RegGo(r, "refused")
        /\ UNCHANGED <<tenant, used>>
  /\ UNCHANGED <<emp, tokens, call>>

CreateOwnerUnchecked(r, e) ==  \* mutant: the error of the insert is dropped
  /\ reg[r].stage = "inserted"
  /\ RegGo(r, "done")
  /\ UNCHANGED <<tenant, emp, used, tokens, call>>

CreateOwner(r, e) ==
  /\ reg[r].stage = "inserted"
  /\ \/ /\ InsertEmployee(e, reg[r].tenant, reg[r].phone, "owner")
        /\ used' = used \cup {e}
        /\ tokens' = tokens \cup {TokenOf(e)'}
        /\ RegGo(r, "done")
     \/ /\ RegGo(r, "failed")
        /\ UNCHANGED <<emp, used, tokens>>
  /\ UNCHANGED <<tenant, call>>

\* DeleteTenant with the context of the request; its error is logged only.
RollBack(r) ==
  /\ reg[r].stage = "failed"
  /\ \/ RemoveTenant(reg[r].tenant) /\ RegGo(r, "refused")
     \/ RegGo(r, "stopped") /\ UNCHANGED <<tenant, emp>>
  /\ UNCHANGED <<used, tokens, call>>

\* The caller hangs up, or the server goes, between two statements.
StopRegister(r) ==
  /\ reg[r].stage \in {"checked", "inserted", "failed"}
  /\ RegGo(r, "stopped")
  /\ UNCHANGED <<rowVars, tokens, call>>

-----------------------------------------------------------------------------
(* Login *)

\* FindEmployeeByPhoneOnly: any row with the phone.  (Without one, the tenant
\* with the phone is looked up, and an employee of it with the same phone: it
\* can only be one that was inserted in between.)
Login(p) ==
  \E e \in Employee :
    /\ emp[e] # NoRow /\ emp[e].phone = p /\ emp[e].active
    /\ tokens' = tokens \cup {TokenOf(e)}
    /\ UNCHANGED <<rowVars, reg, call>>

-----------------------------------------------------------------------------
(* The requests behind AuthMiddleware *)

CallGo(c, stage) == call' = [call EXCEPT ![c].stage = stage]

\* A token is valid until it expires, whatever became of whom it names.
Authenticate(c, op, k) ==
  /\ call[c].stage = "idle"
  /\ call' = [call EXCEPT ![c] = [stage |-> "authed", op |-> op, token |-> k,
                                  early |-> FALSE]]
  /\ UNCHANGED <<rowVars, tokens, reg>>

\* TenantMiddleware: the workspace of the token.
Target(c) == call[c].token.tenant

CheckStatusUnguarded(c) ==  \* mutant: the routes are registered without the check
  /\ call[c].stage = "authed"
  /\ CallGo(c, "inside")
  /\ UNCHANGED <<rowVars, tokens, reg>>

\* TenantStatusMiddleware.
CheckStatus(c) ==
  /\ call[c].stage = "authed"
  /\ CallGo(c, IF call[c].op \notin Guarded
                    \/ (tenant[Target(c)] # NoRow /\ tenant[Target(c)].active)
               THEN "inside" ELSE "done")
  /\ UNCHANGED <<rowVars, tokens, reg>>

ByOwner(c) == call[c].token.role = "owner"

AddStaff(c, e, p) ==
  /\ call[c].stage = "inside" /\ call[c].op = "addStaff" /\ ByOwner(c)
  /\ InsertEmployee(e, Target(c), p, "employee")
  /\ used' = used \cup {e}
  /\ CallGo(c, "done")
  /\ UNCHANGED <<tenant, tokens, reg>>

Dismiss(c, e) ==
  /\ call[c].stage = "inside" /\ call[c].op = "dismiss" /\ ByOwner(c)
  /\ e \in StaffOf(Target(c))
  /\ emp' = [emp EXCEPT ![e].active = FALSE]
  /\ CallGo(c, "done")
  /\ UNCHANGED <<tenant, used, tokens, reg>>

\* The first step of POST /onboarding/setup; the phone of the workspace is
\* what registrations are checked against, not the owner's.
SetProfile(c, p) ==
  /\ call[c].stage = "inside" /\ call[c].op = "profile" /\ ByOwner(c)
  /\ tenant[Target(c)] # NoRow
  /\ ~\E u \in Tenant \ {Target(c)} : HasPhone(u, p)
  /\ tenant' = [tenant EXCEPT ![Target(c)].phone = p]
  /\ CallGo(c, "done")
  /\ UNCHANGED <<emp, used, tokens, reg>>

DeleteAccount(c) ==
  /\ call[c].stage = "inside" /\ call[c].op = "deleteAccount" /\ ByOwner(c)
  /\ RemoveTenant(Target(c))
  /\ CallGo(c, "done")
  /\ UNCHANGED <<used, tokens, reg>>

\* 403, an error of the database, or the caller hangs up.
Fail(c) ==
  /\ call[c].stage \in {"authed", "inside"}
  /\ CallGo(c, "done")
  /\ UNCHANGED <<rowVars, tokens, reg>>

\* SetTenantActive by the super admin.  The history notes who is past the check.
SetActive(t, active) ==
  /\ tenant[t] # NoRow
  /\ tenant' = [tenant EXCEPT ![t].active = active]
  /\ call' = [c \in Call |-> [call[c] EXCEPT !.early =
                @ \/ (call[c].stage = "inside" /\ Target(c) = t /\ ~active)]]
  /\ UNCHANGED <<emp, used, tokens, reg>>

-----------------------------------------------------------------------------

Next ==
  \/ \E a \in Address, r \in Register, p \in Phone : Admit(a) /\ CheckPhone(r, p)
  \/ \E a \in Address, p \in Phone : Admit(a) /\ Login(p)
  \/ \E a \in Address : Refuse(a) /\ UNCHANGED accessVars
  \/ Tick /\ UNCHANGED accessVars
  \/ Sweep /\ UNCHANGED accessVars
  \/ /\ UNCHANGED limiterVars
     /\ \/ \E r \in Register, t \in Tenant : CreateTenant(r, t)
        \/ \E r \in Register, e \in Employee : CreateOwner(r, e)
        \/ \E r \in Register : RollBack(r) \/ StopRegister(r)
        \/ \E c \in Call, op \in Op, k \in tokens : Authenticate(c, op, k)
        \/ \E c \in Call : CheckStatus(c) \/ DeleteAccount(c) \/ Fail(c)
        \/ \E c \in Call, e \in Employee, p \in Phone : AddStaff(c, e, p)
        \/ \E c \in Call, e \in Employee : Dismiss(c, e)
        \/ \E c \in Call, p \in Phone : SetProfile(c, p)
        \/ \E t \in Tenant, active \in BOOLEAN : SetActive(t, active)

Spec == Init /\ [][Next]_vars

-----------------------------------------------------------------------------
(* Properties *)

\* A workspace without any employee, whose phone can neither log in nor
\* register again, is one whose registration is still under way, was stopped,
\* or lost its rollback.
EmptyTenantHasCause ==
  \A t \in Tenant : tenant[t] # NoRow /\ StaffOf(t) = {} =>
    \E r \in Register : reg[r].tenant = t /\ reg[r].stage \in {"inserted", "failed", "stopped"}

\* While a workspace is suspended nothing of it changes, except by a request
\* that was past the check when it was suspended, by the owner who deletes the
\* account, and by a registration that still inserts the owner.
SuspensionHolds ==
  [][\A t \in Tenant :
       /\ tenant[t] # NoRow /\ ~tenant[t].active
       /\ tenant'[t] = NoRow \/ tenant'[t].phone # tenant[t].phone
            \/ \E e \in Employee : emp'[e] # emp[e] /\ {emp[e], emp'[e]} \cap
                  {x \in EmployeeRow : x.tenant = t} # {}
       => \/ \E c \in Call : /\ call[c].stage = "inside" /\ call'[c].stage = "done"
                             /\ Target(c) = t
                             /\ call[c].early \/ call[c].op = "deleteAccount"
          \/ \E r \in Register : reg[r].tenant = t /\ reg'[r].stage # reg[r].stage]_vars
=============================================================================
