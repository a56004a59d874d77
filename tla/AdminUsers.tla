----------------------------- MODULE AdminUsers -----------------------------
(* Users and QC evaluations (api/users.go, api/qc.go and their tables).       *)
EXTENDS AdminBase

CONSTANTS Users, EnvAdmin, UserTenant  \* EnvAdmin: MASTER_PLATFORM_ADMIN_USER

VARIABLES users,   \* rows of users
          eval     \* the qc_evaluation row of a call

userVars == <<users, eval>>

NoUser == [role |-> "none", enabled |-> FALSE, evaluator |-> FALSE, pw |-> Initially]
NewUser(role, author) == [role |-> role, enabled |-> TRUE, evaluator |-> FALSE, pw |-> author]

NoEval == [by |-> None, last |-> None, verdict |-> "none"]

Exists(u) == users[u].role # "none"
Admins == {u \in Users : users[u].role = "platform_admin"}

\* Username is UNIQUE; the tenant must exist.
CreateUser(r, u, tenantExists) ==
    /\ Begin(r, "done", u, None, 0)
    /\ users' = [users EXCEPT ![u] =
                   IF ~Exists(u) /\ tenantExists THEN NewUser("tenant_user", r) ELSE @]
    /\ UNCHANGED eval

\* update writes the flags one statement after the other.
UpdateEnabled(r, u, on) ==
    /\ Begin(r, IF Exists(u) THEN "flags" ELSE "done", u, None, 0)
    /\ users' = [users EXCEPT ![u].enabled = IF Exists(u) THEN on ELSE @]
    /\ UNCHANGED eval

SetEvaluator(r, on) ==
    /\ req[r].at = "flags"
    /\ users' = [users EXCEPT ![req[r].on].evaluator = IF Exists(req[r].on) THEN on ELSE @]
    /\ Goto(r, "done")
    /\ UNCHANGED eval

\* A bug: the last admin is deleted too.
CountAdmins_OffByOne(r, u) ==
    /\ Begin(r, IF ~Exists(u) THEN "done" ELSE "delete_user", u, None, Cardinality(Admins))
    /\ UNCHANGED userVars

\* DeleteUser's transaction reads the role and, for an admin, the count ...
CountAdmins(r, u) ==
    /\ \E caller \in Users \ {u} : UserTenant[caller] = None  \* "cannot delete yourself"
    /\ Begin(r, IF ~Exists(u) \/ Admins = {u} THEN "done" ELSE "delete_user",
             u, None, Cardinality(Admins))
    /\ UNCHANGED userVars

\* ... and deletes; the foreign keys of evaluations are RESTRICT.
Evaluated(u) == u \in {eval.by, eval.last}
DeleteUser(r) ==
    LET u == req[r].on IN
    /\ req[r].at = "delete_user"
    /\ IF Evaluated(u) THEN Goto(r, "done") /\ UNCHANGED users
       ELSE Goto(r, "deleted") /\ users' = [users EXCEPT ![u] = NoUser]
    /\ UNCHANGED eval

\* adminResetPassword: one statement, which may match no row.
ResetPassword(r, u) ==
    /\ Begin(r, "done", u, None, 0)
    /\ users' = [users EXCEPT ![u].pw = IF Exists(u) THEN r ELSE @]
    /\ UNCHANGED eval

\* changeOwnPassword checks the current one, hashes, and writes.
VerifyPassword(r, u) ==
    /\ Exists(u) /\ Begin(r, "password", u, None, 0)
    /\ UNCHANGED userVars

ChangePassword(r) ==
    /\ req[r].at = "password"
    /\ users' = [users EXCEPT ![req[r].on].pw = IF Exists(req[r].on) THEN r ELSE @]
    /\ Goto(r, "done")
    /\ UNCHANGED eval

\* evaluate looks the call up, and the row is written afterwards.
Evaluate(r, u) ==
    /\ Exists(u) /\ Begin(r, "evaluate", u, None, 0)
    /\ UNCHANGED userVars

UpsertQCEvaluation(r, verdict) ==
    LET u == req[r].on IN
    /\ req[r].at = "evaluate"
    /\ eval' = IF ~Exists(u) THEN eval
               ELSE [by |-> IF eval.by = None THEN u ELSE eval.by,
                     last |-> u, verdict |-> verdict]
    /\ Goto(r, "done")
    /\ UNCHANGED users

UserRequest(r) ==
    \/ \E u \in Users, on \in BOOLEAN : UpdateEnabled(r, u, on)
    \/ \E u \in Users : \/ CountAdmins(r, u) \/ ResetPassword(r, u)
                        \/ VerifyPassword(r, u) \/ Evaluate(r, u)
    \/ \E on \in BOOLEAN : SetEvaluator(r, on)
    \/ \E v \in {"like", "dislike", "skipped"} : UpsertQCEvaluation(r, v)
    \/ DeleteUser(r) \/ ChangePassword(r)

\* At startup the configured admin is created or restored; ON CONFLICT leaves
\* the evaluator flag as it is.
UpsertPlatformAdmin ==
    /\ users' = [users EXCEPT ![EnvAdmin] =
                    [NewUser("platform_admin", Initially)
                       EXCEPT !.evaluator = users[EnvAdmin].evaluator]]
    /\ UNCHANGED eval

\* ---------------------------------------------------------------- properties

\* The evaluation keeps its first author over every edit (the audit trail of
\* qc.go:47), and its authors keep their accounts.
EvaluatorIsKept ==
    [][eval.by # None => eval'.by = eval.by /\ \A u \in {eval'.by, eval'.last} :
                            users'[u].role # "none"]_userVars
=============================================================================
