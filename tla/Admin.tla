-------------------------------- MODULE Admin -------------------------------
(* The admin API and the startup of the server over one database: requests of *)
(* several people, each a few statements long, with the process dying and     *)
(* starting again between any two of them.                                    *)
EXTENDS AdminBots, AdminUsers

CONSTANTS MaxBoots

\* The platform admin of the environment has no tenant (users.go:83), a table
\* is finite, and None, which is NULL, is no row.
ASSUME AdminAssumption ==
    /\ SeedBot \in Bots /\ SeedDid \in Dids /\ EnvAdmin \in Users
    /\ TenantOf \in [Bots -> Tenants] /\ UserTenant \in [Users -> Tenants \cup {None}]
    /\ UserTenant[EnvAdmin] = None
    /\ IsFiniteSet(Users) /\ None \notin Tenants \cup Users \cup Bots
    /\ MaxBoots \in Nat

VARIABLES up, boots,
          hadAdmin  \* history: there has been a platform admin

vars == <<req, tenants, bots, dids, users, eval, up, boots, hadAdmin>>

\* A new deployment, or one with every bot, a DID, two admins and a user.
Init ==
    /\ req = [r \in Requests |-> Idle]
    /\ eval = NoEval
    /\ up = FALSE /\ boots = 0
    /\ \/ /\ tenants = [t \in Tenants |-> "none"]
          /\ bots = [b \in Bots |-> NoBot]
          /\ dids = [d \in Dids |-> None]
          /\ users = [u \in Users |-> NoUser]
          /\ hadAdmin = FALSE
       \/ /\ tenants = [t \in Tenants |-> "on"]
          /\ bots = [b \in Bots |-> NewBot(Initially)]
          /\ dids = [d \in Dids |-> IF d = SeedDid THEN SeedBot ELSE None]
          /\ users = [u \in Users |->
                        NewUser(IF UserTenant[u] = None THEN "platform_admin" ELSE "tenant_user",
                                Initially)]
          /\ hadAdmin = TRUE

\* MASTER_PLATFORM_ADMIN_PASSWORD is set, or main only warns.
BootAdmin ==
    \/ UpsertPlatformAdmin /\ hadAdmin' = TRUE
    \/ UNCHANGED <<userVars, hadAdmin>>

\* main: the admin, the default bot with or without a DID, each as the
\* environment of this start has it, and only then the HTTP server.
Boot ==
    /\ ~up /\ boots < MaxBoots
    /\ BootAdmin
    /\ \E withDid \in BOOLEAN : SeedDefaultBot(withDid)
    /\ up' = TRUE /\ boots' = boots + 1
    /\ UNCHANGED req

\* The requests in flight are lost with the process; a form is in a browser.
Crash ==
    /\ up
    /\ up' = FALSE
    /\ req' = [r \in Requests |-> IF InFlight(r) THEN [req[r] EXCEPT !.at = "done"] ELSE req[r]]
    /\ UNCHANGED <<botVars, userVars, boots, hadAdmin>>

\* Requests about both: a tenant with users is not deleted, and a user is
\* only created in a tenant that exists.
TenantRequest(r) ==
    \/ \E t \in Tenants :
         /\ DeleteTenant(r, t, \E u \in Users : Exists(u) /\ UserTenant[u] = t)
         /\ UNCHANGED userVars
    \/ \E u \in Users :
         /\ UserTenant[u] # None
         /\ CreateUser(r, u, tenants[UserTenant[u]] # "none")
         /\ UNCHANGED botVars

\* A request carries the token of an account, and the first account is the
\* admin's.
Next ==
    \/ Boot \/ Crash
    \/ /\ up /\ hadAdmin /\ UNCHANGED <<up, boots, hadAdmin>>
       /\ \E r \in Requests : \/ BotRequest(r) /\ UNCHANGED userVars
                              \/ UserRequest(r) /\ UNCHANGED botVars
                              \/ TenantRequest(r)

Spec == Init /\ [][Next]_vars

\* Every row refers to rows that exist: a bot and a user to their tenant, a
\* DID to its bot, an evaluation to its authors, whatever requests overlap
\* (the foreign keys of migrations 0002 to 0009, and the handlers' order).
RowsAreWhole ==
    /\ \A b \in Bots : bots[b].st # "none" => tenants[TenantOf[b]] # "none"
    /\ \A u \in Users : Exists(u) /\ UserTenant[u] # None => tenants[UserTenant[u]] # "none"
    /\ \A d \in Dids : dids[d] # None => bots[dids[d]].st # "none"
    /\ \A u \in {eval.by, eval.last} \ {None} : Exists(u)

\* An operation never leaves the system with no platform_admin (users.go:200),
\* once it had one.
AdminRemains == hadAdmin => Admins # {}

\* Unless two deletions counted the same admins: taken one after the other,
\* the last of them is refused, before and after a start that seeds no admin.
LastAdminNeedsRace ==
    hadAdmin /\ Admins = {} =>
        \E r, s \in Requests : /\ r # s /\ req[r].at = "deleted" /\ req[s].at = "deleted"
                               /\ req[r].count = req[s].count

\* The two together: no row loses what it refers to, nor the system, but for
\* such a race, its last admin.
AccountsAreSound == RowsAreWhole /\ LastAdminNeedsRace

\* What was recorded stays: deleted bots, DIDs in use, authors of evaluations.
HistoryIsKept == DeletedBotIsFinal /\ DidsAreNotStolen /\ EvaluatorIsKept

\* After a start some bot is live: "existing deployments keep working without
\* UI configuration" (bots.go:177), also one whose default bot was deleted.
BootSeeds == [][Boot => \E b \in Bots : bots'[b].st = "live"]_vars
=============================================================================
