---------------------------- MODULE AdminProofs ----------------------------
(* The database under the admin API: for any number of people, rows and       *)
(* overlapping requests, and a process that dies between any two statements.  *)
EXTENDS Admin, FiniteSetTheorems, TLAPS

USE AdminAssumption

---------------------------------------------------------------------------
(* The inductive invariant.                                                  *)

BotRow == [st : {"none", "live", "deleted"}, version : Nat, cfg : [Fields -> Authors]]

UserRow == [role : {"none", "tenant_user", "platform_admin"},
            enabled : BOOLEAN, evaluator : BOOLEAN, pw : Authors]

Step == {"idle", "form", "update", "delete_bot", "add_did", "remove_did", "flags",
         "delete_user", "password", "evaluate", "done", "deleted"}

RequestRow == [at : Step, on : Tenants \cup Bots \cup Users \cup {None},
               what : Fields \cup Dids \cup {None}, seen : BotRow \cup {None}, count : Nat]

\* The tables have their types, and their rows refer to rows that exist.
BotTablesOK == /\ tenants \in [Tenants -> {"none", "on", "off"}]
               /\ bots \in [Bots -> BotRow]
               /\ dids \in [Dids -> Bots \cup {None}]

BotRowsWhole ==
    /\ \A b \in Bots : bots[b].st # "none" => tenants[TenantOf[b]] # "none"
    /\ \A d \in Dids : dids[d] # None => bots[dids[d]].st # "none"

\* A request about a bot has found it; a form that shows the stored version
\* shows the stored fields.
BotRequestOK(r) ==
    LET b == req[r].on IN
    /\ req[r].at \in {"form", "update", "delete_bot", "add_did", "remove_did"} =>
         b \in Bots /\ bots[b].st # "none"
    /\ req[r].at \in {"add_did", "remove_did"} => req[r].what \in Dids
    /\ req[r].at \in {"form", "update"} =>
         /\ req[r].what \in Fields /\ req[r].seen \in BotRow
         /\ req[r].seen.version <= bots[b].version
         /\ Live(b) /\ req[r].seen.version = bots[b].version =>
              \A f \in Fields : req[r].seen.cfg[f] = bots[b].cfg[f]

\* A request about a user has a user.
UserRequestOK(r) ==
    req[r].at \in {"flags", "delete_user", "password", "evaluate"} => req[r].on \in Users

\* Only people without a tenant administrate the platform.
RolesFit ==
    \A u \in Users : /\ users[u].role = "platform_admin" => UserTenant[u] = None
                     /\ users[u].role = "tenant_user" => UserTenant[u] # None

UserTablesOK == /\ users \in [Users -> UserRow]
                /\ eval.by \in Users \cup {None} /\ eval.last \in Users \cup {None}

\* Whoever has the authorship of the evaluation has an account.
EvalWhole == /\ eval.by # None => eval.last # None
             /\ \A u \in {eval.by, eval.last} \ {None} : Exists(u)

UsersOK == UserTablesOK /\ RolesFit /\ EvalWhole

\* Since the last start that seeded one there were N admins, and each that is
\* gone was deleted by a request that counted two at least and N at most.
AdminsCounted ==
    hadAdmin =>
          \E N \in Nat \ {0}, D \in SUBSET Requests :
            /\ IsFiniteSet(D)
            /\ \A r \in D : req[r].at = "deleted" /\ req[r].count \in 2 .. N
            /\ Cardinality(Admins) <= N
            /\ N <= Cardinality(Admins) + Cardinality(D)
            /\ \A r \in Requests :
                 req[r].at = "delete_user" /\ req[r].on \in Admins => req[r].count \in 2 .. N

\* A user is in a tenant that exists.
UsersHomed ==
    \A u \in Users : Exists(u) /\ UserTenant[u] # None => tenants[UserTenant[u]] # "none"

RequestsOK == /\ req \in [Requests -> RequestRow]
              /\ \A r \in Requests : BotRequestOK(r) /\ UserRequestOK(r)

AdminInv == /\ BotTablesOK /\ BotRowsWhole /\ UsersOK /\ UsersHomed
            /\ RequestsOK /\ AdminsCounted
            /\ up \in BOOLEAN /\ (~up => \A r \in Requests : ~InFlight(r))

---------------------------------------------------------------------------
(* How a request moves.                                                      *)

Moves(r) == /\ req' \in [Requests -> RequestRow]
            /\ \A s \in Requests \ {r} : req'[s] = req[s]

BeginTypes(at, on, what, count) ==
    /\ at \in Step /\ on \in Tenants \cup Bots \cup Users \cup {None}
    /\ what \in Fields \cup Dids \cup {None} /\ count \in Nat

\* A request that begins leaves the other requests alone.
LEMMA BeginMoves ==
    ASSUME NEW r \in Requests, req \in [Requests -> RequestRow],
           NEW at, NEW on, NEW what, NEW count, BeginTypes(at, on, what, count),
           Begin(r, at, on, what, count)
    PROVE  /\ Moves(r) /\ req[r].at = "idle" /\ req'[r].at = at
           /\ req'[r].on = on /\ req'[r].what = what /\ req'[r].count = count
<1> DEFINE row == [at |-> at, on |-> on, what |-> what, seen |-> None, count |-> count]
<1>1. row \in RequestRow
  BY DEF RequestRow, BeginTypes
<1>2. req' = [req EXCEPT ![r] = row] /\ req[r].at = "idle"
  BY DEF Begin, Idle
<1>3. row.at = at /\ row.on = on /\ row.what = what /\ row.count = count
  OBVIOUS
<1> HIDE DEF row
<1> QED BY <1>1, <1>2, <1>3 DEF Moves

\* Nor does one that goes on, which stays about what it was.
LEMMA GotoMoves ==
    ASSUME NEW r \in Requests, req \in [Requests -> RequestRow], NEW at \in Step,
           Goto(r, at)
    PROVE  /\ Moves(r) /\ req'[r].at = at
           /\ req'[r].on = req[r].on /\ req'[r].what = req[r].what
           /\ req'[r].seen = req[r].seen /\ req'[r].count = req[r].count
<1>1. [req[r] EXCEPT !.at = at] \in RequestRow
  <2>1. req[r] \in RequestRow
    OBVIOUS
  <2> QED BY <2>1 DEF RequestRow
<1>2. req' = [req EXCEPT ![r] = [req[r] EXCEPT !.at = at]]
  BY DEF Goto
<1>3. Moves(r) /\ req'[r] = [req[r] EXCEPT !.at = at]
  BY <1>1, <1>2 DEF Moves
<1>4. req[r] \in RequestRow
  OBVIOUS
<1> QED BY <1>3, <1>4 DEF RequestRow

---------------------------------------------------------------------------
(* What a step does to a bot, to a DID and to a row's references.            *)

\* A deleted bot stays so, with its fields; the others keep their fields as
\* long as they keep their version.
BotKept(b) ==
    bots[b].st # "none" =>
        /\ bots'[b].st # "none" /\ bots[b].version <= bots'[b].version
        /\ bots[b].st = "deleted" =>
             /\ bots'[b].st = "deleted" /\ bots'[b].version = bots[b].version
             /\ \A f \in Fields \ {"name"} : bots'[b].cfg[f] = bots[b].cfg[f]
        /\ bots'[b].st = "live" /\ bots'[b].version = bots[b].version =>
             bots'[b].cfg = bots[b].cfg

DidKept(d) == dids[d] # None /\ dids'[d] # dids[d] => dids'[d] = None

TenantsStay == \A t \in Tenants : tenants[t] # "none" => tenants'[t] # "none"

BotEffect == /\ BotTablesOK' /\ BotRowsWhole'
             /\ \A b \in Bots : BotKept(b)
             /\ \A d \in Dids : DidKept(d)

\* A step that leaves the three tables alone.
LEMMA BotsUnchanged ==
    ASSUME BotTablesOK, BotRowsWhole, UNCHANGED botVars
    PROVE  BotEffect /\ TenantsStay
<1>1. BotTablesOK' /\ BotRowsWhole'
  BY DEF BotTablesOK, BotRowsWhole, botVars
<1>2. \A b \in Bots : BotKept(b)
  BY DEF BotTablesOK, botVars, BotKept, BotRow
<1> QED BY <1>1, <1>2 DEF BotEffect, DidKept, botVars, TenantsStay

\* A tenant is saved.
LEMMA SaveTenantKeeps ==
    ASSUME BotTablesOK, BotRowsWhole, NEW r \in Requests, NEW t \in Tenants,
           NEW st \in {"on", "off"}, SaveTenant(r, t, st)
    PROVE  BotEffect /\ TenantsStay
<1>1. TenantsStay /\ tenants' \in [Tenants -> {"none", "on", "off"}]
  BY DEF SaveTenant, TenantsStay, BotTablesOK
<1>2. bots' = bots /\ dids' = dids
  BY DEF SaveTenant
<1>3. BotTablesOK' /\ BotRowsWhole'
  BY <1>1, <1>2 DEF BotTablesOK, BotRowsWhole, TenantsStay
<1>4. \A b \in Bots : BotKept(b)
  BY <1>2 DEF BotTablesOK, BotKept, BotRow
<1> QED BY <1>1, <1>2, <1>3, <1>4 DEF BotEffect, DidKept

\* A tenant that bots refer to is not deleted.
LEMMA DeleteTenantKeeps ==
    ASSUME BotTablesOK, BotRowsWhole, NEW r \in Requests, NEW t \in Tenants,
           NEW byUsers \in BOOLEAN, DeleteTenant(r, t, byUsers)
    PROVE  /\ BotEffect
           /\ \A s \in Tenants : tenants[s] # "none" /\ (s = t => byUsers) => tenants'[s] # "none"
<1>1. /\ tenants' \in [Tenants -> {"none", "on", "off"}]
      /\ \A s \in Tenants : s # t \/ TenantUsed(t) \/ byUsers => tenants'[s] = tenants[s]
  BY DEF DeleteTenant, BotTablesOK
<1>2. bots' = bots /\ dids' = dids
  BY DEF DeleteTenant
<1>3. BotTablesOK' /\ BotRowsWhole'
  BY <1>1, <1>2 DEF BotTablesOK, BotRowsWhole, TenantUsed
<1>4. \A b \in Bots : BotKept(b)
  BY <1>2 DEF BotTablesOK, BotKept, BotRow
<1> QED BY <1>1, <1>2, <1>3, <1>4 DEF BotEffect, DidKept

\* A bot is created in a tenant that exists, over no row.
LEMMA CreateBotKeeps ==
    ASSUME BotTablesOK, BotRowsWhole, NEW r \in Requests, NEW b \in Bots, CreateBot(r, b)
    PROVE  BotEffect /\ TenantsStay
<1>1. NewBot(r) \in BotRow /\ NewBot(r).st = "live"
  BY DEF NewBot, BotRow, Authors
<1>2. CASE bots[b].st = "none" /\ tenants[TenantOf[b]] # "none"
  <2>1. /\ bots' = [bots EXCEPT ![b] = NewBot(r)]
        /\ tenants' = tenants /\ dids' = dids
    BY <1>2 DEF CreateBot, BotTablesOK
  <2>2. /\ bots' \in [Bots -> BotRow] /\ bots'[b].st = "live"
        /\ \A c \in Bots \ {b} : bots'[c] = bots[c]
    BY <2>1, <1>1 DEF BotTablesOK
  <2>3. BotTablesOK' /\ BotRowsWhole'
    BY <1>2, <2>1, <2>2 DEF BotTablesOK, BotRowsWhole
  <2>4. \A c \in Bots : BotKept(c)
    BY <1>2, <2>2 DEF BotTablesOK, BotKept, BotRow
  <2> QED BY <2>1, <2>3, <2>4 DEF BotEffect, DidKept, TenantsStay
<1>3. CASE ~(bots[b].st = "none" /\ tenants[TenantOf[b]] # "none")
  <2>1. UNCHANGED botVars
    BY <1>3 DEF CreateBot, BotTablesOK, botVars
  <2> QED BY <2>1, BotsUnchanged
<1> QED BY <1>2, <1>3

\* The row an update writes.
Updated(x, c, y) == y = [x EXCEPT !.cfg = c, !.version = @ + 1]

\* It has the submitted fields and the next version.
LEMMA UpdatedRow ==
    ASSUME NEW x \in BotRow, NEW c \in [Fields -> Authors],
           NEW y, Updated(x, c, y)
    PROVE  /\ y \in BotRow
           /\ y.st = x.st /\ y.version = x.version + 1 /\ y.cfg = c
<1> DEFINE Cfg == [Fields -> Authors]
<1>1. x \in [st : {"none", "live", "deleted"}, version : Nat, cfg : Cfg] /\ c \in Cfg
  BY DEF BotRow
<1> HIDE DEF Cfg
<1>2. y.version = x.version + 1 /\ y.st = x.st /\ y.cfg = c
  BY <1>1 DEF Updated
<1>3. y = [st |-> y.st, version |-> y.version, cfg |-> y.cfg]
  BY <1>1 DEF Updated
<1>4. y \in [st : {"none", "live", "deleted"}, version : Nat, cfg : Cfg]
  BY <1>1, <1>2, <1>3
<1> QED BY <1>2, <1>4 DEF BotRow, Cfg

\* An update is of a live bot and of the version it was made from.
LEMMA UpdateBotKeeps ==
    ASSUME BotTablesOK, BotRowsWhole, req \in [Requests -> RequestRow],
           NEW r \in Requests, BotRequestOK(r), UpdateBot(r)
    PROVE  /\ BotEffect /\ TenantsStay
           /\ \A c \in Bots, f \in Fields :
                Live(c) /\ bots'[c].cfg[f] # bots[c].cfg[f]
                  => bots'[c].cfg[f] = r /\ req[r].what = f
<1> DEFINE b == req[r].on
           new == [f \in Fields |-> IF f = req[r].what THEN r
                                    ELSE IF f \in FormFields THEN req[r].seen.cfg[f]
                                    ELSE bots[b].cfg[f]]
<1>1. b \in Bots /\ req[r].seen \in BotRow
  BY DEF BotRequestOK, UpdateBot
<1>2. bots[b] \in BotRow
  BY <1>1 DEF BotTablesOK
<1>3. /\ new \in [Fields -> Authors]
      /\ \A f \in Fields : \/ new[f] = r /\ req[r].what = f
                           \/ new[f] = req[r].seen.cfg[f]
                           \/ new[f] = bots[b].cfg[f]
  BY <1>1, <1>2 DEF BotRow, Authors
<1>4. CASE Matches(b, req[r].seen.version)
  <2>1. bots' = [bots EXCEPT ![b] = [bots[b] EXCEPT !.cfg = new, !.version = @ + 1]]
    BY <1>4, <1>1, <1>2 DEF UpdateBot, Submitted, BotTablesOK
  <2> HIDE DEF new
  <2>3. /\ bots' \in [Bots -> BotRow] /\ \A c \in Bots \ {b} : bots'[c] = bots[c]
        /\ bots'[b].st = "live" /\ bots'[b].cfg = new
        /\ bots'[b].version = bots[b].version + 1
    <3>1. PICK row : /\ bots' = [bots EXCEPT ![b] = row]
                     /\ Updated(bots[b], new, row)
      BY <2>1 DEF Updated
    <3>2. /\ row \in BotRow /\ row.cfg = new
          /\ row.st = bots[b].st /\ row.version = bots[b].version + 1
      BY <3>1, <1>2, <1>3, UpdatedRow
    <3>3. bots' = [bots EXCEPT ![b] = row] /\ bots[b].st = "live"
      BY <3>1, <1>4 DEF Matches, Live
    <3> QED BY <3>2, <3>3, <1>1 DEF BotTablesOK
  <2>4. tenants' = tenants /\ dids' = dids /\ bots[b].st = "live"
    BY <1>4 DEF UpdateBot, Matches, Live
  <2>5. BotTablesOK' /\ BotRowsWhole'
    BY <2>3, <2>4 DEF BotTablesOK, BotRowsWhole
  <2>6. \A c \in Bots : BotKept(c)
    <3>1. bots[b].version \in Nat /\ \A c \in Bots : bots[c].version \in Nat
      BY <1>1 DEF BotTablesOK, BotRow
    <3> QED BY <2>3, <2>4, <3>1 DEF BotKept
  <2>7. \A f \in Fields : req[r].seen.cfg[f] = bots[b].cfg[f]
    BY <1>4 DEF BotRequestOK, UpdateBot, Matches
  <2>8. \A c \in Bots, f \in Fields :
          bots'[c].cfg[f] # bots[c].cfg[f] => bots'[c].cfg[f] = r /\ req[r].what = f
    BY <2>3, <2>7, <1>3
  <2> QED BY <2>4, <2>5, <2>6, <2>8 DEF BotEffect, DidKept, TenantsStay
<1>5. CASE ~Matches(b, req[r].seen.version)
  <2>1. UNCHANGED botVars
    BY <1>5 DEF UpdateBot, botVars
  <2> QED BY <2>1, BotsUnchanged DEF botVars
<1> QED BY <1>4, <1>5

\* A deletion marks the row.
LEMMA SoftDeleteBotKeeps ==
    ASSUME BotTablesOK, BotRowsWhole, NEW r \in Requests, BotRequestOK(r), SoftDeleteBot(r)
    PROVE  BotEffect /\ TenantsStay
<1> DEFINE b == req[r].on
<1>1. b \in Bots /\ bots[b].st # "none"
  BY DEF BotRequestOK, SoftDeleteBot
<1>2. PICK row : /\ bots' = [bots EXCEPT ![b] = row]
                 /\ row \in BotRow /\ row.st = "deleted"
                 /\ row.version = bots[b].version /\ row.cfg = bots[b].cfg
  <2>1. PICK row : row = [bots[b] EXCEPT !.st = "deleted"]
    OBVIOUS
  <2>2. bots[b] \in BotRow
    BY <1>1 DEF BotTablesOK
  <2>3. /\ row \in BotRow /\ row.st = "deleted"
        /\ row.version = bots[b].version /\ row.cfg = bots[b].cfg
    BY <2>1, <2>2 DEF BotRow
  <2>4. bots' = [bots EXCEPT ![b] = row]
    BY <2>1, <1>1 DEF SoftDeleteBot, BotTablesOK
  <2> QED BY <2>3, <2>4
<1>3. /\ bots' \in [Bots -> BotRow] /\ \A c \in Bots \ {b} : bots'[c] = bots[c]
      /\ bots'[b] = row /\ tenants' = tenants /\ dids' = dids
  BY <1>1, <1>2 DEF SoftDeleteBot, BotTablesOK
<1>4. BotTablesOK' /\ BotRowsWhole'
  BY <1>1, <1>2, <1>3 DEF BotTablesOK, BotRowsWhole
<1>5. \A c \in Bots : BotKept(c)
  <2>1. \A c \in Bots : bots[c].version \in Nat
    BY DEF BotTablesOK, BotRow
  <2> QED BY <2>1, <1>2, <1>3 DEF BotKept
<1> QED BY <1>3, <1>4, <1>5 DEF BotEffect, DidKept, TenantsStay

\* A DID is added to a bot or removed.
LEMMA DidsKeep ==
    ASSUME BotTablesOK, BotRowsWhole, NEW r \in Requests, BotRequestOK(r),
           AddDID(r) \/ RemoveDID(r)
    PROVE  BotEffect /\ TenantsStay
<1>1. /\ req[r].what \in Dids /\ req[r].on \in Bots /\ bots[req[r].on].st # "none"
      /\ bots' = bots /\ tenants' = tenants
  BY DEF BotRequestOK, AddDID, RemoveDID
<1>2. PICK v \in Bots \cup {None} :
        /\ dids' = [dids EXCEPT ![req[r].what] = v]
        /\ v # None => bots[v].st # "none"
        /\ v # None /\ dids[req[r].what] # None => v = dids[req[r].what]
  <2>1. CASE AddDID(r)
    <3>1. CASE DidFree(req[r].what)
      <4>1. dids' = [dids EXCEPT ![req[r].what] = req[r].on]
        BY <2>1, <3>1 DEF AddDID, BotTablesOK
      <4> QED BY <3>1, <4>1, <1>1 DEF DidFree
    <3>2. CASE ~DidFree(req[r].what)
      <4>1. dids' = [dids EXCEPT ![req[r].what] = dids[req[r].what]]
        BY <2>1, <3>2 DEF AddDID, BotTablesOK
      <4>2. dids[req[r].what] \in Bots /\ bots[dids[req[r].what]].st # "none"
        BY <3>2, <1>1 DEF DidFree, BotTablesOK, BotRowsWhole
      <4> QED BY <4>1, <4>2
    <3> QED BY <3>1, <3>2
  <2>2. CASE RemoveDID(r)
    BY <2>2 DEF RemoveDID
  <2> QED BY <2>1, <2>2
<1>3. BotTablesOK' /\ BotRowsWhole'
  BY <1>1, <1>2 DEF BotTablesOK, BotRowsWhole
<1>4. \A c \in Bots : BotKept(c)
  BY <1>1 DEF BotKept, BotTablesOK, BotRow
<1>5. \A d \in Dids : DidKept(d)
  BY <1>1, <1>2 DEF DidKept, BotTablesOK
<1> QED BY <1>1, <1>3, <1>4, <1>5 DEF BotEffect, TenantsStay

\* The seed adds what is missing, and renames at most a deleted bot.
LEMMA SeedKeeps ==
    ASSUME BotTablesOK, BotRowsWhole, NEW withDid \in BOOLEAN, SeedDefaultBot(withDid)
    PROVE  /\ BotEffect /\ TenantsStay
           /\ (\E b \in Bots : Live(b)) => UNCHANGED botVars
<1>1. CASE \E b \in Bots : Live(b)
  <2>1. UNCHANGED botVars
    BY <1>1 DEF SeedDefaultBot
  <2> QED BY <2>1, BotsUnchanged
<1>2. CASE ~\E b \in Bots : Live(b)
  <2>1. bots[SeedBot] \in BotRow /\ \A b \in Bots : bots[b].version \in Nat
    BY DEF BotTablesOK, BotRow
  <2>2. PICK row : /\ bots' = [bots EXCEPT ![SeedBot] = row] /\ row \in BotRow /\ row.st # "none"
                   /\ bots[SeedBot].st = "deleted" =>
                        /\ row.st = "deleted" /\ row.version = bots[SeedBot].version
                        /\ \A f \in Fields \ {"name"} : row.cfg[f] = bots[SeedBot].cfg[f]
    <3>1. CASE bots[SeedBot].st = "none"
      <4>1. NewBot(Initially) \in BotRow /\ NewBot(Initially).st = "live"
        BY DEF NewBot, BotRow, Authors
      <4>2. bots' = [bots EXCEPT ![SeedBot] = NewBot(Initially)]
        BY <1>2, <3>1 DEF SeedDefaultBot, BotTablesOK
      <4> QED BY <3>1, <4>1, <4>2
    <3>2. CASE bots[SeedBot].st # "none"
      <4>1. bots' = [bots EXCEPT ![SeedBot] = [bots[SeedBot] EXCEPT !.cfg["name"] = Initially]]
        BY <1>2, <3>2 DEF SeedDefaultBot, BotTablesOK
      <4>2. PICK row : row = [bots[SeedBot] EXCEPT !.cfg["name"] = Initially]
        OBVIOUS
      <4>3. /\ row \in BotRow /\ row.st = bots[SeedBot].st
            /\ row.version = bots[SeedBot].version
            /\ \A f \in Fields \ {"name"} : row.cfg[f] = bots[SeedBot].cfg[f]
        BY <2>1, <4>2 DEF BotRow, Authors
      <4> QED BY <3>2, <4>1, <4>2, <4>3
    <3> QED BY <3>1, <3>2
  <2>3. /\ bots' \in [Bots -> BotRow] /\ \A b \in Bots \ {SeedBot} : bots'[b] = bots[b]
        /\ bots'[SeedBot] = row
    BY <2>2 DEF BotTablesOK
  <2>4. /\ TenantsStay /\ tenants' \in [Tenants -> {"none", "on", "off"}]
        /\ tenants'[TenantOf[SeedBot]] # "none"
    BY <1>2 DEF SeedDefaultBot, TenantsStay, BotTablesOK
  <2>5. /\ dids' \in [Dids -> Bots \cup {None}]
        /\ \A d \in Dids : dids'[d] = dids[d] \/ (dids[d] = None /\ dids'[d] = SeedBot)
    BY <1>2 DEF SeedDefaultBot, BotTablesOK
  <2>6. BotTablesOK'
    BY <2>3, <2>4, <2>5 DEF BotTablesOK
  <2>7. BotRowsWhole'
    BY <2>2, <2>3, <2>4, <2>5 DEF BotRowsWhole, TenantsStay, BotTablesOK
  <2>8. \A b \in Bots : BotKept(b)
    <3>1. SeedBot \in Bots /\ ~Live(SeedBot)
      BY <1>2
    <3>2. bots[SeedBot].st \in {"none", "live", "deleted"}
      BY <2>1 DEF BotRow
    <3>3. BotKept(SeedBot)
      BY <3>1, <3>2, <2>1, <2>2, <2>3 DEF BotKept, Live
    <3>4. \A b \in Bots \ {SeedBot} : BotKept(b)
      BY <2>1, <2>3 DEF BotKept
    <3> QED BY <3>3, <3>4
  <2> QED BY <1>2, <2>4, <2>5, <2>6, <2>7, <2>8 DEF BotEffect, DidKept
<1> QED BY <1>1, <1>2

---------------------------------------------------------------------------
(* What a step does to the users and to the evaluation.                      *)

\* A new account is in a tenant that exists.
Homed(u) == Exists(u)' => \/ Exists(u)
                          \/ UserTenant[u] = None
                          \/ tenants[UserTenant[u]] # "none"

UserEffect == /\ UsersOK'
              /\ \A u \in Users : Homed(u)
              /\ eval.by # None => eval'.by = eval.by

\* A step that leaves both tables alone.
LEMMA UsersUnchanged ==
    ASSUME UsersOK, UNCHANGED userVars
    PROVE  UserEffect /\ Admins' = Admins
BY DEF UsersOK, UserTablesOK, RolesFit, EvalWhole, UserEffect, Homed, Exists, Admins, userVars

\* A row written over a row with the same role.
LEMMA RoleKept ==
    ASSUME UsersOK, NEW u \in Users, NEW row \in UserRow, row.role = users[u].role,
           users' = [users EXCEPT ![u] = row], eval' = eval
    PROVE  UserEffect /\ Admins' = Admins
<1>1. users' \in [Users -> UserRow] /\ \A v \in Users : users'[v].role = users[v].role
  BY DEF UsersOK, UserTablesOK
<1> QED BY <1>1 DEF UsersOK, UserTablesOK, RolesFit, EvalWhole, UserEffect, Homed, Exists, Admins

\* The flags and the password leave the role alone.
LEMMA FlagsKeep ==
    ASSUME UsersOK, NEW r \in Requests, UserRequestOK(r),
           \/ \E u \in Users, on \in BOOLEAN : UpdateEnabled(r, u, on)
           \/ \E on \in BOOLEAN : SetEvaluator(r, on)
           \/ \E u \in Users : ResetPassword(r, u)
           \/ ChangePassword(r)
    PROVE  UserEffect /\ Admins' = Admins
<1> USE DEF UsersOK, UserTablesOK
<1>1. \A u \in Users : users[u] \in UserRow
  OBVIOUS
<1>2. \A u \in Users, on \in BOOLEAN : \A row :
        (row = [users[u] EXCEPT !.enabled = on]) \/ (row = [users[u] EXCEPT !.evaluator = on])
          => row \in UserRow /\ row.role = users[u].role
  BY <1>1 DEF UserRow
<1>3. \A u \in Users : \A row :
        row = [users[u] EXCEPT !.pw = r] => row \in UserRow /\ row.role = users[u].role
  BY <1>1 DEF UserRow, Authors
<1>4. ASSUME NEW u \in Users, NEW on \in BOOLEAN, UpdateEnabled(r, u, on)
      PROVE  UserEffect /\ Admins' = Admins
  <2>1. PICK e \in BOOLEAN : users' = [users EXCEPT ![u] = [users[u] EXCEPT !.enabled = e]]
    <3>1. users[u].enabled \in BOOLEAN
      BY <1>1 DEF UserRow
    <3> QED BY <1>4, <3>1 DEF UpdateEnabled
  <2>2. PICK row : /\ users' = [users EXCEPT ![u] = row]
                   /\ row = [users[u] EXCEPT !.enabled = e]
    BY <2>1
  <2>3. row \in UserRow /\ row.role = users[u].role
    BY <2>2, <1>2
  <2> QED BY <2>2, <2>3, <1>4, RoleKept DEF UpdateEnabled
<1>5. ASSUME NEW on \in BOOLEAN, SetEvaluator(r, on)
      PROVE  UserEffect /\ Admins' = Admins
  <2>1. req[r].on \in Users
    BY <1>5 DEF UserRequestOK, SetEvaluator
  <2>2. PICK e \in BOOLEAN :
          users' = [users EXCEPT ![req[r].on] = [users[req[r].on] EXCEPT !.evaluator = e]]
    <3>1. users[req[r].on].evaluator \in BOOLEAN
      BY <1>1, <2>1 DEF UserRow
    <3> QED BY <1>5, <3>1 DEF SetEvaluator
  <2>3. PICK row : /\ users' = [users EXCEPT ![req[r].on] = row]
                   /\ row = [users[req[r].on] EXCEPT !.evaluator = e]
    BY <2>2
  <2>4. row \in UserRow /\ row.role = users[req[r].on].role
    BY <2>1, <2>3, <1>2
  <2> QED BY <2>1, <2>3, <2>4, <1>5, RoleKept DEF SetEvaluator
<1>6. ASSUME NEW u \in Users, eval' = eval,
             users' = [users EXCEPT ![u].pw = IF Exists(u) THEN r ELSE @]
      PROVE  UserEffect /\ Admins' = Admins
  <2>1. CASE Exists(u)
    <3>1. PICK row : users' = [users EXCEPT ![u] = row] /\ row = [users[u] EXCEPT !.pw = r]
      BY <1>6, <2>1
    <3> QED BY <3>1, <1>3, <1>6, RoleKept
  <2>2. CASE ~Exists(u)
    <3>1. users' = [users EXCEPT ![u] = users[u]]
      BY <1>1, <1>6, <2>2 DEF UserRow
    <3> QED BY <3>1, <1>1, <1>6, RoleKept
  <2> QED BY <2>1, <2>2
<1>7. ASSUME NEW u \in Users, ResetPassword(r, u) PROVE UserEffect /\ Admins' = Admins
  BY <1>6, <1>7 DEF ResetPassword
<1>8. ASSUME ChangePassword(r) PROVE UserEffect /\ Admins' = Admins
  BY <1>6, <1>8 DEF ChangePassword, UserRequestOK
<1> QED BY <1>4, <1>5, <1>7, <1>8

\* A created user is a tenant_user, and no account is overwritten.
LEMMA CreateUserKeeps ==
    ASSUME UsersOK, NEW r \in Requests, NEW u \in Users, UserTenant[u] # None,
           CreateUser(r, u, tenants[UserTenant[u]] # "none")
    PROVE  UserEffect /\ Admins' = Admins
<1>1. NewUser("tenant_user", r) \in UserRow /\ NewUser("tenant_user", r).role = "tenant_user"
  BY DEF NewUser, UserRow, Authors
<1>2. CASE ~Exists(u) /\ tenants[UserTenant[u]] # "none"
  <2>1. users' = [users EXCEPT ![u] = NewUser("tenant_user", r)] /\ eval' = eval
    BY <1>2 DEF CreateUser, UsersOK, UserTablesOK
  <2>2. /\ users' \in [Users -> UserRow] /\ users'[u].role = "tenant_user"
        /\ \A v \in Users \ {u} : users'[v] = users[v]
    BY <1>1, <2>1 DEF UsersOK, UserTablesOK
  <2>3. users[u].role = "none"
    BY <1>2 DEF Exists
  <2>4. UsersOK'
    BY <2>1, <2>2, <2>3 DEF UsersOK, UserTablesOK, RolesFit, EvalWhole, Exists
  <2>5. Admins' = Admins
    BY <2>2, <2>3 DEF Admins
  <2> QED BY <1>2, <2>1, <2>2, <2>4, <2>5 DEF UserEffect, Homed, Exists
<1>3. CASE ~(~Exists(u) /\ tenants[UserTenant[u]] # "none")
  <2>1. UNCHANGED userVars
    BY <1>3 DEF CreateUser, userVars, UsersOK, UserTablesOK
  <2> QED BY <2>1, UsersUnchanged
<1> QED BY <1>2, <1>3

\* A deletion is of somebody who is no author of the evaluation.
LEMMA DeleteUserKeeps ==
    ASSUME UsersOK, NEW r \in Requests, UserRequestOK(r), DeleteUser(r)
    PROVE  /\ UserEffect
           /\ \/ Goto(r, "done") /\ Admins' = Admins
              \/ Goto(r, "deleted") /\ Admins' = Admins \ {req[r].on}
<1> DEFINE u == req[r].on
<1>1. u \in Users /\ eval' = eval
  BY DEF UserRequestOK, DeleteUser
<1>2. CASE Evaluated(u)
  <2>1. UNCHANGED userVars /\ Goto(r, "done")
    BY <1>1, <1>2 DEF DeleteUser, userVars
  <2> QED BY <2>1, UsersUnchanged
<1>3. CASE ~Evaluated(u)
  <2>1. users' = [users EXCEPT ![u] = NoUser] /\ Goto(r, "deleted")
    BY <1>3 DEF DeleteUser
  <2>2. NoUser \in UserRow /\ NoUser.role = "none"
    BY DEF NoUser, UserRow, Authors
  <2>3. /\ users' \in [Users -> UserRow] /\ users'[u].role = "none"
        /\ \A v \in Users \ {u} : users'[v] = users[v]
    BY <1>1, <2>1, <2>2 DEF UsersOK, UserTablesOK
  <2>4. UsersOK'
    BY <1>1, <1>3, <2>3 DEF UsersOK, UserTablesOK, RolesFit, EvalWhole, Exists, Evaluated
  <2>5. Admins' = Admins \ {u}
    BY <1>1, <2>3 DEF Admins
  <2> QED BY <1>1, <2>1, <2>3, <2>4, <2>5 DEF UserEffect, Homed, Exists
<1> QED BY <1>2, <1>3

\* An evaluation is written by somebody who still has an account.
LEMMA EvaluationKeeps ==
    ASSUME UsersOK, NEW r \in Requests, UserRequestOK(r), NEW v,
           UpsertQCEvaluation(r, v)
    PROVE  UserEffect /\ Admins' = Admins
<1> DEFINE u == req[r].on
<1>1. u \in Users /\ users' = users
  BY DEF UserRequestOK, UpsertQCEvaluation
<1>2. CASE ~Exists(u)
  <2>1. UNCHANGED userVars
    BY <1>1, <1>2 DEF UpsertQCEvaluation, userVars
  <2> QED BY <2>1, UsersUnchanged
<1>3. CASE Exists(u)
  <2>1. /\ eval'.by = IF eval.by = None THEN u ELSE eval.by
        /\ eval'.last = u
    BY <1>3 DEF UpsertQCEvaluation
  <2>2. u # None
    BY <1>1
  <2>3. UsersOK'
    BY <1>1, <1>3, <2>1, <2>2 DEF UsersOK, UserTablesOK, RolesFit, EvalWhole, Exists
  <2> QED BY <1>1, <2>1, <2>3 DEF UserEffect, Homed, Exists, Admins
<1> QED BY <1>2, <1>3

\* A start leaves the system with the environment's admin.
LEMMA UpsertAdminKeeps ==
    ASSUME UsersOK, UpsertPlatformAdmin
    PROVE  UserEffect /\ EnvAdmin \in Admins'
<1>1. users[EnvAdmin].evaluator \in BOOLEAN
  BY DEF UsersOK, UserTablesOK, UserRow
<1>2. PICK row : /\ users' = [users EXCEPT ![EnvAdmin] = row]
                 /\ row \in UserRow /\ row.role = "platform_admin"
  <2>1. PICK row : row = [NewUser("platform_admin", Initially)
                            EXCEPT !.evaluator = users[EnvAdmin].evaluator]
    OBVIOUS
  <2>2. row \in UserRow /\ row.role = "platform_admin"
    BY <1>1, <2>1 DEF NewUser, UserRow, Authors
  <2> QED BY <2>1, <2>2 DEF UpsertPlatformAdmin
<1>3. /\ users' \in [Users -> UserRow] /\ users'[EnvAdmin].role = "platform_admin"
      /\ \A v \in Users \ {EnvAdmin} : users'[v] = users[v]
      /\ eval' = eval
  <2>1. users \in [Users -> UserRow] /\ EnvAdmin \in Users /\ eval' = eval
    BY DEF UsersOK, UserTablesOK, UpsertPlatformAdmin
  <2> QED BY <1>2, <2>1
<1>4. UsersOK'
  BY <1>3 DEF UsersOK, UserTablesOK, RolesFit, EvalWhole, Exists
<1> QED BY <1>3, <1>4 DEF UserEffect, Homed, Exists, Admins

---------------------------------------------------------------------------
(* What one request's step does to the requests.                             *)

\* Only CountAdmins puts a request before DeleteUser's second statement.
Steps(r) == /\ Moves(r) /\ BotRequestOK(r)' /\ UserRequestOK(r)'
            /\ req[r].at # "deleted" /\ req'[r].at # "delete_user"

\* A request that ends, and one of a single statement.
LEMMA RequestEnds ==
    ASSUME NEW r \in Requests, req \in [Requests -> RequestRow], req[r].at # "deleted",
           Goto(r, "done")
    PROVE  Steps(r)
<1>1. Moves(r) /\ req'[r].at = "done"
  BY GotoMoves DEF Step
<1> QED BY <1>1 DEF Steps, BotRequestOK, UserRequestOK

\* A request of one statement is over when it has begun.
LEMMA SingleStatement ==
    ASSUME NEW r \in Requests, req \in [Requests -> RequestRow],
           NEW on \in Tenants \cup Bots \cup Users, Begin(r, "done", on, None, 0)
    PROVE  Steps(r)
<1>1. BeginTypes("done", on, None, 0)
  BY DEF BeginTypes, Step
<1>2. Moves(r) /\ req[r].at = "idle" /\ req'[r].at = "done"
  BY <1>1, BeginMoves
<1> QED BY <1>2 DEF Steps, BotRequestOK, UserRequestOK

\* A request about a bot.
LEMMA BotRequestSteps ==
    ASSUME BotTablesOK, BotRowsWhole, req \in [Requests -> RequestRow],
           NEW r \in Requests, BotRequestOK(r), BotRequest(r)
    PROVE  BotEffect /\ TenantsStay /\ Steps(r)
<1>1. ASSUME NEW t \in Tenants, NEW st \in {"on", "off"}, SaveTenant(r, t, st)
      PROVE  BotEffect /\ TenantsStay /\ Steps(r)
  <2>1. Begin(r, "done", t, None, 0)
    BY <1>1 DEF SaveTenant
  <2> QED BY <1>1, <2>1, SingleStatement, SaveTenantKeeps
<1>2. ASSUME NEW b \in Bots, CreateBot(r, b)
      PROVE  BotEffect /\ TenantsStay /\ Steps(r)
  <2>1. Begin(r, "done", b, None, 0)
    BY <1>2 DEF CreateBot
  <2> QED BY <1>2, <2>1, SingleStatement, CreateBotKeeps
<1>3. ASSUME NEW b \in Bots, NEW d \in Dids \cup {None}, NEW op \in Step, Look(r, op, b, d),
             \/ op = "delete_bot"
             \/ op \in {"add_did", "remove_did"} /\ d \in Dids
      PROVE  BotEffect /\ TenantsStay /\ Steps(r)
  <2>1. BotEffect /\ TenantsStay
    BY <1>3, BotsUnchanged DEF Look
  <2>2. PICK at \in {op, "done"} : /\ Begin(r, at, b, d, 0)
                                   /\ at = op => Live(b)
    BY <1>3 DEF Look
  <2>3. /\ Moves(r) /\ req[r].at = "idle" /\ req'[r].at = at
        /\ req'[r].on = b /\ req'[r].what = d
    <3>1. BeginTypes(at, b, d, 0)
      BY <1>3, <2>2 DEF BeginTypes, Step
    <3> QED BY <3>1, <2>2, BeginMoves
  <2>4. bots' = bots
    BY <1>3 DEF Look, botVars
  <2>5. BotRequestOK(r)'
    BY <1>3, <2>2, <2>3, <2>4 DEF BotRequestOK, Live
  <2>6. UserRequestOK(r)'
    BY <1>3, <2>3 DEF UserRequestOK
  <2> QED BY <1>3, <2>1, <2>3, <2>5, <2>6 DEF Steps
<1>4. ASSUME NEW b \in Bots, NEW f \in Fields, OpenForm(r, b, f)
      PROVE  BotEffect /\ TenantsStay /\ Steps(r)
  <2>1. BotEffect /\ TenantsStay /\ bots' = bots /\ bots[b] \in BotRow
    BY <1>4, BotsUnchanged DEF OpenForm, botVars, BotTablesOK
  <2>2. [at |-> "form", on |-> b, what |-> f, seen |-> bots[b], count |-> 0] \in RequestRow
    BY <2>1 DEF RequestRow, Step
  <2>3. /\ Moves(r) /\ req[r].at = "idle"
        /\ req'[r] = [at |-> "form", on |-> b, what |-> f, seen |-> bots[b], count |-> 0]
    BY <1>4, <2>2 DEF OpenForm, Moves, Idle
  <2>4. bots[b].version \in Nat /\ bots[b].st = "live"
    BY <1>4, <2>1 DEF OpenForm, Live, BotRow
  <2>5. BotRequestOK(r)'
    BY <2>1, <2>3, <2>4 DEF BotRequestOK
  <2> QED BY <2>1, <2>3, <2>5 DEF Steps, UserRequestOK
<1>5. ASSUME SubmitForm(r) PROVE BotEffect /\ TenantsStay /\ Steps(r)
  <2>1. BotEffect /\ TenantsStay /\ bots' = bots
    BY <1>5, BotsUnchanged DEF SubmitForm, botVars
  <2>2. PICK at \in {"update", "done"} : Goto(r, at)
    BY <1>5 DEF SubmitForm
  <2>3. /\ Moves(r) /\ req'[r].at = at /\ req[r].at = "form"
        /\ req'[r].on = req[r].on /\ req'[r].what = req[r].what
        /\ req'[r].seen = req[r].seen
    BY <1>5, <2>2, GotoMoves DEF Step, SubmitForm
  <2>4. BotRequestOK(r)'
    BY <2>1, <2>3 DEF BotRequestOK, Live
  <2> QED BY <2>1, <2>3, <2>4 DEF Steps, UserRequestOK
<1>6. ASSUME UpdateBot(r) \/ SoftDeleteBot(r) \/ AddDID(r) \/ RemoveDID(r)
      PROVE  BotEffect /\ TenantsStay /\ Steps(r)
  <2>1. Goto(r, "done") /\ req[r].at # "deleted"
    BY <1>6 DEF UpdateBot, SoftDeleteBot, AddDID, RemoveDID
  <2> QED BY <1>6, <2>1, RequestEnds, UpdateBotKeeps, SoftDeleteBotKeeps, DidsKeep
<1> QED
  <2>1. {"delete_bot", "add_did", "remove_did"} \subseteq Step
    BY DEF Step
  <2> QED BY <1>1, <1>2, <1>3, <1>4, <1>5, <1>6, <2>1 DEF BotRequest

\* DeleteUser's first statement.
LEMMA CountAdminsSteps ==
    ASSUME UsersOK, req \in [Requests -> RequestRow],
           NEW r \in Requests, NEW u \in Users, CountAdmins(r, u)
    PROVE  /\ UserEffect /\ Admins' = Admins /\ Moves(r)
           /\ BotRequestOK(r)' /\ UserRequestOK(r)' /\ req[r].at # "deleted"
           /\ req'[r].at = "delete_user" /\ req'[r].on \in Admins =>
                req'[r].count \in Nat /\ req'[r].count = Cardinality(Admins) /\ 2 <= req'[r].count
<1>1. UserEffect /\ Admins' = Admins
  BY UsersUnchanged DEF CountAdmins
<1>2. IsFiniteSet(Admins)
  BY FS_Subset DEF Admins
<1>3. Cardinality(Admins) \in Nat
  BY <1>2, FS_CardinalityType
<1>4. PICK at \in {"delete_user", "done"} : /\ Begin(r, at, u, None, Cardinality(Admins))
                                            /\ at = "delete_user" => Admins # {u}
  BY DEF CountAdmins
<1>5. /\ Moves(r) /\ req[r].at = "idle" /\ req'[r].at = at
      /\ req'[r].on = u /\ req'[r].count = Cardinality(Admins)
  <2>1. BeginTypes(at, u, None, Cardinality(Admins))
    BY <1>3, <1>4 DEF BeginTypes, Step
  <2> QED BY <2>1, <1>4, BeginMoves
<1>6. u \in Admins /\ Admins # {u} => 2 <= Cardinality(Admins)
  <2> SUFFICES ASSUME u \in Admins, Admins # {u} PROVE 2 <= Cardinality(Admins)
    OBVIOUS
  <2>1. Cardinality(Admins) # 0
    BY <1>2, FS_EmptySet
  <2>2. Cardinality(Admins) # 1
    <3>1. \A x : Admins = {x} => x = u
      OBVIOUS
    <3> QED BY <1>2, <3>1, FS_Singleton
  <2> QED BY <1>3, <2>1, <2>2
<1>7. BotRequestOK(r)' /\ UserRequestOK(r)'
  BY <1>5 DEF BotRequestOK, UserRequestOK
<1> QED BY <1>1, <1>3, <1>4, <1>5, <1>6, <1>7

\* The other requests about a user, but for DeleteUser's second statement.
LEMMA UserRequestSteps ==
    ASSUME UsersOK, req \in [Requests -> RequestRow],
           NEW r \in Requests, UserRequestOK(r), UserRequest(r)
    PROVE  \/ UserEffect /\ Admins' = Admins /\ Steps(r)
           \/ DeleteUser(r)
           \/ \E u \in Users : CountAdmins(r, u)
<1> DEFINE Goal == UserEffect /\ Admins' = Admins /\ Steps(r)
<1>1. ASSUME NEW u \in Users, NEW on \in BOOLEAN, UpdateEnabled(r, u, on) PROVE Goal
  <2>1. UserEffect /\ Admins' = Admins
    BY <1>1, FlagsKeep
  <2>2. PICK at \in {"flags", "done"} : Begin(r, at, u, None, 0)
    BY <1>1 DEF UpdateEnabled
  <2>3. Moves(r) /\ req[r].at = "idle" /\ req'[r].at = at /\ req'[r].on = u
    <3>1. BeginTypes(at, u, None, 0)
      BY <2>2 DEF BeginTypes, Step
    <3> QED BY <3>1, <2>2, BeginMoves
  <2> QED BY <2>1, <2>3 DEF Steps, BotRequestOK, UserRequestOK
<1>2. ASSUME NEW u \in Users, ResetPassword(r, u) PROVE Goal
  <2>1. UserEffect /\ Admins' = Admins
    BY <1>2, FlagsKeep
  <2>2. Begin(r, "done", u, None, 0)
    BY <1>2 DEF ResetPassword
  <2> QED BY <2>1, <2>2, SingleStatement
<1>3. ASSUME NEW u \in Users, VerifyPassword(r, u) \/ Evaluate(r, u) PROVE Goal
  <2>1. UserEffect /\ Admins' = Admins
    BY <1>3, UsersUnchanged DEF VerifyPassword, Evaluate
  <2>2. PICK at \in {"password", "evaluate"} : Begin(r, at, u, None, 0)
    BY <1>3 DEF VerifyPassword, Evaluate
  <2>3. Moves(r) /\ req[r].at = "idle" /\ req'[r].at = at /\ req'[r].on = u
    <3>1. BeginTypes(at, u, None, 0)
      BY <2>2 DEF BeginTypes, Step
    <3> QED BY <3>1, <2>2, BeginMoves
  <2> QED BY <2>1, <2>3 DEF Steps, BotRequestOK, UserRequestOK
<1>4. ASSUME (\E on \in BOOLEAN : SetEvaluator(r, on)) \/ ChangePassword(r) PROVE Goal
  <2>1. UserEffect /\ Admins' = Admins
    BY <1>4, FlagsKeep
  <2>2. Goto(r, "done") /\ req[r].at # "deleted"
    BY <1>4 DEF SetEvaluator, ChangePassword
  <2> QED BY <2>1, <2>2, RequestEnds
<1>5. ASSUME NEW v, UpsertQCEvaluation(r, v) PROVE Goal
  <2>1. UserEffect /\ Admins' = Admins
    BY <1>5, EvaluationKeeps
  <2>2. Goto(r, "done") /\ req[r].at # "deleted"
    BY <1>5 DEF UpsertQCEvaluation
  <2> QED BY <2>1, <2>2, RequestEnds
<1> HIDE DEF Goal
<1>6. Goal \/ DeleteUser(r) \/ \E u \in Users : CountAdmins(r, u)
  BY <1>1, <1>2, <1>3, <1>4, <1>5 DEF UserRequest
<1> QED BY <1>6 DEF Goal

---------------------------------------------------------------------------
(* The admins that are counted.                                              *)

\* There are finitely many of them, before and after a step.
LEMMA AdminsFinite ==
    /\ IsFiniteSet(Admins) /\ Cardinality(Admins) \in Nat
    /\ IsFiniteSet(Admins') /\ Cardinality(Admins') \in Nat
<1>1. IsFiniteSet(Admins) /\ IsFiniteSet(Admins')
  BY FS_Subset DEF Admins
<1> QED BY <1>1, FS_CardinalityType

\* A step that leaves the admins alone, and that may count them.
LEMMA CountKept ==
    ASSUME AdminsCounted, UNCHANGED hadAdmin, NEW r \in Requests, Moves(r),
           Admins' = Admins, req[r].at # "deleted",
           req'[r].at = "delete_user" /\ req'[r].on \in Admins =>
             req'[r].count \in Nat /\ req'[r].count = Cardinality(Admins) /\ 2 <= req'[r].count
    PROVE  AdminsCounted'
<1> SUFFICES ASSUME hadAdmin PROVE AdminsCounted'
  BY DEF AdminsCounted
<1>1. PICK N \in Nat \ {0}, D \in SUBSET Requests :
        /\ IsFiniteSet(D)
        /\ \A s \in D : req[s].at = "deleted" /\ req[s].count \in 2 .. N
        /\ Cardinality(Admins) <= N
        /\ N <= Cardinality(Admins) + Cardinality(D)
        /\ \A s \in Requests :
             req[s].at = "delete_user" /\ req[s].on \in Admins => req[s].count \in 2 .. N
  BY DEF AdminsCounted
<1>2. \A s \in D : req'[s] = req[s]
  BY <1>1 DEF Moves
<1>3. \A s \in Requests :
        req'[s].at = "delete_user" /\ req'[s].on \in Admins => req'[s].count \in 2 .. N
  <2>1. \A s \in Requests \ {r} : req'[s] = req[s]
    BY DEF Moves
  <2>2. Cardinality(Admins) \in Nat
    BY AdminsFinite
  <2> QED BY <1>1, <2>1, <2>2
<1> QED BY <1>1, <1>2, <1>3 DEF AdminsCounted

\* A deletion that counted: its admin is gone, and it is one more deletion.
LEMMA CountDeleted ==
    ASSUME AdminsCounted, UNCHANGED hadAdmin, NEW r \in Requests, Moves(r),
           req[r].at = "delete_user", req'[r].at = "deleted", req'[r].count = req[r].count,
           Admins' = Admins \ {req[r].on}
    PROVE  AdminsCounted'
<1> SUFFICES ASSUME hadAdmin PROVE AdminsCounted'
  BY DEF AdminsCounted
<1>1. PICK N \in Nat \ {0}, D \in SUBSET Requests :
        /\ IsFiniteSet(D)
        /\ \A s \in D : req[s].at = "deleted" /\ req[s].count \in 2 .. N
        /\ Cardinality(Admins) <= N
        /\ N <= Cardinality(Admins) + Cardinality(D)
        /\ \A s \in Requests :
             req[s].at = "delete_user" /\ req[s].on \in Admins => req[s].count \in 2 .. N
  BY DEF AdminsCounted
<1>2. CASE req[r].on \notin Admins
  <2>1. Admins' = Admins
    BY <1>2
  <2> QED BY <2>1, CountKept
<1>3. CASE req[r].on \in Admins
  <2>1. r \notin D /\ req[r].count \in 2 .. N
    BY <1>1, <1>3
  <2>2. /\ IsFiniteSet(D \cup {r}) /\ Cardinality(D \cup {r}) = Cardinality(D) + 1
        /\ Cardinality(D) \in Nat
    BY <1>1, <2>1, FS_AddElement, FS_CardinalityType
  <2>3. Cardinality(Admins') = Cardinality(Admins) - 1
    BY <1>3, AdminsFinite, FS_RemoveElement
  <2>4. \A s \in D \cup {r} : req'[s].at = "deleted" /\ req'[s].count \in 2 .. N
    BY <1>1, <2>1 DEF Moves
  <2>5. \A s \in Requests :
          req'[s].at = "delete_user" /\ req'[s].on \in Admins' => req'[s].count \in 2 .. N
    BY <1>1 DEF Moves
  <2>6. /\ Cardinality(Admins') <= N
        /\ N <= Cardinality(Admins') + Cardinality(D \cup {r})
    BY <1>1, <2>2, <2>3, AdminsFinite
  <2> QED BY <1>1, <2>2, <2>4, <2>5, <2>6 DEF AdminsCounted
<1> QED BY <1>2, <1>3

---------------------------------------------------------------------------
(* The invariant holds in every reachable state.                             *)

\* The other requests are as right as before.
LEMMA OthersOK ==
    ASSUME RequestsOK, BotTablesOK, BotEffect, NEW r \in Requests, Moves(r),
           BotRequestOK(r)', UserRequestOK(r)'
    PROVE  RequestsOK'
<1>1. ASSUME NEW s \in Requests \ {r} PROVE BotRequestOK(s)' /\ UserRequestOK(s)'
  <2>1. req'[s] = req[s] /\ BotRequestOK(s) /\ UserRequestOK(s)
    BY <1>1 DEF Moves, RequestsOK
  <2>2. UserRequestOK(s)'
    BY <2>1 DEF UserRequestOK
  <2>3. BotRequestOK(s)'
    <3> DEFINE b == req[s].on
    <3>1. CASE req[s].at \in {"form", "update", "delete_bot", "add_did", "remove_did"}
      <4>1. b \in Bots /\ bots[b].st # "none" /\ BotKept(b)
        BY <2>1, <3>1 DEF BotRequestOK, BotEffect
      <4>2. bots[b] \in BotRow /\ bots'[b] \in BotRow
        BY <4>1 DEF BotTablesOK, BotEffect
      <4>3. /\ bots[b].version \in Nat /\ bots'[b].version \in Nat
            /\ bots[b].st \in {"none", "live", "deleted"}
        BY <4>2 DEF BotRow
      <4>4. CASE req[s].at \in {"form", "update"}
        <5>1. req[s].seen.version \in Nat /\ req[s].seen.version <= bots[b].version
          BY <2>1, <4>4 DEF BotRequestOK, BotRow
        <5>2. /\ bots[b].version <= bots'[b].version
              /\ bots'[b].st = "live" /\ bots'[b].version = bots[b].version =>
                   bots'[b].cfg = bots[b].cfg /\ bots[b].st = "live"
          BY <4>1, <4>3 DEF BotKept
        <5>3. req[s].seen.version <= bots'[b].version
          BY <4>3, <5>1, <5>2
        <5>4. ASSUME bots'[b].st = "live", req[s].seen.version = bots'[b].version
              PROVE  \A f \in Fields : req[s].seen.cfg[f] = bots'[b].cfg[f]
          <6>1. bots'[b].version = bots[b].version
            BY <4>3, <5>1, <5>2, <5>4
          <6> QED BY <2>1, <4>4, <5>2, <5>4, <6>1 DEF BotRequestOK, Live
        <5> QED BY <2>1, <4>1, <4>4, <5>3, <5>4 DEF BotRequestOK, BotKept, Live
      <4> QED BY <2>1, <3>1, <4>1, <4>4 DEF BotRequestOK, BotKept
    <3>2. CASE req[s].at \notin {"form", "update", "delete_bot", "add_did", "remove_did"}
      BY <2>1, <3>2 DEF BotRequestOK
    <3> QED BY <3>1, <3>2
  <2> QED BY <2>2, <2>3
<1> QED BY <1>1 DEF RequestsOK, Moves

\* One step of one request.
LEMMA RequestKeeps ==
    ASSUME AdminInv, up, UNCHANGED <<up, hadAdmin>>, NEW r \in Requests,
           \/ BotRequest(r) /\ UNCHANGED userVars
           \/ UserRequest(r) /\ UNCHANGED botVars
           \/ TenantRequest(r)
    PROVE  AdminInv' /\ BotEffect /\ UserEffect
<1> USE DEF AdminInv
<1>1. BotRequestOK(r) /\ UserRequestOK(r) /\ req \in [Requests -> RequestRow]
  BY DEF RequestsOK
<1>2. ASSUME BotEffect, UserEffect, UsersHomed', Admins' = Admins, Steps(r)
      PROVE  AdminInv'
  <2>1. RequestsOK'
    BY <1>2, OthersOK DEF Steps
  <2>2. AdminsCounted'
    BY <1>2, CountKept DEF Steps
  <2> QED BY <1>2, <2>1, <2>2 DEF BotEffect, UserEffect
<1>3. CASE BotRequest(r) /\ UNCHANGED userVars
  <2>1. BotEffect /\ TenantsStay /\ Steps(r)
    BY <1>1, <1>3, BotRequestSteps
  <2>2. UserEffect /\ Admins' = Admins
    BY <1>3, UsersUnchanged
  <2>3. UsersHomed'
    BY <1>3, <2>1 DEF UsersHomed, TenantsStay, userVars, Exists
  <2> QED BY <1>2, <2>1, <2>2, <2>3
<1>4. CASE UserRequest(r) /\ UNCHANGED botVars
  <2>1. BotEffect
    BY <1>4, BotsUnchanged
  <2>2. ASSUME UserEffect PROVE UsersHomed'
    BY <1>4, <2>2 DEF UsersHomed, UserEffect, Homed, botVars
  <2>3. CASE UserEffect /\ Admins' = Admins /\ Steps(r)
    BY <1>2, <2>1, <2>2, <2>3
  <2>4. CASE DeleteUser(r)
    <3>1. UserEffect
      BY <1>1, <2>4, DeleteUserKeeps
    <3>2. CASE Goto(r, "done") /\ Admins' = Admins
      <4>1. req[r].at # "deleted"
        BY <2>4 DEF DeleteUser
      <4>2. Steps(r)
        BY <1>1, <3>2, <4>1, RequestEnds
      <4> QED BY <1>2, <2>1, <2>2, <3>1, <3>2, <4>2
    <3>3. CASE Goto(r, "deleted") /\ Admins' = Admins \ {req[r].on}
      <4>1. Moves(r) /\ req'[r].at = "deleted" /\ req'[r].count = req[r].count
        BY <1>1, <3>3, GotoMoves DEF Step
      <4>2. RequestsOK'
        BY <2>1, <4>1, OthersOK DEF BotRequestOK, UserRequestOK
      <4>3. AdminsCounted'
        BY <2>4, <3>3, <4>1, CountDeleted DEF DeleteUser
      <4> QED BY <2>1, <2>2, <3>1, <4>2, <4>3 DEF BotEffect, UserEffect
    <3> QED BY <1>1, <2>4, <3>2, <3>3, DeleteUserKeeps
  <2>5. ASSUME NEW u \in Users, CountAdmins(r, u)
        PROVE  AdminInv' /\ UserEffect
    <3>1. /\ UserEffect /\ Admins' = Admins /\ Moves(r)
          /\ BotRequestOK(r)' /\ UserRequestOK(r)' /\ req[r].at # "deleted"
          /\ req'[r].at = "delete_user" /\ req'[r].on \in Admins =>
               req'[r].count \in Nat /\ req'[r].count = Cardinality(Admins) /\ 2 <= req'[r].count
      BY <1>1, <2>5, CountAdminsSteps
    <3>2. RequestsOK'
      BY <2>1, <3>1, OthersOK
    <3>3. AdminsCounted'
      BY <3>1, CountKept
    <3> QED BY <2>1, <2>2, <3>1, <3>2, <3>3 DEF BotEffect, UserEffect
  <2> HIDE DEF AdminInv
  <2>6. \/ UserEffect /\ Admins' = Admins /\ Steps(r)
        \/ DeleteUser(r)
        \/ \E u \in Users : CountAdmins(r, u)
    BY <1>1, <1>4, UserRequestSteps DEF AdminInv
  <2>7. DeleteUser(r) => UserEffect
    BY <1>1, DeleteUserKeeps DEF AdminInv
  <2> QED BY <2>1, <2>3, <2>4, <2>5, <2>6, <2>7
<1>5. CASE TenantRequest(r)
  <2>1. ASSUME NEW t \in Tenants, UNCHANGED userVars,
               DeleteTenant(r, t, \E u \in Users : Exists(u) /\ UserTenant[u] = t)
        PROVE  AdminInv' /\ BotEffect /\ UserEffect
    <3> DEFINE byUsers == \E u \in Users : Exists(u) /\ UserTenant[u] = t
    <3>1. UserEffect /\ Admins' = Admins
      BY <2>1, UsersUnchanged
    <3>2. /\ BotEffect
          /\ \A s \in Tenants : tenants[s] # "none" /\ (s = t => byUsers) => tenants'[s] # "none"
      <4> HIDE DEF byUsers
      <4>1. DeleteTenant(r, t, byUsers) /\ byUsers \in BOOLEAN
        BY <2>1 DEF byUsers
      <4> QED BY <4>1, DeleteTenantKeeps
    <3>3. UsersHomed'
      BY <2>1, <3>2 DEF UsersHomed, userVars, Exists
    <3>4. Begin(r, "done", t, None, 0)
      BY <2>1 DEF DeleteTenant
    <3>5. Steps(r)
      BY <1>1, <3>4, SingleStatement
    <3> QED BY <1>2, <3>1, <3>2, <3>3, <3>5
  <2>2. ASSUME NEW u \in Users, UNCHANGED botVars, UserTenant[u] # None,
               CreateUser(r, u, tenants[UserTenant[u]] # "none")
        PROVE  AdminInv' /\ BotEffect /\ UserEffect
    <3>1. BotEffect
      BY <2>2, BotsUnchanged
    <3>2. UserEffect /\ Admins' = Admins
      BY <2>2, CreateUserKeeps
    <3>3. UsersHomed'
      BY <2>2, <3>2 DEF UsersHomed, UserEffect, Homed, botVars
    <3>4. Begin(r, "done", u, None, 0)
      BY <2>2 DEF CreateUser
    <3>5. Steps(r)
      BY <1>1, <3>4, SingleStatement
    <3> QED BY <1>2, <3>1, <3>2, <3>3, <3>5
  <2> QED BY <1>5, <2>1, <2>2 DEF TenantRequest
<1> HIDE DEF AdminInv
<1>6. CASE BotRequest(r) /\ UNCHANGED userVars
  <2>1. BotEffect
    BY <1>1, <1>6, BotRequestSteps DEF AdminInv
  <2>2. UserEffect
    BY <1>6, UsersUnchanged DEF AdminInv
  <2> QED BY <1>3, <1>6, <2>1, <2>2
<1> QED BY <1>4, <1>5, <1>6

\* A start: nothing is in flight, and the environment's admin is counted.
LEMMA BootKeeps ==
    ASSUME AdminInv, Boot
    PROVE  AdminInv' /\ BotEffect /\ UserEffect
<1> USE DEF AdminInv
<1>1. /\ BotEffect /\ TenantsStay
      /\ UserEffect /\ up' = TRUE /\ req' = req
      /\ EnvAdmin \in Admins' \/ (Admins' = Admins /\ hadAdmin' = hadAdmin)
  BY SeedKeeps, UpsertAdminKeeps, UsersUnchanged DEF Boot, BootAdmin
<1>2. UsersHomed'
  BY <1>1 DEF UsersHomed, UserEffect, Homed, TenantsStay
<1>3. RequestsOK'
  <2>1. \A r \in Requests : /\ Moves(r)
                            /\ req[r].at \notin {"form", "update", "delete_bot", "add_did", "remove_did"}
                                 => BotRequestOK(r)'
                            /\ UserRequestOK(r)'
    BY <1>1 DEF Moves, RequestsOK, BotRequestOK, UserRequestOK
  <2>2. ASSUME NEW r \in Requests, req[r].at = "form" PROVE BotRequestOK(r)'
    <3> DEFINE b == req[r].on
    <3>1. /\ BotRequestOK(r) /\ b \in Bots /\ bots[b].st # "none" /\ BotKept(b)
          /\ req[r].what \in Fields /\ req[r].seen \in BotRow
      BY <1>1, <2>2 DEF RequestsOK, BotRequestOK, BotEffect
    <3>2. /\ bots[b].version \in Nat /\ bots'[b].version \in Nat
          /\ bots[b].st \in {"none", "live", "deleted"} /\ req[r].seen.version \in Nat
      BY <1>1, <3>1 DEF BotEffect, BotTablesOK, BotRow
    <3>3. req[r].seen.version <= bots[b].version
      BY <2>2, <3>1 DEF BotRequestOK
    <3>4. ASSUME bots'[b].st = "live", req[r].seen.version = bots'[b].version
          PROVE  \A f \in Fields : req[r].seen.cfg[f] = bots'[b].cfg[f]
      <4>1. /\ bots[b].st = "live" /\ bots'[b].version = bots[b].version
            /\ bots'[b].cfg = bots[b].cfg
        BY <3>1, <3>2, <3>3, <3>4 DEF BotKept
      <4> QED BY <2>2, <3>1, <3>4, <4>1 DEF BotRequestOK, Live
    <3>5. req[r].seen.version <= bots'[b].version /\ bots'[b].st # "none"
      BY <3>1, <3>2, <3>3 DEF BotKept
    <3> QED BY <1>1, <2>2, <3>1, <3>4, <3>5 DEF BotRequestOK, Live
  <2>3. \A r \in Requests : req[r].at \in {"idle", "form", "done", "deleted"}
    BY DEF Boot, InFlight
  <2> QED BY <1>1, <2>1, <2>2, <2>3 DEF RequestsOK
<1>4. AdminsCounted'
  <2>2. IsFiniteSet({}) /\ Cardinality({}) = 0
    BY FS_EmptySet
  <2>3. \A r \in Requests : req'[r].at # "delete_user"
    BY <1>1 DEF Boot, InFlight
  <2> DEFINE N == Cardinality(Admins')
  <2> HIDE DEF N
  <2>5. CASE EnvAdmin \in Admins'
    <3>1. N \in Nat \ {0} /\ N = Cardinality(Admins')
      BY <2>5, AdminsFinite, FS_EmptySet DEF N
    <3> QED BY <2>2, <2>3, <3>1 DEF AdminsCounted
  <2>6. CASE Admins' = Admins /\ hadAdmin' = hadAdmin
    BY <1>1, <2>6 DEF AdminsCounted
  <2> QED BY <1>1, <2>5, <2>6
<1> QED BY <1>1, <1>2, <1>3, <1>4 DEF BotEffect, UserEffect

\* The process dies: the requests that it served are over.
LEMMA CrashKeeps ==
    ASSUME AdminInv, Crash
    PROVE  AdminInv' /\ BotEffect /\ UserEffect
<1> USE DEF AdminInv
<1>1. /\ BotEffect /\ UserEffect /\ up' = FALSE /\ UsersHomed'
      /\ Admins' = Admins /\ hadAdmin' = hadAdmin
  BY BotsUnchanged, UsersUnchanged DEF Crash, UsersHomed, botVars, userVars, Exists
<1>2. ASSUME NEW r \in Requests
      PROVE  /\ req'[r] \in RequestRow /\ (req'[r] = req[r] \/ req'[r].at = "done")
             /\ req'[r].at \in {"idle", "form", "done", "deleted"}
  <2>1. req[r] \in RequestRow
    BY DEF RequestsOK
  <2>2. \A row : row = [req[r] EXCEPT !.at = "done"] => row \in RequestRow /\ row.at = "done"
    BY <2>1 DEF RequestRow, Step
  <2>3. CASE InFlight(r)
    <3>1. req'[r] = [req[r] EXCEPT !.at = "done"]
      BY <2>3 DEF Crash
    <3> QED BY <2>2, <3>1
  <2>4. CASE ~InFlight(r)
    BY <2>1, <2>4 DEF Crash, InFlight
  <2> QED BY <2>3, <2>4
<1>3. RequestsOK'
  <2>1. DOMAIN req' = Requests /\ req' = [r \in Requests |-> req'[r]]
    BY DEF Crash
  <2>2. ASSUME NEW r \in Requests PROVE BotRequestOK(r)' /\ UserRequestOK(r)'
    BY <1>2 DEF RequestsOK, BotRequestOK, UserRequestOK, Live, Crash, botVars
  <2> QED BY <1>2, <2>1, <2>2 DEF RequestsOK
<1>4. AdminsCounted'
  <2> SUFFICES ASSUME hadAdmin PROVE AdminsCounted'
    BY <1>1 DEF AdminsCounted
  <2>1. PICK N \in Nat \ {0}, D \in SUBSET Requests :
          /\ IsFiniteSet(D)
          /\ \A s \in D : req[s].at = "deleted" /\ req[s].count \in 2 .. N
          /\ Cardinality(Admins) <= N
          /\ N <= Cardinality(Admins) + Cardinality(D)
    BY DEF AdminsCounted
  <2>2. \A s \in D : req'[s] = req[s]
    BY <2>1 DEF Crash, InFlight
  <2>3. \A s \in Requests : req'[s].at # "delete_user"
    BY <1>2
  <2> QED BY <1>1, <2>1, <2>2, <2>3 DEF AdminsCounted
<1> QED BY <1>1, <1>2, <1>3, <1>4 DEF BotEffect, UserEffect, InFlight

\* The database is empty or was left by an earlier start; nobody asks for anything.
LEMMA InitOK == Init => AdminInv
<1> SUFFICES ASSUME Init PROVE AdminInv
  OBVIOUS
<1> USE DEF Init
<1>1. Idle \in RequestRow
  BY DEF Idle, RequestRow, Step
<1>2. RequestsOK /\ \A r \in Requests : ~InFlight(r)
  BY <1>1 DEF RequestsOK, BotRequestOK, UserRequestOK, Idle, InFlight
<1>3. /\ NoBot \in BotRow /\ NewBot(Initially) \in BotRow
      /\ NoBot.st = "none" /\ NewBot(Initially).st = "live"
  BY DEF NoBot, NewBot, BotRow, Authors
<1>4. /\ NoUser \in UserRow /\ NoUser.role = "none"
      /\ \A role \in {"tenant_user", "platform_admin"} :
           NewUser(role, Initially) \in UserRow /\ NewUser(role, Initially).role = role
  BY DEF NoUser, NewUser, UserRow, Authors
<1>5. eval.by = None /\ eval.last = None
  BY DEF NoEval
<1>6. BotTablesOK /\ BotRowsWhole
  BY <1>3 DEF BotTablesOK, BotRowsWhole
<1>7. UserTablesOK /\ RolesFit
  <2>1. CASE users = [u \in Users |-> NoUser]
    BY <1>4, <1>5, <2>1 DEF UserTablesOK, RolesFit
  <2>2. CASE users = [u \in Users |->
                        NewUser(IF UserTenant[u] = None THEN "platform_admin" ELSE "tenant_user",
                                Initially)]
    <3>1. ASSUME NEW u \in Users
          PROVE  /\ users[u] \in UserRow
                 /\ users[u].role = IF UserTenant[u] = None THEN "platform_admin" ELSE "tenant_user"
      BY <1>4, <2>2
    <3>2. users \in [Users -> UserRow]
      BY <2>2, <3>1
    <3> QED BY <1>5, <3>1, <3>2 DEF UserTablesOK, RolesFit
  <2> QED BY <2>1, <2>2
<1>8. UsersHomed
  BY <1>4 DEF UsersHomed, Exists
<1>9. AdminsCounted
  <2> SUFFICES ASSUME hadAdmin PROVE AdminsCounted
    BY DEF AdminsCounted
  <2>1. EnvAdmin \in Admins
    BY <1>4 DEF Admins
  <2>2. Cardinality(Admins) \in Nat \ {0} /\ IsFiniteSet({}) /\ Cardinality({}) = 0
    BY <2>1, AdminsFinite, FS_EmptySet
  <2>3. \A r \in Requests : req[r].at # "delete_user"
    BY DEF Idle
  <2> DEFINE N == Cardinality(Admins)
  <2>4. N \in Nat \ {0} /\ N <= N /\ N <= N + Cardinality({}) /\ {} \in SUBSET Requests
    BY <2>2
  <2> HIDE DEF N
  <2>5. N = Cardinality(Admins)
    BY DEF N
  <2> QED BY <2>2, <2>3, <2>4, <2>5 DEF AdminsCounted
<1> QED BY <1>2, <1>5, <1>6, <1>7, <1>8, <1>9 DEF AdminInv, UsersOK, EvalWhole

\* Every step keeps the invariant, a bot's and a DID's history, and the users.
LEMMA StepKeeps ==
    ASSUME AdminInv, [Next]_vars
    PROVE  AdminInv' /\ BotEffect /\ UserEffect
<1>1. CASE Boot \/ Crash
  BY <1>1, BootKeeps, CrashKeeps
<1>2. CASE UNCHANGED vars
  <2>1. BotEffect /\ UserEffect
    BY <1>2, BotsUnchanged, UsersUnchanged DEF AdminInv, vars, botVars, userVars
  <2>2. AdminInv'
    <3> USE <1>2 DEF vars, botVars, userVars, Exists
    <3>1. BotTablesOK' /\ BotRowsWhole' /\ UsersHomed'
      BY DEF AdminInv, BotTablesOK, BotRowsWhole, UsersHomed
    <3>2. UsersOK'
      BY DEF AdminInv, UsersOK, UserTablesOK, RolesFit, EvalWhole
    <3>3. RequestsOK'
      BY DEF AdminInv, RequestsOK, BotRequestOK, UserRequestOK, Live
    <3>4. AdminsCounted'
      <4>1. UNCHANGED <<users, req, hadAdmin>> /\ AdminsCounted
        BY DEF AdminInv
      <4> QED BY <4>1 DEF AdminsCounted, Admins
    <3> QED BY <3>1, <3>2, <3>3, <3>4 DEF AdminInv, InFlight
  <2> QED BY <2>1, <2>2
<1>3. ASSUME up, UNCHANGED <<up, hadAdmin>>, NEW r \in Requests,
             \/ BotRequest(r) /\ UNCHANGED userVars
             \/ UserRequest(r) /\ UNCHANGED botVars
             \/ TenantRequest(r)
      PROVE  AdminInv' /\ BotEffect /\ UserEffect
  BY <1>3, RequestKeeps
<1> QED BY <1>1, <1>2, <1>3 DEF Next

\* So the invariant always holds.
LEMMA AdminInvHolds == Spec => []AdminInv
<1>1. AdminInv /\ [Next]_vars => AdminInv'
  BY StepKeeps
<1> QED BY InitOK, <1>1, PTL DEF Spec

---------------------------------------------------------------------------
(* The results.                                                              *)

\* Whoever overlaps with whom, every row refers to rows that exist; and the
\* last admin is lost to nothing but two deletions that counted the same
\* admins: N were there after the start, N deletions counted 2 to N of them,
\* so two of the counts are equal (users.go:200).
THEOREM AccountsSound == Spec => []AccountsAreSound
<1>1. ASSUME AdminInv PROVE AccountsAreSound
  <2> USE DEF AdminInv
  <2>1. RowsAreWhole
    BY <1>1 DEF RowsAreWhole, BotRowsWhole, UsersHomed, UsersOK, EvalWhole
  <2>2. LastAdminNeedsRace
    <3> SUFFICES ASSUME hadAdmin, Admins = {}
                 PROVE  \E r, s \in Requests : /\ r # s /\ req[r].at = "deleted"
                                               /\ req[s].at = "deleted"
                                               /\ req[r].count = req[s].count
      BY DEF LastAdminNeedsRace
    <3>1. PICK N \in Nat \ {0}, D \in SUBSET Requests :
            /\ IsFiniteSet(D)
            /\ \A s \in D : req[s].at = "deleted" /\ req[s].count \in 2 .. N
            /\ N <= Cardinality(Admins) + Cardinality(D)
      BY <1>1 DEF AdminsCounted
    <3>2. Cardinality(Admins) = 0
      BY FS_EmptySet
    <3>3. IsFiniteSet(2 .. N) /\ Cardinality(2 .. N) = N - 1
      BY <3>1, FS_Interval
    <3>4. Cardinality(D) \in Nat
      BY <3>1, FS_CardinalityType
    <3>5. Cardinality(2 .. N) < Cardinality(D)
      BY <3>1, <3>2, <3>3, <3>4
    <3>6. PICK f \in [D -> 2 .. N] : \A s \in D : f[s] = req[s].count
      <4>1. [s \in D |-> req[s].count] \in [D -> 2 .. N]
        BY <3>1
      <4> QED BY <4>1
    <3>7. PICK r \in D, s \in D : r # s /\ f[r] = f[s]
      BY <3>1, <3>3, <3>5, FS_PigeonHole
    <3> QED BY <3>1, <3>6, <3>7
  <2> QED BY <2>1, <2>2 DEF AccountsAreSound
<1> QED BY AdminInvHolds, <1>1, PTL

\* A write to a live bot changes the one field that its author edited.
LEMMA EditKept ==
    ASSUME AdminInv, [Next]_vars, NEW b \in Bots, NEW f \in Fields,
           Live(b), bots'[b].cfg[f] # bots[b].cfg[f]
    PROVE  \E r \in Requests : bots'[b].cfg[f] = r /\ req[r].what = f
<1>1. bots' # bots
  OBVIOUS
<1>2. ~Boot
  BY <1>1, SeedKeeps DEF AdminInv, Boot, botVars
<1>3. \A r \in Requests : ~TenantRequest(r)
  BY <1>1 DEF TenantRequest, DeleteTenant, botVars
<1>4. PICK r \in Requests : BotRequest(r)
  BY <1>1, <1>2, <1>3 DEF Next, Crash, vars, botVars
<1>5. BotTablesOK /\ BotRowsWhole /\ BotRequestOK(r) /\ req \in [Requests -> RequestRow]
  BY DEF AdminInv, RequestsOK
<1>6. CASE UpdateBot(r)
  BY <1>5, <1>6, UpdateBotKeeps
<1>7. CASE SoftDeleteBot(r)
  <2>1. bots[b] \in BotRow /\ \A c \in Bots : bots'[c].cfg = bots[c].cfg
    BY <1>5, <1>7 DEF SoftDeleteBot, BotTablesOK, BotRow
  <2> QED BY <2>1
<1>8. ASSUME NEW c \in Bots, CreateBot(r, c) PROVE FALSE
  <2>1. bots'[b] = bots[b]
    BY <1>5, <1>8 DEF CreateBot, BotTablesOK, Live
  <2> QED BY <2>1
<1> QED BY <1>1, <1>4, <1>6, <1>7, <1>8
     DEF BotRequest, SaveTenant, Look, OpenForm, SubmitForm, AddDID, RemoveDID, botVars

\* Two people who edit a bot at the same time never undo each other's edit.
THEOREM EditsAreKept == Spec => NoLostEdit
<1> DEFINE Kept == \A b \in Bots, f \in Fields :
                     Live(b) /\ bots'[b].cfg[f] # bots[b].cfg[f]
                       => \E r \in Requests : bots'[b].cfg[f] = r /\ req[r].what = f
<1>1. AdminInv /\ [Next]_vars => [Kept]_botVars
  BY EditKept
<1> QED BY AdminInvHolds, <1>1, PTL DEF Spec, NoLostEdit

\* Deleted bots, DIDs in use and the authors of evaluations stay.
THEOREM HistoryStays == Spec => HistoryIsKept
<1> DEFINE Final == \A b \in Bots : bots[b].st = "deleted" =>
                      /\ bots'[b].st = "deleted" /\ bots'[b].version = bots[b].version
                      /\ \A f \in Fields \ {"name"} : bots'[b].cfg[f] = bots[b].cfg[f]
           Mine == \A d \in Dids : dids[d] # None /\ dids'[d] # dids[d] => dids'[d] = None
           Author == eval.by # None => eval'.by = eval.by /\ \A u \in {eval'.by, eval'.last} :
                                         users'[u].role # "none"
<1>1. ASSUME AdminInv, [Next]_vars PROVE Final /\ Mine /\ Author
  <2>1. BotEffect /\ UserEffect
    BY <1>1, StepKeeps
  <2>2. Final
    BY <2>1 DEF BotEffect, BotKept
  <2>3. Mine
    BY <2>1 DEF BotEffect, DidKept
  <2>4. Author
    BY <2>1 DEF UserEffect, UsersOK, EvalWhole, Exists
  <2> QED BY <2>2, <2>3, <2>4
<1>2. AdminInv /\ [Next]_vars => [Final]_botVars /\ [Mine]_botVars /\ [Author]_userVars
  BY <1>1
<1> QED BY AdminInvHolds, <1>2, PTL
     DEF Spec, HistoryIsKept, DeletedBotIsFinal, DidsAreNotStolen, EvaluatorIsKept
=============================================================================
