------------------------------ MODULE AdminBots -----------------------------
(* Tenants, bots and inbound DIDs (api/bots.go, api/tenants.go and their      *)
(* tables in store/).  A bot stands for its (tenant, slug): the pair is       *)
(* UNIQUE, also for deleted bots.                                             *)
EXTENDS AdminBase

CONSTANTS Tenants, Bots, Dids,
          TenantOf,             \* tenant of each bot
          SeedBot, SeedDid      \* of the environment's legacy configuration

VARIABLES tenants,  \* "none", "on" or "off"
          bots,     \* rows of bots
          dids      \* bot_inbound_dids: the bot of each DID, or None

botVars == <<tenants, bots, dids>>

Fields == {"name", "url", "token"}

\* What a form carries: the API masks the tokens, so they are not in it.
FormFields == {"name", "url"}

NoBot == [st |-> "none", version |-> 0, cfg |-> [f \in Fields |-> Initially]]

NewBot(author) == [st |-> "live", version |-> 1, cfg |-> [f \in Fields |-> author]]

\* GetBotByID
Live(b) == bots[b].st = "live"

\* ------------------------------------------------------------------- tenants

SaveTenant(r, t, st) ==
    /\ Begin(r, "done", t, None, 0)
    /\ IF tenants[t] = "none" /\ st = "off" THEN UNCHANGED tenants
       ELSE tenants' = [tenants EXCEPT ![t] = st]
    /\ UNCHANGED <<bots, dids>>

\* The foreign keys of bots (deleted ones too) and users are RESTRICT.
TenantUsed(t) == \E b \in Bots : TenantOf[b] = t /\ bots[b].st # "none"

DeleteTenant(r, t, byUsers) ==
    /\ Begin(r, "done", t, None, 0)
    /\ tenants' = [tenants EXCEPT ![t] = IF TenantUsed(t) \/ byUsers THEN @ ELSE "none"]
    /\ UNCHANGED <<bots, dids>>

\* ---------------------------------------------------------------------- bots

CreateBot(r, b) ==
    /\ Begin(r, "done", b, None, 0)
    /\ bots' = [bots EXCEPT ![b] =
                  IF @.st = "none" /\ tenants[TenantOf[b]] # "none" THEN NewBot(r) ELSE @]
    /\ UNCHANGED <<tenants, dids>>

\* The browser loads a bot into its form, and the user edits one field.
OpenForm(r, b, f) ==
    /\ Live(b)
    /\ req[r] = Idle
    /\ req' = [req EXCEPT ![r] = [at |-> "form", on |-> b, what |-> f,
                                  seen |-> bots[b], count |-> 0]]
    /\ UNCHANGED botVars

\* update: the handler looks the bot up ...
SubmitForm(r) ==
    /\ req[r].at = "form"
    /\ Goto(r, IF Live(req[r].on) THEN "update" ELSE "done")
    /\ UNCHANGED botVars

\* toWriteInput: the whole record as the form shows it; a token only if it
\* was typed in anew.  Left out: its defaults for values that are zero, and
\* edits of the slug, which stands for the bot here.
Submitted(r, b) ==
    [f \in Fields |-> IF f = req[r].what THEN r
                      ELSE IF f \in FormFields THEN req[r].seen.cfg[f]
                      ELSE bots[b].cfg[f]]

\* A bug: the last one to save wins.
Matches_AnyVersion(b, version) == Live(b)

\* A bug: a deleted bot is still updated.
Matches_Deleted(b, version) == bots[b].version = version

\* WHERE id = $29 AND version = $30 AND deleted_at IS NULL
Matches(b, version) == bots[b].version = version /\ Live(b)

UpdateBot(r) ==
    LET b == req[r].on IN
    /\ req[r].at = "update"
    /\ bots' = IF Matches(b, req[r].seen.version)
               THEN [bots EXCEPT ![b].cfg = Submitted(r, b), ![b].version = @ + 1]
               ELSE bots
    /\ Goto(r, "done")
    /\ UNCHANGED <<tenants, dids>>

\* delete, addDID and removeDID look the bot up first.
Look(r, op, b, d) ==
    /\ Begin(r, IF Live(b) THEN op ELSE "done", b, d, 0)
    /\ UNCHANGED botVars

SoftDeleteBot(r) ==
    /\ req[r].at = "delete_bot"
    /\ bots' = [bots EXCEPT ![req[r].on].st = "deleted"]
    /\ Goto(r, "done")
    /\ UNCHANGED <<tenants, dids>>

\* did is the primary key: a DID of another bot, deleted or not, is taken.
DidFree(d) == dids[d] = None

AddDID(r) ==
    /\ req[r].at = "add_did"
    /\ dids' = [dids EXCEPT ![req[r].what] = IF DidFree(req[r].what) THEN req[r].on ELSE @]
    /\ Goto(r, "done")
    /\ UNCHANGED <<tenants, bots>>

\* DELETE ... WHERE did = $1, whichever bot it is mapped to by now.
RemoveDID(r) ==
    /\ req[r].at = "remove_did"
    /\ dids' = [dids EXCEPT ![req[r].what] = None]
    /\ Goto(r, "done")
    /\ UNCHANGED <<tenants, bots>>

BotRequest(r) ==
    \/ \E t \in Tenants, st \in {"on", "off"} : SaveTenant(r, t, st)
    \/ \E b \in Bots : CreateBot(r, b) \/ Look(r, "delete_bot", b, None)
    \/ \E b \in Bots, f \in Fields : OpenForm(r, b, f)
    \/ \E b \in Bots, d \in Dids : Look(r, "add_did", b, d) \/ Look(r, "remove_did", b, d)
    \/ SubmitForm(r) \/ UpdateBot(r) \/ SoftDeleteBot(r) \/ AddDID(r) \/ RemoveDID(r)

\* --------------------------------------------------------------- at startup

\* main seeds a default when no bot is live.  ON CONFLICT leaves an existing
\* row as it is (but for its name), a deleted one deleted; the DID only if the
\* environment names one.
SeedDefaultBot(withDid) ==
    IF \E b \in Bots : Live(b) THEN UNCHANGED botVars
    ELSE /\ tenants' = [tenants EXCEPT ![TenantOf[SeedBot]] = IF @ = "none" THEN "on" ELSE @]
         /\ bots' = [bots EXCEPT ![SeedBot] =
                       IF @.st = "none" THEN NewBot(Initially)
                       ELSE [@ EXCEPT !.cfg["name"] = Initially]]
         /\ dids' = [dids EXCEPT ![SeedDid] = IF withDid /\ @ = None THEN SeedBot ELSE @]

\* ---------------------------------------------------------------- properties

\* Two people who edit a bot at the same time never undo each other's edit,
\* and nobody who saves a form wipes a token it does not show: a write changes
\* the one field its author edited (optimistic version, bots.go:290).
NoLostEdit ==
    [][\A b \in Bots, f \in Fields :
         Live(b) /\ bots'[b].cfg[f] # bots[b].cfg[f]
           => \E r \in Requests : bots'[b].cfg[f] = r /\ req[r].what = f]_botVars

\* A deleted bot stays deleted and keeps the configuration its call history
\* refers to: no request that looked it up before changes it afterwards.
DeletedBotIsFinal ==
    [][\A b \in Bots : bots[b].st = "deleted" =>
         /\ bots'[b].st = "deleted" /\ bots'[b].version = bots[b].version
         /\ \A f \in Fields \ {"name"} : bots'[b].cfg[f] = bots[b].cfg[f]]_botVars

\* A DID in use is never taken over: it goes to another bot only after a
\* request removed it (AddDID's ErrDIDTaken, and the seed's DO NOTHING).
DidsAreNotStolen ==
    [][\A d \in Dids : dids[d] # None /\ dids'[d] # dids[d] => dids'[d] = None]_botVars
=============================================================================
