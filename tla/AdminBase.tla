------------------------------ MODULE AdminBase -----------------------------
(* Requests of the admin API.  Every handler runs in a goroutine of its own   *)
(* and talks to the database in several statements; between two of them the   *)
(* other requests run, and the process may die.                               *)
EXTENDS Naturals, FiniteSets

CONSTANTS Requests,   \* requests, each made once
          Initially,  \* author of what was in the database before
          None

VARIABLE req  \* where each is, the row and the column or DID it is about,
              \* the row it saw and the number of admins it counted

Idle == [at |-> "idle", on |-> None, what |-> None,
         seen |-> None, count |-> 0]

Authors == Requests \cup {Initially}

InFlight(r) == req[r].at \notin {"idle", "form", "done", "deleted"}

Begin(r, at, on, what, count) ==
    /\ req[r] = Idle
    /\ req' = [req EXCEPT ![r] = [at |-> at, on |-> on, what |-> what,
                                  seen |-> None, count |-> count]]

Goto(r, at) == req' = [req EXCEPT ![r].at = at]
=============================================================================
