------------------------------ MODULE WebStore ------------------------------
(* The rows one web session leaves in the database (store/web_sessions.go):   *)
(* the web_session row and its web_turn rows.  The table has a UNIQUE         *)
(* constraint on (session_id, idx), which is what makes an insert fail when   *)
(* two transactions computed the same idx.                                    *)
EXTENDS Naturals, FiniteSets, FiniteSetsExt

NoError == "none"

VARIABLES row,    \* [status, ended, error, total] of the web_session
          turns   \* its web_turn rows: records with an idx, a role and more

storeVars == <<row, turns>>

NoRow == [status |-> "none", ended |-> FALSE, error |-> NoError, total |-> 0]

CreateWebSession == row' = [NoRow EXCEPT !.status = "active"]

\* ended_at is stamped once, status and error_message by every call.
EndWebSession(status, error) ==
    row' = [row EXCEPT !.ended = TRUE, !.status = status, !.error = error]

\* SELECT COALESCE(MAX(idx),0)+1
NextIdx == 1 + Max({t.idx : t \in turns} \cup {0})

\* A bug: the migration without the constraint.
Taken_NoConstraint(i) == FALSE

\* UNIQUE (session_id, idx)
Taken(i) == \E t \in turns : t.idx = i

\* A bug: ON CONFLICT (session_id, idx) DO UPDATE.
InsertTurn_Overwrites(t) ==
    /\ turns' = {s \in turns : s.idx # t.idx} \cup {t}
    /\ row' = [row EXCEPT !.total = Cardinality(turns')]

\* INSERT, then total_turns = COUNT(*), then COMMIT: other transactions see
\* the three at once.
InsertTurn(t) ==
    /\ ~Taken(t.idx)
    /\ turns' = turns \cup {t}
    /\ row' = [row EXCEPT !.total = Cardinality(turns')]

\* GetWebSession: what a reader sees of the turns, ORDER BY idx.
RowAt(i) == CHOOSE t \in turns : t.idx = i
Log == [i \in 1 .. Cardinality(turns) |-> [role |-> RowAt(i).role, re |-> RowAt(i).re]]

\* What the QC screen relies on: the turns of a session are numbered from 1
\* without a gap or a repetition and total_turns counts them, whatever
\* requests appended concurrently (comment at web_sessions.go:104).
TurnsAreNumbered ==
    /\ {t.idx : t \in turns} = 1 .. Cardinality(turns)
    /\ row.total = Cardinality(turns)
=============================================================================
