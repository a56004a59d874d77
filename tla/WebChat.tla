------------------------------- MODULE WebChat ------------------------------
(* The chat requests of one web session (api/web_chat.go).  The visitor may   *)
(* post the next message while an answer still streams, in another tab or     *)
(* after a retry: each request runs in a goroutine of its own, and the two    *)
(* AppendWebTurn transactions of each read MAX(idx) before they insert.       *)
EXTENDS WebStore

CONSTANTS Requests,     \* messages posted to the session
          First,        \* the one without a session id: it creates the session
          MaxChatFails  \* bound: database writes that fail

VARIABLES pc,      \* where each request is
          next,    \* the idx its transaction computed
          reply,   \* action of its answer
          known,   \* the browser has the X-Session-Id header
          dbFails  \* database writes that failed

reqVars  == <<pc, next, reply, known>>
chatVars == <<reqVars, dbFails>>

ChatIdle ==
    /\ pc = [r \in Requests |-> "new"]
    /\ next = [r \in Requests |-> 0]
    /\ reply = [r \in Requests |-> "none"]
    /\ known = FALSE /\ dbFails = 0

Goto(r, where) == pc' = [pc EXCEPT ![r] = where]

ChatTurn(r, role) == [idx |-> next[r], role |-> role, re |-> r, n |-> 0, wav |-> 0]

\* A statement that the database refuses.
DbRefuses ==
    /\ dbFails < MaxChatFails /\ dbFails' = dbFails + 1
    /\ UNCHANGED storeVars

\* Look the session up, or create it.
Post(r) ==
    /\ pc[r] = "new"
    /\ \/ /\ r = First /\ CreateWebSession /\ Goto(r, "user_select")
       \/ /\ r # First /\ known /\ UNCHANGED row /\ Goto(r, "user_select")
    /\ UNCHANGED <<turns, next, reply, known, dbFails>>

\* The bot client cannot be built: 500, and nothing is stored.
NoBotClient(r) ==
    /\ pc[r] = "user_select"
    /\ Goto(r, "done")
    /\ UNCHANGED <<storeVars, next, reply, known, dbFails>>

\* SELECT MAX(idx) + 1 of either transaction.
Select(r) ==
    /\ \/ pc[r] = "user_select" /\ Goto(r, "user_insert")
       \/ pc[r] = "bot_select" /\ Goto(r, "bot_insert")
    /\ next' = [next EXCEPT ![r] = NextIdx]
    /\ UNCHANGED <<storeVars, reply, known, dbFails>>

\* The user turn.  It fails when its idx is taken, and when the client has
\* left, which cancels the request's context.
InsertUser(r) ==
    /\ pc[r] = "user_insert"
    /\ \/ InsertTurn(ChatTurn(r, "user")) /\ Goto(r, "open") /\ UNCHANGED dbFails
       \/ Goto(r, "done") /\ UNCHANGED <<storeVars, dbFails>>
    /\ UNCHANGED <<next, reply, known>>

\* The bot stream opens and the headers go out, or the turn is an ERROR.
Open(r) ==
    /\ pc[r] = "open"
    /\ \/ /\ Goto(r, "streaming") /\ known' \in {known, TRUE}
          /\ UNCHANGED reply
       \/ /\ Goto(r, "bot_select") /\ reply' = [reply EXCEPT ![r] = "ERROR"]
          /\ UNCHANGED known
    /\ UNCHANGED <<storeVars, next, dbFails>>

\* The reply has been streamed, or the client left, or the stream failed: an
\* error without an action is stored as ERROR.
Streamed(r) ==
    /\ pc[r] = "streaming"
    /\ \E a \in {"CHAT", "ENDCALL", "ERROR"} : reply' = [reply EXCEPT ![r] = a]
    /\ Goto(r, "bot_select")
    /\ UNCHANGED <<storeVars, next, known, dbFails>>

\* A bug: the insert uses the request's context, gone with the client.
InsertBot_OnRequestContext(r) ==
    /\ pc[r] = "bot_insert"
    /\ \/ InsertTurn(ChatTurn(r, "bot")) /\ UNCHANGED dbFails
       \/ UNCHANGED <<storeVars, dbFails>>
    /\ Goto(r, IF reply[r] = "ENDCALL" THEN "end" ELSE "done")
    /\ UNCHANGED <<next, reply, known>>

\* The bot turn, on a context of its own; a failure is not reported.
InsertBot(r) ==
    /\ pc[r] = "bot_insert"
    /\ Goto(r, IF reply[r] = "ENDCALL" THEN "end" ELSE "done")
    /\ \/ InsertTurn(ChatTurn(r, "bot")) /\ UNCHANGED dbFails
       \/ Taken(next[r]) /\ UNCHANGED <<storeVars, dbFails>>
       \/ DbRefuses
    /\ UNCHANGED <<next, reply, known>>

EndChat(r) ==
    /\ pc[r] = "end"
    /\ Goto(r, "done")
    /\ \/ EndWebSession("ended", NoError) /\ UNCHANGED <<turns, dbFails>>
       \/ DbRefuses
    /\ UNCHANGED <<next, reply, known>>

ChatNext ==
    \E r \in Requests :
        \/ Post(r) \/ NoBotClient(r) \/ Select(r) \/ InsertUser(r) \/ Open(r)
        \/ Streamed(r) \/ InsertBot(r) \/ EndChat(r)

\* ---------------------------------------------------------------- properties

StoredBy(r, role) == \E t \in turns : t.re = r /\ t.role = role

\* "Persist user turn upfront so even an aborted bot stream leaves a trace"
\* (web_chat.go:99), and the partial answer too (:113): once a request whose
\* message is stored is over, its answer is stored after the message; only a
\* refused write loses it, or another request that took its idx.
AnswerIsRecorded ==
    \A r \in Requests : pc[r] = "done" /\ StoredBy(r, "user") =>
        \/ \E q, a \in turns : /\ q.re = r /\ q.role = "user"
                               /\ a.re = r /\ a.role = "bot" /\ q.idx < a.idx
        \/ \E t \in turns : t.idx = next[r] /\ t.re # r
        \/ dbFails > 0

\* A chat that the bot ended is shown as completed, whatever other requests
\* of the session still do (web_chat.go:188).
EndedChatIsComplete ==
    dbFails = 0 => \A r \in Requests :
        pc[r] = "done" /\ reply[r] = "ENDCALL" => row.ended /\ row.status = "ended"

\* What QC reads of a chat: its turns, and that it is over.
ChatIsKept == AnswerIsRecorded /\ EndedChatIsComplete
=============================================================================
