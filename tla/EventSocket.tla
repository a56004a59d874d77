----------------------------- MODULE EventSocket ----------------------------
(* The two connections to FreeSWITCH (freeswitch/eventsocket.go): the one     *)
(* events are read from, kept up by maintainConnection, and the one commands  *)
(* are sent on, replaced by reconnectAPI after a command timed out.           *)
(* Connections are numbered in the order they are dialed.                     *)
EXTENDS Naturals, Sequences

CONSTANTS Commands,    \* callers of SendAPI or SendBgAPI, each sends one command
          Channels,    \* channels of FreeSWITCH, each parks and hangs up once
          MaxConns,    \* bound on connections dialed
          MaxBreaks,   \* bound on connections that break
          MaxFails     \* bound on dials, and on subscriptions on a working connection, that fail

None == "none"

\* None is who holds a free mutex, so it is nobody's name.
ASSUME SocketAssumption ==
    /\ MaxConns \in Nat /\ MaxBreaks \in Nat /\ MaxFails \in Nat
    /\ None \notin Commands

VARIABLES conn, apiConn,   \* es.conn and es.apiConn, 0 for nil
          open,            \* connections this side has not closed
          broken,          \* connections that broke
          owed,            \* commands FreeSWITCH has still to answer, per connection
          dialed, breaks, fails,
          at,              \* where maintainConnection is
          subscribed,      \* event names subscribed on conn
          reconnecting,    \* reconnectAPI goroutines
          pc, on, apiMu,   \* of each command: where it is and its c; who holds apiMu
          result,          \* whose answer a command returned
          channel,         \* "none", "parked", "gone" or "missed" (nobody was reading)
          via,             \* the connection its hangup was sent on
          queue,           \* events sent on conn and not read
          dispatched       \* events whose handlers were started

esVars  == <<conn, apiConn, at, subscribed, reconnecting>>
netVars == <<open, broken, owed, dialed, breaks, fails>>
cmdVars == <<pc, on, apiMu, result>>
evVars  == <<channel, via, queue, dispatched>>
vars == <<esVars, netVars, cmdVars, evVars>>

Conns == 1 .. MaxConns

Init ==
    /\ conn = 0 /\ apiConn = 0 /\ at = "dial" /\ subscribed = <<>> /\ reconnecting = 0
    /\ open = {} /\ broken = {} /\ owed = [i \in Conns |-> <<>>]
    /\ dialed = 0 /\ breaks = 0 /\ fails = 0
    /\ pc = [c \in Commands |-> "idle"] /\ on = [c \in Commands |-> 0]
    /\ apiMu = None /\ result = [c \in Commands |-> None]
    /\ channel = [ch \in Channels |-> "none"] /\ via = [ch \in Channels |-> 0]
    /\ queue = <<>> /\ dispatched = {}

Works(i) == i \in open \ broken

\* ---------------------------------------------------------------- connections

\* Both dials succeed: the fields are set, whatever reconnectAPI has put there.
Connect ==
    /\ at = "dial"
    /\ dialed + 2 <= MaxConns
    /\ dialed' = dialed + 2
    /\ open' = open \cup {dialed + 1, dialed + 2}
    /\ conn' = dialed + 1 /\ apiConn' = dialed + 2
    /\ at' = "subscribe" /\ subscribed' = <<>> /\ queue' = <<>>
    /\ UNCHANGED <<reconnecting, broken, owed, breaks, fails, cmdVars, channel, via, dispatched>>

\* One of them fails: nothing is kept, and it is tried again 5 s later.
ConnectFails ==
    /\ at = "dial"
    /\ fails < MaxFails
    /\ fails' = fails + 1
    /\ UNCHANGED <<esVars, open, broken, owed, dialed, breaks, cmdVars, evVars>>

\* The names subscribe sends, in its order, as far as this module handles them.
Subscriptions == <<"CHANNEL_PARK", "CHANNEL_HANGUP">>

\* A bug: the last name is left out.
Ready_OffByOne == Len(subscribed) >= Len(Subscriptions) - 1

Ready == Len(subscribed) = Len(Subscriptions)

Subscribe ==
    /\ at = "subscribe" /\ ~Ready
    /\ Works(conn)
    /\ subscribed' = Append(subscribed, Subscriptions[Len(subscribed) + 1])
    /\ UNCHANGED <<conn, apiConn, at, reconnecting, netVars, cmdVars, evVars>>

SubscribeDone ==
    /\ at = "subscribe" /\ Ready
    /\ at' = "read"
    /\ UNCHANGED <<conn, apiConn, subscribed, reconnecting, netVars, cmdVars, evVars>>

\* A Send fails, or its answer did not come in the library's 60 s: the two
\* connections dialed together are closed.
SubscribeFails ==
    /\ at = "subscribe" /\ ~Ready
    /\ IF Works(conn) THEN fails < MaxFails /\ fails' = fails + 1 ELSE UNCHANGED fails
    /\ open' = open \ {conn, conn + 1}
    /\ conn' = 0 /\ apiConn' = 0 /\ at' = "dial"
    /\ subscribed' = <<>> /\ queue' = <<>>
    /\ UNCHANGED <<reconnecting, broken, owed, dialed, breaks, cmdVars,
                   channel, via, dispatched>>

\* HandleEvents: every handler of the event gets a goroutine.
ReadEvent ==
    /\ at = "read" /\ queue # <<>>
    /\ dispatched' = dispatched \cup {Head(queue)}
    /\ queue' = Tail(queue)
    /\ UNCHANGED <<esVars, netVars, cmdVars, channel, via>>

\* ReadEvent fails, HandleEvents closes the connection and returns, and both
\* fields are reset.  What was not read is lost.
ConnectionLost ==
    /\ at = "read" /\ ~Works(conn)
    /\ open' = open \ {conn, apiConn}
    /\ conn' = 0 /\ apiConn' = 0 /\ at' = "dial"
    /\ subscribed' = <<>> /\ queue' = <<>>
    /\ UNCHANGED <<reconnecting, broken, owed, dialed, breaks, fails, cmdVars,
                   channel, via, dispatched>>

\* A bug: the new connection is always closed again.
Reconnected_Inverted(i) ==
    IF apiConn = 0 THEN UNCHANGED <<apiConn, open>>
    ELSE apiConn' = i /\ open' = open \cup {i}

\* reconnectAPI, when its dial has succeeded: closed again if another is there.
Reconnected(i) ==
    IF apiConn # 0 THEN UNCHANGED <<apiConn, open>>
    ELSE apiConn' = i /\ open' = open \cup {i}

ReconnectAPI ==
    /\ reconnecting > 0 /\ dialed < MaxConns
    /\ reconnecting' = reconnecting - 1 /\ dialed' = dialed + 1
    /\ Reconnected(dialed + 1)
    /\ UNCHANGED <<conn, at, subscribed, broken, owed, breaks, fails, cmdVars, evVars>>

\* There is no second attempt.
ReconnectFails ==
    /\ reconnecting > 0 /\ fails < MaxFails
    /\ reconnecting' = reconnecting - 1 /\ fails' = fails + 1
    /\ UNCHANGED <<conn, apiConn, at, subscribed, open, broken, owed, dialed, breaks,
                   cmdVars, evVars>>

\* ------------------------------------------------------------------- commands

Goto(c, where) == pc' = [pc EXCEPT ![c] = where]

Release == apiMu' = None

\* c := es.apiConn, under mu; nil is an error.
TakeConn(c, next) ==
    /\ pc[c] = "idle"
    /\ on' = [on EXCEPT ![c] = apiConn]
    /\ Goto(c, IF apiConn = 0 THEN "failed" ELSE next)
    /\ UNCHANGED <<esVars, netVars, apiMu, result, evVars>>

SendAPI(c) == TakeConn(c, "lock")

\* SendBgAPI and the first half of SendOriginate: only the library's 60 s bound
\* the wait for the reply to a bgapi, with its Job-UUID.
SendBgAPI(c) == TakeConn(c, "bglock")

\* With apiMu, the command is written; by now es.apiConn may be another one.
Send(c) ==
    /\ pc[c] \in {"lock", "bglock"} /\ apiMu = None
    /\ apiMu' = c /\ Goto(c, IF pc[c] = "lock" THEN "sent" ELSE "bgsent")
    /\ owed' = IF Works(on[c]) THEN [owed EXCEPT ![on[c]] = Append(@, c)] ELSE owed
    /\ UNCHANGED <<esVars, open, broken, dialed, breaks, fails, on, result, evVars>>

\* The next answer on the connection goes to the one who waits.
Answered(c) ==
    /\ pc[c] \in {"sent", "bgsent"} /\ Works(on[c]) /\ owed[on[c]] # <<>>
    /\ result' = [result EXCEPT ![c] = Head(owed[on[c]])]
    /\ owed' = [owed EXCEPT ![on[c]] = Tail(@)]
    /\ Goto(c, "done") /\ Release
    /\ UNCHANGED <<esVars, open, broken, dialed, breaks, fails, on, evVars>>

\* Send returns an error on a connection that broke or was closed; es.apiConn
\* keeps it.
SendFails(c) ==
    /\ pc[c] \in {"sent", "bgsent"} /\ ~Works(on[c])
    /\ Goto(c, "failed") /\ Release
    /\ UNCHANGED <<esVars, netVars, on, result, evVars>>

\* The library's Send of a bgapi times out after 60 s on a connection that
\* works: es.apiConn keeps it, and the reply to come with it.  (In SendAPI its
\* own 5 s are over before.)
GiveUp(c) ==
    /\ pc[c] = "bgsent" /\ Works(on[c])
    /\ Goto(c, "gaveUp") /\ Release
    /\ UNCHANGED <<esVars, netVars, on, result, evVars>>

\* A bug: the connection is left open, and the late answer with it.
Timeout_KeepsConnection(c) ==
    /\ pc[c] = "sent"
    /\ Goto(c, "late")
    /\ UNCHANGED <<esVars, netVars, on, apiMu, result, evVars>>

\* SendAPI has waited for 5 s: the connection is closed ...
Timeout(c) ==
    /\ pc[c] = "sent"
    /\ open' = open \ {on[c]}
    /\ Goto(c, "late")
    /\ UNCHANGED <<esVars, broken, owed, dialed, breaks, fails, on, apiMu, result, evVars>>

\* ... and es.apiConn is nil, also when it is not that connection any more.
Drop(c) ==
    /\ pc[c] = "late"
    /\ apiConn' = 0
    /\ reconnecting' = reconnecting + 1
    /\ Goto(c, "failed") /\ Release
    /\ UNCHANGED <<conn, at, subscribed, netVars, on, result, evVars>>

\* ----------------------------------------------------------------- FreeSWITCH

Break(i) ==
    /\ breaks < MaxBreaks /\ Works(i)
    /\ broken' = broken \cup {i} /\ breaks' = breaks + 1
    /\ UNCHANGED <<esVars, open, owed, dialed, fails, cmdVars, evVars>>

Publish(name, ch) ==
    queue' = IF Works(conn) /\ \E k \in DOMAIN subscribed : subscribed[k] = name
             THEN Append(queue, <<name, ch>>) ELSE queue

Park(ch) ==
    /\ channel[ch] = "none"
    /\ channel' = [channel EXCEPT ![ch] = "parked"]
    /\ Publish("CHANNEL_PARK", ch)
    /\ UNCHANGED <<esVars, netVars, cmdVars, via, dispatched>>

Hangup(ch) ==
    /\ channel[ch] = "parked"
    /\ IF at = "read" /\ Works(conn)
       THEN channel' = [channel EXCEPT ![ch] = "gone"] /\ via' = [via EXCEPT ![ch] = conn]
       ELSE channel' = [channel EXCEPT ![ch] = "missed"] /\ UNCHANGED via
    /\ Publish("CHANNEL_HANGUP", ch)
    /\ UNCHANGED <<esVars, netVars, cmdVars, dispatched>>

MaintainConnection ==
    Connect \/ Subscribe \/ SubscribeDone \/ SubscribeFails \/ ReadEvent \/ ConnectionLost

Returns(c) == SendFails(c) \/ GiveUp(c) \/ Timeout(c) \/ Drop(c)

Command(c) == SendAPI(c) \/ SendBgAPI(c) \/ Answered(c) \/ Returns(c)

Next ==
    \/ MaintainConnection \/ ConnectFails \/ ReconnectAPI \/ ReconnectFails
    \/ \E c \in Commands : Command(c) \/ Send(c)
    \/ \E i \in Conns : Break(i)
    \/ \E ch \in Channels : Park(ch) \/ Hangup(ch)

\* Goroutines are scheduled, timers fire and a mutex is handed on; a dial that
\* is repeated succeeds in the end.  FreeSWITCH may answer or not.
Fairness ==
    /\ WF_vars(MaintainConnection) /\ WF_vars(ReconnectAPI)
    /\ \A c \in Commands : WF_vars(Returns(c)) /\ SF_vars(Send(c))

Spec == Init /\ [][Next]_vars /\ Fairness

\* ----------------------------------------------------------------- properties

\* A command never returns the answer to an earlier SendAPI that timed out: its
\* connection is closed, also for those that have read es.apiConn before and
\* wait for the mutex (SendAPI's c.Close).  Only a bgapi given up leaves its
\* answer to the next one on the connection, and so on down the line: what is
\* returned was always asked for on that connection, and is returned once.
AnswersInLine ==
    \A c \in Commands : result[c] # None =>
        /\ on[result[c]] = on[c]
        /\ result[c] # c => \E b \in Commands : pc[b] = "gaveUp" /\ on[b] = on[c]
        /\ \A d \in Commands : result[d] = result[c] => d = c

\* A command always returns, by its answer, an error or a timeout, also when
\* the ones before it on apiMu are never answered; and the API connection comes
\* back after a timeout, unless the one attempt of reconnectAPI failed or dials
\* run out.
Recovered == apiConn \in open \/ fails = MaxFails \/ dialed + 2 > MaxConns
ApiComesBack ==
    /\ \A c \in Commands : (pc[c] # "idle") ~> (pc[c] \in {"done", "failed", "gaveUp"})
    /\ (apiConn \notin open) ~> Recovered

\* A hangup sent while both connections were ready reaches its handlers, or the
\* connection it was sent on broke before it was read: no timeout, reconnect or
\* subscription after that loses it.
HangupIsDelivered ==
    \A ch \in Channels :
        (channel[ch] = "gone") ~>
            (<<"CHANNEL_HANGUP", ch>> \in dispatched \/ via[ch] \in broken)

\* The hangup of a channel whose park was handled is handled, too: it is not
\* when the event connection is replaced in between, or not subscribed to it yet.
ParkedHangsUp ==
    \A ch \in Channels :
        (<<"CHANNEL_PARK", ch>> \in dispatched /\ channel[ch] \in {"gone", "missed"}) ~>
            (<<"CHANNEL_HANGUP", ch>> \in dispatched)

\* A command returns its own answer or none: not after a bgapi that waited for
\* 60 s on the same connection, whose late answer the next command reads.
AnswerIsMine == \A c \in Commands : result[c] \in {None, c}

\* A connection in use is closed before es.apiConn forgets it: it is not when a
\* command times out on a connection that was replaced while it waited.
NoneForgotten == open \subseteq {conn, apiConn}
=============================================================================
