------------------------- MODULE EventSocketProofs --------------------------
(* Answers go down the line of commands and to each once, for any number of   *)
(* commands, channels, connections, breaks and failed dials.                  *)
EXTENDS EventSocket, TLAPS

USE SocketAssumption

CommandPc == {"idle", "lock", "bglock", "sent", "bgsent", "late", "done", "failed", "gaveUp"}
Waiting == {"sent", "bgsent"}
Unsent == {"idle", "lock", "bglock"}

\* The commands of a line, and that each stands in it once.
In(s) == {s[k] : k \in 1 .. Len(s)}
Once(s) == \A j, k \in 1 .. Len(s) : s[j] = s[k] => j = k

\* Connections are used only after they were dialed.
SocketTypeOK ==
    /\ dialed \in 0 .. MaxConns
    /\ apiConn \in 0 .. dialed /\ conn \in 0 .. dialed
    /\ open \subseteq 1 .. dialed
    /\ owed \in [Conns -> Seq(Commands)]
    /\ pc \in [Commands -> CommandPc]
    /\ on \in [Commands -> 0 .. dialed]
    /\ apiMu \in Commands \cup {None}
    /\ result \in [Commands -> Commands \cup {None}]

\* A command holds the mutex from its write to its return.
HolderWaits ==
    \A c \in Commands : pc[c] \in Waiting \cup {"late"} <=> apiMu = c

\* What a connection owes was written to it, is owed once and was not returned.
OwedOnce ==
    \A i \in Conns :
        /\ Once(owed[i])
        /\ \A b \in In(owed[i]) : /\ pc[b] \notin Unsent /\ on[b] = i
                                  /\ \A c \in Commands : result[c] # b

GivenUp(i) == \E b \in Commands : pc[b] = "gaveUp" /\ on[b] = i

\* A connection that works, and on which no bgapi was given up, owes an answer to
\* nobody but the one command that waits: a timeout of SendAPI leaves its answer
\* on a connection that it closed, and a failed Send on one that broke.
OwedToHolder ==
    \A i \in Conns : Works(i) /\ ~GivenUp(i) =>
        \A b \in In(owed[i]) : pc[b] \in Waiting

\* Who returned an answer is done, and it answers a command that was written.
Returned ==
    \A c \in Commands : result[c] # None =>
        pc[c] = "done" /\ pc[result[c]] \notin Unsent

SocketInv ==
    SocketTypeOK /\ HolderWaits /\ OwedOnce /\ OwedToHolder /\ Returned /\ AnswersInLine

\* Who joins the line at its end stands in it with the others.
LEMMA LineJoined ==
    ASSUME NEW s \in Seq(Commands), NEW c \in Commands, Once(s), c \notin In(s)
    PROVE  In(Append(s, c)) = In(s) \cup {c} /\ Once(Append(s, c))
<1> DEFINE t == Append(s, c)
<1>1. /\ Len(s) \in Nat /\ Len(t) = Len(s) + 1 /\ t[Len(s) + 1] = c
      /\ \A k \in 1 .. Len(s) : t[k] = s[k]
  OBVIOUS
<1>2. \A k \in 1 .. Len(t) : k = Len(s) + 1 \/ k \in 1 .. Len(s)
  BY <1>1
<1>3. \A k \in 1 .. Len(s) : k \in 1 .. Len(t)
  BY <1>1
<1>4. Len(s) + 1 \in 1 .. Len(t)
  BY <1>1
<1> HIDE DEF t
<1> QED BY <1>1, <1>2, <1>3, <1>4 DEF In, Once

\* Without its first one the line holds the others.
LEMMA LineLeft ==
    ASSUME NEW s \in Seq(Commands), s # <<>>, Once(s)
    PROVE  /\ Head(s) \in In(s) /\ Once(Tail(s))
           /\ In(Tail(s)) = In(s) \ {Head(s)}
<1> DEFINE t == Tail(s)
<1>1. /\ Len(s) \in Nat /\ Len(t) = Len(s) - 1 /\ Head(s) = s[1] /\ 1 \in 1 .. Len(s)
      /\ \A k \in 1 .. Len(t) : t[k] = s[k + 1]
  OBVIOUS
<1>2. \A k \in 1 .. Len(t) : k \in Nat /\ k >= 1 /\ k + 1 \in 1 .. Len(s)
  BY <1>1
<1>3. \A m \in 1 .. Len(s) : m # 1 => m - 1 \in 1 .. Len(t) /\ t[m - 1] = s[m]
  BY <1>1
<1> HIDE DEF t
<1>4. Once(t)
  <2> SUFFICES ASSUME NEW j \in 1 .. Len(t), NEW k \in 1 .. Len(t), t[j] = t[k]
               PROVE  j = k
    BY DEF Once
  <2>1. s[j + 1] = s[k + 1]
    BY <1>1
  <2>2. j + 1 = k + 1
    BY <1>2, <2>1 DEF Once
  <2> QED BY <1>2, <2>2
<1>5. In(t) \subseteq In(s) \ {Head(s)}
  <2> SUFFICES ASSUME NEW k \in 1 .. Len(t)
               PROVE  t[k] \in In(s) \ {Head(s)}
    BY DEF In
  <2>1. t[k] = s[k + 1] /\ k + 1 \in 1 .. Len(s) /\ k + 1 # 1
    BY <1>1, <1>2
  <2> QED BY <1>1, <2>1 DEF In, Once
<1>6. In(s) \ {Head(s)} \subseteq In(t)
  <2> SUFFICES ASSUME NEW m \in 1 .. Len(s), s[m] # Head(s)
               PROVE  s[m] \in In(t)
    BY DEF In
  <2>1. m - 1 \in 1 .. Len(t) /\ t[m - 1] = s[m]
    BY <1>1, <1>3
  <2> QED BY <2>1 DEF In
<1> QED BY <1>1, <1>4, <1>5, <1>6 DEF t, In

\* At first nothing is dialed, sent or owed.
LEMMA SocketInitInv == Init => SocketInv
<1> SUFFICES ASSUME Init PROVE SocketInv
  OBVIOUS
<1> USE DEF Init
<1>1. SocketTypeOK
  BY DEF SocketTypeOK, CommandPc, Conns
<1>2. HolderWaits
  BY DEF HolderWaits, Waiting
<1>3. OwedOnce /\ OwedToHolder
  BY DEF OwedOnce, OwedToHolder, In, Once, Conns
<1>4. Returned /\ AnswersInLine
  BY DEF Returned, AnswersInLine
<1> QED BY <1>1, <1>2, <1>3, <1>4 DEF SocketInv

\* Dialing gives connections with new numbers, closing and breaking take some
\* away: what a connection that works owes stays as it was.
LEMMA ConnectionKeeps ==
    ASSUME SocketInv,
           \/ MaintainConnection \/ ConnectFails \/ ReconnectAPI \/ ReconnectFails
           \/ \E i \in Conns : Break(i)
           \/ \E ch \in Channels : Park(ch) \/ Hangup(ch)
    PROVE  SocketInv'
<1>1. /\ UNCHANGED <<cmdVars, owed>>
      /\ dialed' \in dialed .. MaxConns
      /\ apiConn' \in 0 .. dialed' /\ conn' \in 0 .. dialed'
      /\ open' \subseteq open \cup (dialed + 1 .. dialed')
      /\ broken \subseteq broken'
  <2> USE DEF SocketInv, SocketTypeOK
  <2>1. CASE Connect
    BY <2>1 DEF Connect
  <2>2. CASE Subscribe \/ SubscribeDone \/ SubscribeFails \/ ReadEvent \/ ConnectionLost
    BY <2>2 DEF Subscribe, SubscribeDone, SubscribeFails, ReadEvent, ConnectionLost,
       netVars, esVars
  <2>3. CASE ConnectFails \/ ReconnectFails
    BY <2>3 DEF ConnectFails, ReconnectFails, esVars
  <2>4. CASE ReconnectAPI
    BY <2>4 DEF ReconnectAPI, Reconnected
  <2>5. CASE \E i \in Conns : Break(i)
    BY <2>5 DEF Break, esVars
  <2>6. CASE \E ch \in Channels : Park(ch) \/ Hangup(ch)
    BY <2>6 DEF Park, Hangup, esVars, netVars
  <2> QED BY <2>1, <2>2, <2>3, <2>4, <2>5, <2>6 DEF MaintainConnection
<1>2. SocketTypeOK'
  BY <1>1 DEF SocketInv, SocketTypeOK, cmdVars
<1>3. HolderWaits' /\ OwedOnce' /\ Returned' /\ AnswersInLine'
  BY <1>1 DEF SocketInv, HolderWaits, OwedOnce, Returned, AnswersInLine, cmdVars
<1>4. OwedToHolder'
  <2> SUFFICES ASSUME NEW i \in Conns, NEW b \in In(owed[i])
               PROVE  Works(i)' => Works(i)
    BY <1>1 DEF SocketInv, OwedToHolder, GivenUp, cmdVars
  <2>1. b \in Commands /\ on[b] = i
    BY DEF SocketInv, SocketTypeOK, OwedOnce, In
  <2>2. i <= dialed
    BY <2>1 DEF SocketInv, SocketTypeOK, Conns
  <2> QED BY <1>1, <2>2 DEF Works, Conns, SocketInv, SocketTypeOK
<1> QED BY <1>2, <1>3, <1>4 DEF SocketInv

\* A command that writes nothing and reads nothing keeps the line, if it lets go
\* of the mutex only with its wait over and leaves no answer on a connection
\* that works, other than by giving up.
LEMMA LineKeeps ==
    ASSUME SocketInv, NEW c \in Commands, NEW p \in CommandPc,
           pc' = [pc EXCEPT ![c] = p],
           UNCHANGED <<owed, on, result, broken, dialed>>,
           open' \subseteq open,
           pc[c] \notin Unsent /\ p \notin Unsent,
           pc[c] \notin {"gaveUp", "done"},
           p = "gaveUp" \/ ~Works(on[c])'
    PROVE  OwedOnce' /\ OwedToHolder' /\ Returned' /\ AnswersInLine'
<1> USE DEF SocketInv, SocketTypeOK
<1>1. \A i \in Conns : In(owed[i]) \subseteq Commands
  BY DEF In
<1>2. OwedOnce'
  BY <1>1 DEF OwedOnce
<1>3. OwedToHolder'
  <2> SUFFICES ASSUME NEW i \in Conns, Works(i)', ~GivenUp(i)', NEW b \in In(owed[i])
               PROVE  pc'[b] \in Waiting
    BY DEF OwedToHolder
  <2>1. b \in Commands /\ on[b] = i
    BY <1>1 DEF OwedOnce
  <2>2. Works(i) /\ pc[b] \in Waiting
    BY DEF Works, OwedToHolder, GivenUp
  <2>3. b # c
    BY <2>1 DEF GivenUp, CommandPc
  <2> QED BY <2>1, <2>2, <2>3
<1>4. Returned' /\ AnswersInLine'
  BY DEF Returned, AnswersInLine
<1> QED BY <1>2, <1>3, <1>4

\* The mutex orders the commands: without a bgapi given up each finds a
\* connection without old answers.
LEMMA CommandKeeps ==
    ASSUME SocketInv, NEW c \in Commands, Command(c) \/ Send(c)
    PROVE  SocketInv'
<1> USE DEF SocketInv, SocketTypeOK, HolderWaits,
            Waiting, Unsent, CommandPc, Goto, Release, esVars, netVars, cmdVars, evVars
<1>0. \A i \in Conns : In(owed[i]) \subseteq Commands
  BY DEF In
<1>1. CASE SendAPI(c) \/ SendBgAPI(c)
  <2>1. /\ UNCHANGED <<conn, apiConn, netVars, apiMu, result>>
        /\ pc[c] = "idle" /\ on' = [on EXCEPT ![c] = apiConn]
        /\ \E p \in {"lock", "bglock", "failed"} : pc' = [pc EXCEPT ![c] = p]
    BY <1>1 DEF SendAPI, SendBgAPI, TakeConn
  <2>2. SocketTypeOK' /\ HolderWaits'
    BY <2>1
  <2>3. OwedOnce'
    BY <1>0, <2>1 DEF OwedOnce
  <2>4. \A i : GivenUp(i) => GivenUp(i)'
    BY <2>1 DEF GivenUp
  <2>5. OwedToHolder'
    BY <1>0, <2>1, <2>4 DEF OwedToHolder, OwedOnce, Works
  <2>6. Returned' /\ AnswersInLine'
    BY <2>1 DEF Returned, AnswersInLine
  <2> QED BY <2>2, <2>3, <2>5, <2>6
<1>2. CASE Send(c)
  <2>1. /\ pc[c] \in {"lock", "bglock"} /\ apiMu = None /\ apiMu' = c
        /\ \E p \in Waiting : pc' = [pc EXCEPT ![c] = p]
        /\ UNCHANGED <<conn, apiConn, open, broken, dialed, on, result>>
    BY <1>2 DEF Send
  <2>2. HolderWaits' /\ Returned' /\ AnswersInLine'
    BY <2>1 DEF Returned, AnswersInLine
  <2>3. \A i : GivenUp(i) => GivenUp(i)'
    BY <2>1 DEF GivenUp
  <2>4. CASE Works(on[c])
    <3> DEFINE h == on[c]
    <3>1. h \in Conns
      BY <2>4 DEF Works, Conns
    <3>2. owed' = [owed EXCEPT ![h] = Append(owed[h], c)]
      BY <1>2, <2>4 DEF Send
    <3>3. SocketTypeOK'
      BY <2>1, <3>1, <3>2
    <3>4. c \notin In(owed[h]) /\ \A d \in Commands : result[d] # c
      BY <2>1, <3>1 DEF OwedOnce, Returned
    <3>5. In(owed'[h]) = In(owed[h]) \cup {c} /\ Once(owed'[h])
      <4>1. owed[h] \in Seq(Commands) /\ Once(owed[h])
        BY <3>1 DEF OwedOnce
      <4>2. owed'[h] = Append(owed[h], c)
        BY <3>1, <3>2
      <4> QED BY <3>4, <4>1, <4>2, LineJoined
    <3>6. \A i \in Conns : i # h => owed'[i] = owed[i]
      BY <3>2
    <3>7. OwedOnce'
      <4> SUFFICES ASSUME NEW i \in Conns
                   PROVE  /\ Once(owed'[i])
                          /\ \A b \in In(owed'[i]) :
                               /\ pc'[b] \notin Unsent /\ on[b] = i
                               /\ \A d \in Commands : result[d] # b
        BY <2>1 DEF OwedOnce
      <4>1. CASE i # h
        BY <1>0, <2>1, <3>6, <4>1 DEF OwedOnce
      <4>2. CASE i = h
        BY <1>0, <2>1, <3>1, <3>4, <3>5, <4>2 DEF OwedOnce
      <4> QED BY <4>1, <4>2
    <3>8. OwedToHolder'
      <4> SUFFICES ASSUME NEW i \in Conns, Works(i)', ~GivenUp(i)', NEW b \in In(owed'[i])
                   PROVE  pc'[b] \in Waiting
        BY DEF OwedToHolder
      <4>1. \A d \in In(owed[i]) : pc[d] \in Waiting /\ apiMu = d
        BY <1>0, <2>1, <2>3 DEF OwedToHolder, Works
      <4>2. In(owed[i]) = {}
        BY <1>0, <2>1, <4>1
      <4>3. b = c
        BY <3>5, <3>6, <4>2
      <4> QED BY <2>1, <4>3
    <3> QED BY <2>2, <3>3, <3>7, <3>8
  <2>5. CASE ~Works(on[c])
    <3>1. UNCHANGED owed
      BY <1>2, <2>5 DEF Send
    <3>2. SocketTypeOK' /\ OwedOnce'
      BY <1>0, <2>1, <3>1 DEF OwedOnce
    <3>3. OwedToHolder'
      BY <1>0, <2>1, <2>3, <3>1 DEF OwedToHolder, OwedOnce, Works
    <3> QED BY <2>2, <3>2, <3>3
  <2> QED BY <2>4, <2>5
<1>3. CASE Answered(c)
  <2> DEFINE h == on[c]
             b == Head(owed[h])
  <2>1. /\ pc[c] \in Waiting /\ Works(h) /\ owed[h] # <<>>
        /\ result' = [result EXCEPT ![c] = b]
        /\ owed' = [owed EXCEPT ![h] = Tail(@)]
        /\ pc' = [pc EXCEPT ![c] = "done"] /\ apiMu' = None
        /\ UNCHANGED <<conn, apiConn, open, broken, dialed, on>>
    BY <1>3 DEF Answered
  <2>2. h \in Conns /\ apiMu = c
    BY <2>1 DEF Works, Conns
  <2>3. /\ b \in In(owed[h]) /\ b \in Commands
        /\ Once(owed'[h]) /\ In(owed'[h]) = In(owed[h]) \ {b}
        /\ \A i \in Conns : i # h => owed'[i] = owed[i]
        /\ owed'[h] \in Seq(Commands)
    <3>1. owed[h] \in Seq(Commands) /\ Once(owed[h])
      BY <2>2 DEF OwedOnce
    <3>2. owed'[h] = Tail(owed[h]) /\ \A i \in Conns : i # h => owed'[i] = owed[i]
      BY <2>1, <2>2
    <3>3. Tail(owed[h]) \in Seq(Commands)
      BY <2>1, <3>1
    <3> QED BY <1>0, <2>1, <2>2, <3>1, <3>2, <3>3, LineLeft
  <2>4. /\ pc[b] \notin Unsent /\ on[b] = h
        /\ \A d \in Commands : result[d] # b
    BY <2>2, <2>3 DEF OwedOnce
  <2> HIDE DEF b
  <2>5. SocketTypeOK' /\ HolderWaits'
    BY <2>1, <2>2, <2>3
  <2>6. OwedOnce'
    <3> SUFFICES ASSUME NEW i \in Conns
                 PROVE  /\ Once(owed'[i])
                        /\ \A a \in In(owed'[i]) :
                             /\ pc'[a] \notin Unsent /\ on[a] = i
                             /\ \A d \in Commands : result'[d] # a
      BY <2>1 DEF OwedOnce
    <3>1. CASE i # h
      BY <1>0, <2>1, <2>3, <2>4, <3>1 DEF OwedOnce
    <3>2. CASE i = h
      BY <1>0, <2>1, <2>2, <2>3, <3>2 DEF OwedOnce
    <3> QED BY <3>1, <3>2
  <2>7. \A i : GivenUp(i) => GivenUp(i)'
    BY <2>1 DEF GivenUp
  <2>8. \A i \in Conns : \A a \in In(owed[i]) :
          Works(i) /\ ~GivenUp(i) => a = c /\ i = h
    BY <1>0, <2>2 DEF OwedToHolder, OwedOnce
  <2>9. OwedToHolder'
    <3> SUFFICES ASSUME NEW i \in Conns, Works(i)', ~GivenUp(i)', NEW a \in In(owed'[i])
                 PROVE  FALSE
      BY DEF OwedToHolder
    <3>1. Works(i) /\ ~GivenUp(i)
      BY <2>1, <2>7 DEF Works
    <3>2. a \in In(owed[i])
      BY <2>3
    <3>3. a = c /\ i = h /\ b = c
      BY <2>2, <2>3, <2>8, <3>1, <3>2
    <3> QED BY <2>3, <3>3
  <2>10. Returned'
    BY <2>1, <2>3, <2>4 DEF Returned
  <2>11. b = c \/ GivenUp(h)
    BY <2>1, <2>2, <2>3, <2>8
  <2>12. AnswersInLine'
    BY <2>1, <2>3, <2>4, <2>11 DEF AnswersInLine, GivenUp
  <2> QED BY <2>5, <2>6, <2>9, <2>10, <2>12
<1>4. CASE SendFails(c)
  <2>1. /\ pc[c] \in Waiting /\ ~Works(on[c])
        /\ pc' = [pc EXCEPT ![c] = "failed"] /\ apiMu' = None
        /\ UNCHANGED <<conn, apiConn, netVars, on, result>>
    BY <1>4 DEF SendFails
  <2>2. SocketTypeOK' /\ HolderWaits'
    BY <2>1
  <2>3. ~Works(on[c])'
    BY <2>1 DEF Works
  <2> QED BY <2>1, <2>2, <2>3, LineKeeps
<1>5. CASE GiveUp(c)
  <2>1. /\ pc[c] \in Waiting
        /\ pc' = [pc EXCEPT ![c] = "gaveUp"] /\ apiMu' = None
        /\ UNCHANGED <<conn, apiConn, netVars, on, result>>
    BY <1>5 DEF GiveUp
  <2>2. SocketTypeOK' /\ HolderWaits'
    BY <2>1
  <2> QED BY <2>1, <2>2, LineKeeps
<1>6. CASE Timeout(c)
  <2>1. /\ pc[c] = "sent" /\ open' = open \ {on[c]}
        /\ pc' = [pc EXCEPT ![c] = "late"]
        /\ UNCHANGED <<conn, apiConn, broken, owed, dialed, on, apiMu, result>>
    BY <1>6 DEF Timeout
  <2>2. SocketTypeOK' /\ HolderWaits'
    BY <2>1
  <2>3. ~Works(on[c])'
    BY <2>1 DEF Works
  <2> QED BY <2>1, <2>2, <2>3, LineKeeps
<1>7. CASE Drop(c)
  <2>1. /\ pc[c] = "late" /\ apiConn' = 0
        /\ pc' = [pc EXCEPT ![c] = "failed"] /\ apiMu' = None
        /\ UNCHANGED <<conn, netVars, on, result>>
    BY <1>7 DEF Drop
  <2>2. SocketTypeOK' /\ HolderWaits'
    BY <2>1
  <2>3. OwedOnce' /\ Returned' /\ AnswersInLine'
    BY <2>1 DEF OwedOnce, Returned, AnswersInLine
  <2>4. \A i : GivenUp(i) => GivenUp(i)'
    BY <2>1 DEF GivenUp
  <2>5. OwedToHolder'
    BY <2>1, <2>4 DEF OwedToHolder, Works
  <2> QED BY <2>2, <2>3, <2>5
<1> QED BY <1>1, <1>2, <1>3, <1>4, <1>5, <1>6, <1>7 DEF Command, Returns

\* The invariant holds in every reachable state.
LEMMA SocketInvariant == Spec => []SocketInv
<1>1. ASSUME SocketInv, UNCHANGED vars PROVE SocketInv'
  <2>1. UNCHANGED <<conn, apiConn, netVars, cmdVars>>
    BY <1>1 DEF vars, esVars
  <2>2. SocketTypeOK' /\ HolderWaits' /\ OwedOnce' /\ Returned' /\ AnswersInLine'
    BY <1>1, <2>1 DEF netVars, cmdVars, SocketInv, SocketTypeOK, HolderWaits, OwedOnce,
       Returned, AnswersInLine
  <2>3. OwedToHolder'
    BY <1>1, <2>1 DEF netVars, cmdVars, SocketInv, OwedToHolder, GivenUp, Works
  <2> QED BY <2>2, <2>3 DEF SocketInv
<1>2. SocketInv /\ [Next]_vars => SocketInv'
  BY <1>1, ConnectionKeeps, CommandKeeps DEF Next
<1> QED BY <1>2, SocketInitInv, PTL DEF Spec

\* A command returns the answer to itself or none, although answers that came
\* too late are still on their way and other commands wait with the connection
\* they will come on.  After a bgapi given up it may be the answer to another
\* command written to the same connection, and never one returned before.
THEOREM AnswersMatch == Spec => []AnswersInLine
<1>1. SocketInv => AnswersInLine
  BY DEF SocketInv
<1> QED BY <1>1, SocketInvariant, PTL

\* One command at a time is between its write and its return, so that the one
\* answer of a connection is the answer to the last command written to it.
THEOREM OneWaits ==
    Spec => [](\A c, d \in Commands :
                 pc[c] \in Waiting /\ pc[d] \in Waiting => c = d)
<1>1. SocketInv => \A c, d \in Commands :
                     pc[c] \in Waiting /\ pc[d] \in Waiting => c = d
  BY DEF SocketInv, HolderWaits
<1> QED BY <1>1, SocketInvariant, PTL
=============================================================================
