------------------------------ MODULE Streams -------------------------------
(* The two provider streams of a call, read by goroutines of their own: the   *)
(* caller's audio to the recogniser and back, and the bot's reply.  They have *)
(* nothing in common, so a behaviour is one of the first or of the second.    *)
EXTENDS CallerAudio, BotText

VARIABLE part  \* "audio" or "text"

vars == <<audioVars, textVars, part>>

Init ==
    /\ AudioInit /\ BotIdle
    /\ \/ part = "text"
       \/ part = "audio" /\ text = <<>>

Audio(step) == part = "audio" /\ step /\ UNCHANGED <<textVars, part>>

Next ==
    \/ Audio(AudioNext)
    \/ part = "text" /\ BotTextNext /\ UNCHANGED <<audioVars, part>>

\* Goroutines run and timers fire; a Speak ends (Turn).  Neither the server
\* nor the caller has to do anything.
Fairness ==
    /\ WF_vars(Audio(SpeakStep)) /\ SF_vars(Audio(ListenStep)) /\ SF_vars(Audio(Timer))
    /\ WF_vars(Audio(Defers)) /\ WF_vars(Audio(Reader)) /\ SF_vars(Audio(Pump))
    /\ WF_vars(Audio(Watcher)) /\ WF_vars(Audio(Drain))
    /\ \A s \in Streams : WF_vars(Audio(Recv(s)))

Spec == Init /\ [][Next]_vars /\ Fairness
=============================================================================
