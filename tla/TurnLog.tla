------------------------------- MODULE TurnLog ------------------------------
(* What the record of a web session promises whoever reads it afterwards:     *)
(* it is a dialogue to which lines are only ever appended.  No message and no *)
(* answer is written twice, no message behind its own answer, and the record  *)
(* of a session with one writer is complete once it is over.  Web.tla, which  *)
(* models the handlers and the tables, implements this specification.         *)
EXTENDS Naturals, Sequences

CONSTANTS Messages,  \* what visitors say or post
          None       \* what the greeting answers

VARIABLES log,   \* the lines of the dialogue, in order
          over,  \* the session is stamped as ended
          many   \* several requests may write at a time

logVars == <<log, over, many>>

Line == [role : {"user", "bot"}, re : Messages \cup {None}]

LogInit == log = <<>> /\ over = FALSE /\ many \in BOOLEAN

\* Of one message there is nothing yet, or only itself, and this answers it.
Write(line) ==
    /\ many \/ ~over
    /\ \A i \in DOMAIN log :
         log[i].re = line.re => log[i].role = "user" /\ line.role = "bot"
    /\ log' = Append(log, line)
    /\ UNCHANGED <<over, many>>

Close ==
    /\ over' = TRUE
    /\ UNCHANGED <<log, many>>

LogNext == (\E line \in Line : Write(line)) \/ Close

LogSpec == LogInit /\ [][LogNext]_logVars
=============================================================================
