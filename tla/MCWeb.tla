-------------------------------- MODULE MCWeb -------------------------------
(* A visitor with a long utterance, which can interrupt, and a short one, which
   the monitor drops; three chat messages.                                    *)
EXTENDS Web

CONSTANTS u1, u2, m1, m2, m3

MCUtterances == {u1, u2}
MCLong       == {u1}
MCRequests   == {m1, m2, m3}
=============================================================================
