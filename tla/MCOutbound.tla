----------------------------- MODULE MCOutbound -----------------------------
(* Outbound with 2 leads: the calls of two leads share the pool, the
   campaign's context and its slots, and nothing else.                      *)
EXTENDS Outbound
=============================================================================
