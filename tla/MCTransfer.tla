----------------------------- MODULE MCTransfer -----------------------------
(* An instance of Transfer for TLC. *)
EXTENDS Transfer

CONSTANTS d1, d2  \* two domains

\* One mail for both domains, one for the second only
OneForBoth == <<<<d1, d2>>, <<d2>>>>
=============================================================================
