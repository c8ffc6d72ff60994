----------------------------- MODULE MCConnLoop -----------------------------
(* Instances of ConnLoop for TLC: what the mails of a batch look like. *)
EXTENDS ConnLoop

CONSTANTS d1, d2, d3  \* domains

\* The connection to d1 has to skip the mail in the middle, the one to d2 the
\* first two; in the last one the recipients at d1 are apart, and the one at d2
\* is not the first.  d3 comes between them in the list of connections.
Staggered == <<<<d1>>, <<d3>>, <<d1, d2, d1>>>>

\* A bound: the server of d3 refuses, and this is noticed before the clock
\* moves.  What is left of it is its entry in pfds: d2 gets another slot, and
\* the scan may go further than there are connections.
ThirdRefuses ==
  /\ inbox[d3] = <<>> /\ age[d3] = 0
  /\ pc = "loop" => closed[d3]

\* One mail for both domains
OneMail == <<<<d1, d2>>>>
=============================================================================
