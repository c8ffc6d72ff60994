---------------------------- MODULE MCBatchStart ----------------------------
(* Instances of BatchStart for TLC. *)
EXTENDS BatchStart

TwoPrios == {10, 20}
=============================================================================
