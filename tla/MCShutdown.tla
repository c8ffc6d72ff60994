----------------------------- MODULE MCShutdown -----------------------------
(* Instance of Shutdown for TLC: every call of init() may fail, every process *)
(* may be killed.                                                             *)
EXTENDS Shutdown

AnyFault == Fault
AnyProcess == Process
=============================================================================
