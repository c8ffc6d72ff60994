------------------------------ MODULE MCMailRun ------------------------------
(* Instances of MailRun for TLC: who the mails are for. *)
EXTENDS MailRun

CONSTANTS
  mixed, remote, local, bad,  \* mail files, named for their recipients
  d1, d2                      \* two domains

\* A mail for local and other recipients, one for two domains, one that is
\* local only, a malformed one
Recipients ==
  [f \in File |-> CASE f = mixed  -> {Local, d1}
                    [] f = remote -> {d1, d2}
                    [] f = local  -> {Local}
                    [] f = bad    -> {}]

\* What may fail
ButLink == Fault \ {"link"}
LinkOnly == {"link"}
CrashOnly == {"crash"}
CrashOrRename == {"crash", "rename"}
=============================================================================
