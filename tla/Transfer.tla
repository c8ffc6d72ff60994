------------------------------ MODULE Transfer ------------------------------
(***************************************************************************)
(* How ConnLoop fits into MailRun: the sessions, timeouts and settling of  *)
(* one batch are what the main loop's module has for them, a transfer in   *)
(* which domains accept mails and the client learns of it, or not.  So the *)
(* promises MailRun makes of whole runs rest on the code of conn_loop.     *)
(***************************************************************************)
EXTENDS ConnLoop

CONSTANT Local  \* opts_my_domain()

\* The domains of ConnLoop are those of the mails as filter_my_mail leaves them.
ASSUME LocalAssumption == Local \notin Domain

VARIABLE failed  \* history: how many operations have failed

Failure ==
  \/ pc = "settle" /\ i' = i + 1 /\ dir' = dir  \* delete_mail or move_mail
  \/ pc # "crashed" /\ pc' = "crashed"

HInit == Init /\ failed = 0
HNext == Next /\ failed' = IF Failure THEN failed + 1 ELSE failed
HSpec == HInit /\ [][HNext]_<<vars, failed>>

FairHSpec == HSpec /\ Fairness

-----------------------------------------------------------------------------
(* What MailRun sees of it *)

Transferring == pc \notin {"settle", "final", "crashed"}

MainPc == CASE Transferring   -> "transfer"
            [] pc = "settle"  -> "settle"
            [] pc = "final"   -> "check"
            [] pc = "crashed" -> "dead"

\* A deleted file is nowhere.
Where == [m \in Mails |-> {dir[m]} \ {"deleted"}]

\* The list of mails, until conn_final frees it or it is lost in a crash
InHand == IF pc \in {"final", "crashed"} THEN {} ELSE Mails
Unsettled == IF pc = "settle" THEN {m \in Mails : i <= m} ELSE {}
MarkedSent == {m \in InHand : sent[m]}

\* The mails and domains that the batch is about, as far as they are accepted
\* and as far as not
Pairs == {p \in Mails \X Domain : p[1] \in MailsFor(p[2])}
Accepted == {p \in Pairs : Full(p[1], p[2]) \in acc[p[2]]}
Due == Pairs \ Accepted

RcptDomains == [m \in Mails |-> {Batch[m][r] : r \in DOMAIN Batch[m]}]
Pending == IF Transferring THEN Due ELSE {}
Flight == [p \in Mails \X Domain |-> IF ~Transferring /\ p \in Due THEN 1 ELSE 0]
Copies == [p \in Mails \X Domain |-> IF p \in Accepted THEN 1 ELSE 0]

Run == INSTANCE MailRun WITH
  File <- Mails, To <- RcptDomains,
  Unreadable <- {}, Faults <- {"rename", "unlink", "crash"},
  MaxFailures <- NullMail, MaxDescriptors <- 2,
  pc <- MainPc, where <- Where,
  seen <- InHand, batch <- InHand, todo <- Unsettled,
  sent <- MarkedSent, leaked <- 0, quit <- FALSE,
  pending <- Pending, flight <- Flight, copies <- Copies,
  failures <- failed

\* Every step of the sessions, the servers and the settling is one that MailRun
\* allows, or changes nothing it looks at: a server accepts a mail once in the
\* batch, also when the client has given up; a mail is marked only after that,
\* and on the marks alone, set before all connections were closed, depends
\* where its file goes.
RunSpec == Run!TransferSpec
=============================================================================
