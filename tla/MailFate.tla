------------------------------ MODULE MailFate ------------------------------
(***************************************************************************)
(* What the transfer of a batch promises, without connections, commands or *)
(* time: which domains have accepted which mail, and where its file is.    *)
(***************************************************************************)
EXTENDS Integers

CONSTANTS
  Mail,    \* the mails of the batch: their numbers, in its order
  Domain,  \* the recipient domains
  ToDomain \* ToDomain[d]: the mails with a recipient in d

VARIABLES
  delivered,  \* delivered[d]: the mails the server of d has accepted
  file        \* the directory of each mail file

vars == <<delivered, file>>

Init ==
  /\ delivered = [d \in Domain |-> {}]
  /\ file = [m \in Mail |-> "new"]

\* A domain accepts its mails once each and in the order of the batch.
Accept(d, m) ==
  /\ m \in ToDomain[d] \ delivered[d]
  /\ {n \in ToDomain[d] : n < m} \subseteq delivered[d]
  /\ delivered' = [delivered EXCEPT ![d] = @ \cup {m}]
  /\ UNCHANGED file

\* A file is deleted only when some domain has accepted the mail.
Delete(m) ==
  /\ file[m] = "new"
  /\ \E d \in Domain : m \in delivered[d]
  /\ file' = [file EXCEPT ![m] = "deleted"]
  /\ UNCHANGED delivered

\* It is set aside at any time: the answer that it was accepted may be lost.
SetAside(m) ==
  /\ file[m] = "new"
  /\ file' = [file EXCEPT ![m] = "not_sent"]
  /\ UNCHANGED delivered

Next ==
  \/ \E d \in Domain, m \in Mail : Accept(d, m)
  \/ \E m \in Mail : Delete(m) \/ SetAside(m)

Spec == Init /\ [][Next]_vars
=============================================================================
