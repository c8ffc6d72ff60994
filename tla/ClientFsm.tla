------------------------------ MODULE ClientFsm ------------------------------
(***************************************************************************)
(* The state machine that drives one SMTP connection: client-fsm.c, which  *)
(* AutoGen makes from client.def, together with the send_* functions of    *)
(* protocol.c that its transitions call.  The machine is reentrant: it     *)
(* keeps no state of its own and works on the connection it is given, so   *)
(* the module has no variables.                                            *)
(*                                                                         *)
(* The mail that is being sent is the list conn_init has read.  Batch[m]   *)
(* is mail m of the list as the sequence of the domains of its recipients; *)
(* a pointer into a list is an index and NULL is the index after the last. *)
(*                                                                         *)
(* An operator announced as a mutant is a plausible mistake in the code of *)
(* the definition after it, which the properties are tried against; the    *)
(* model does not use it.                                                  *)
(***************************************************************************)
EXTENDS Integers, Sequences

CONSTANTS
  Domain,  \* the recipient domains, without the client's own
  Batch    \* the mails: Batch[m][k] is the domain of recipient k of mail m

(***************************************************************************)
(* read_mail_to refuses a mail with no recipient and filter_my_mail drops  *)
(* the mails that are left with none.                                      *)
(***************************************************************************)
ASSUME BatchAssumption ==
  /\ Batch \in Seq(Seq(Domain))
  /\ \A m \in DOMAIN Batch : Batch[m] # <<>>

-----------------------------------------------------------------------------
(* Mail and recipient lists *)

Mails == DOMAIN Batch
NullMail == Len(Batch) + 1
NullRcpt(m) == Len(Batch[m]) + 1

\* rcpt_is_from_domain, over the recipients of mail m
RcptsFrom(m, d) == {k \in DOMAIN Batch[m] : Batch[m][k] = d}

\* mail_has_rcpts_from_domain
MailHasRcptsFrom(m, d) == RcptsFrom(m, d) # {}

MailsFor(d) == {m \in Mails : MailHasRcptsFrom(m, d)}

\* Walking a list from lo with TAILQ_NEXT until an element of S, NULL if none
Seek(S, lo, null) ==
  IF \E k \in S : lo <= k
  THEN CHOOSE k \in S : lo <= k /\ \A j \in S : lo <= j => k <= j
  ELSE null

SeekMail(lo, d) == Seek(MailsFor(d), lo, NullMail)

\* mutant: the walk forgets to look at the domain
SeekAnyRcpt(m, lo, d) == Seek(DOMAIN Batch[m], lo, NullRcpt(m))

SeekRcpt(m, lo, d) == Seek(RcptsFrom(m, d), lo, NullRcpt(m))

-----------------------------------------------------------------------------
(* States, events, the transition table *)

Terminal == {"INVALID", "DONE"}
Working == {"INIT", "HELO", "MAILFROM", "RCPTTO", "DATA", "DATASTR", "QUIT"}
FsmState == Working \cup Terminal

\* What parse_response makes of a reply; the other events are internal.
ReplyCode == {"R220", "R250", "R354", "R221", "INVALID"}

\* A command: what it says, for which mail, naming which recipient.
Verb == {"CONNECT", "HELO", "MAIL", "RCPT", "DATA", "BODY", "QUIT"}
Command(verb, m, k) == [verb |-> verb, mail |-> m, rcpt |-> k]

\* smtp_client_fsm_trans_table; every other cell leads to INVALID.
NextState(st, ev) ==
  CASE st = "INIT"     /\ ev = "R220"    -> "HELO"
    [] st = "HELO"     /\ ev = "R250"    -> "MAILFROM"
    [] st = "MAILFROM" /\ ev = "R250"    -> "RCPTTO"
    [] st = "RCPTTO"   /\ ev = "R250"    -> "RCPTTO"
    [] st = "RCPTTO"   /\ ev = "NO_RCPT" -> "DATA"
    [] st = "DATA"     /\ ev = "R354"    -> "DATASTR"
    [] st = "DATASTR"  /\ ev = "R250"    -> "MAILFROM"
    [] st = "DATASTR"  /\ ev = "NO_MAIL" -> "QUIT"
    [] st = "QUIT"     /\ ev = "R221"    -> "DONE"
    [] OTHER                             -> "INVALID"

-----------------------------------------------------------------------------
(***************************************************************************)
(* One step of the machine on connection c = [state, m, r] to domain d.    *)
(* Its result: the connection after it, the commands it sends, the mails   *)
(* whose was_sent it sets.                                                 *)
(***************************************************************************)
Outcome(st, m, r, send, mark) ==
  [conn |-> [state |-> st, m |-> m, r |-> r], send |-> send, mark |-> mark]

\* The transitions that send one command and leave the cursors alone.
Reply(c, ev, verb, m) ==
  Outcome(NextState(c.state, ev), c.m, c.r, <<Command(verb, m, 0)>>, {})

\* send_rcptto returns 1: the next recipient of this domain is named.
NamesRcpt(c, d) ==
  LET k == SeekRcpt(c.m, c.r, d) IN
  Outcome("RCPTTO", c.m, k + 1, <<Command("RCPT", c.m, k)>>, {})

\* MAILFROM_R250 ignores what send_rcptto returns.
MailfromR250(c, d) ==
  IF SeekRcpt(c.m, c.r, d) # NullRcpt(c.m)
  THEN NamesRcpt(c, d)
  ELSE Outcome("RCPTTO", c.m, NullRcpt(c.m), <<>>, {})

\* RCPTTO_R250 steps the machine again, with NO_RCPT, when nobody is left.
RcpttoR250(c, d) ==
  IF SeekRcpt(c.m, c.r, d) # NullRcpt(c.m)
  THEN NamesRcpt(c, d)
  ELSE Outcome(NextState("RCPTTO", "NO_RCPT"), c.m, NullRcpt(c.m),
               <<Command("DATA", 0, 0)>>, {})

\* mutants: the mail right after or none; the same mail again
NextIfAdjacent(c, d) == IF c.m + 1 \in MailsFor(d) THEN c.m + 1 ELSE NullMail
SameMail(c, d) == SeekMail(c.m, d)

\* The next mail with a recipient in the domain of the connection
NextMail(c, d) == SeekMail(c.m + 1, d)

\* mutants: the recipient cursor stays; the mail is marked after the move
KeepsRcpt(c, m) == Outcome("MAILFROM", m, c.r, <<Command("MAIL", m, 0)>>, {c.m})
MarksNext(c, m) == Outcome("MAILFROM", m, 1, <<Command("MAIL", m, 0)>>, {m})

\* DATASTR_R250 with mail m to follow: both cursors move to it.
BeginsMail(c, m) == Outcome("MAILFROM", m, 1, <<Command("MAIL", m, 0)>>, {c.m})

\* DATASTR_R250 marks the mail, moves to the next one for this domain and
\* steps the machine again, with NO_MAIL, when there is none.
DatastrR250(c, d) ==
  LET m == NextMail(c, d) IN
  IF m # NullMail
  THEN BeginsMail(c, m)
  ELSE Outcome(NextState("DATASTR", "NO_MAIL"), m, c.r,
               <<Command("QUIT", 0, 0)>>, {c.m})

\* smtp_client_fsm_step on an event that came as a reply
FsmStep(c, d, ev) ==
  CASE c.state \in Terminal                     -> Outcome("INIT", c.m, c.r, <<>>, {})
    [] c.state = "INIT"     /\ ev = "R220"      -> Reply(c, ev, "HELO", 0)
    [] c.state = "HELO"     /\ ev = "R250"      -> Reply(c, ev, "MAIL", c.m)
    [] c.state = "MAILFROM" /\ ev = "R250"      -> MailfromR250(c, d)
    [] c.state = "RCPTTO"   /\ ev = "R250"      -> RcpttoR250(c, d)
    [] c.state = "DATA"     /\ ev = "R354"      -> Reply(c, ev, "BODY", c.m)
    [] c.state = "DATASTR"  /\ ev = "R250"      -> DatastrR250(c, d)
    [] OTHER                                    -> Outcome(NextState(c.state, ev), c.m, c.r, <<>>, {})
=============================================================================
