------------------------------- MODULE MailRun -------------------------------
(***************************************************************************)
(* The life of the mail files: smtp_client_loop over any number of         *)
(* batches, with the functions of maildir.c that read, sort out, move,     *)
(* link and delete them, across crashes and restarts of the program.  The  *)
(* transfer of a batch is left to MailFate: a server accepts a mail or     *)
(* not, perhaps after the client has given it up, and the client sees the  *)
(* acceptance or not.                                                      *)
(*                                                                         *)
(* The files come from outside, and what fails is up to the file system:   *)
(* Faults says which operations may, MaxFailures how often in all.  A list *)
(* is a set here: readdir() gives the files in an order of its own.        *)
(***************************************************************************)
EXTENDS Integers, FiniteSets

CONSTANTS
  File,           \* the mail files
  Domain,         \* the domains other than the client's own
  Local,          \* opts_my_domain()
  To,             \* To[f]: the recipients' domains, none if f is malformed
  Unreadable,     \* the files fopen() always fails on
  Faults,         \* the operations that may fail
  MaxFailures,    \* bound of the failures
  MaxDescriptors  \* how many files and directories can be open at a time

Fault == {"opendir", "fopen", "rename", "link", "unlink", "crash"}

ASSUME FileAssumption ==
  /\ Local \notin Domain
  /\ To \in [File -> SUBSET (Domain \cup {Local})]
  /\ Unreadable \subseteq File

ASSUME BoundAssumption ==
  /\ Faults \subseteq Fault
  /\ MaxFailures \in Nat
  /\ MaxDescriptors \in Nat \ {0}

VARIABLES
  pc,        \* where the main process is
  where,     \* the directories a file is linked in
  seen,      \* the files readdir() has returned
  batch,     \* the list of mails
  todo,      \* what the loop over the directory or the list has yet to visit
  sent,      \* the mails with was_sent set
  leaked,    \* directories left open
  quit,      \* the byte from the key listener is in the socket
  pending,   \* mail and domain: what this batch has yet to transfer
  flight,    \* how often it was given up but may still be accepted
  copies,    \* how often a domain has accepted a mail
  failures   \* how many operations have failed

listVars == <<seen, batch, todo>>
transferVars == <<sent, pending, flight, copies>>
vars == <<pc, where, listVars, leaked, quit, transferVars, failures>>

Dir == {"new", "cur", "not_sent"}
Pair == File \X Domain

InNew == {f \in File : "new" \in where[f]}
Remote(f) == To[f] \ {Local}
Num(b) == IF b THEN 1 ELSE 0

\* mutant: nobody is local
NobodyLocal(f) == FALSE

HasLocalRcpt(f) == Local \in To[f]

-----------------------------------------------------------------------------
(* Operations on files: each is done or, if it may fail, fails. *)

Fails(op) ==
  /\ op \in Faults /\ failures < MaxFailures
  /\ failures' = failures + 1

Move(f, to) ==
  \/ where' = [where EXCEPT ![f] = (@ \ {"new"}) \cup {to}] /\ UNCHANGED failures
  \/ UNCHANGED where /\ Fails("rename")

\* A link that exists already is as good as a new one.
Copy(f) ==
  \/ where' = [where EXCEPT ![f] = @ \cup {"cur"}] /\ UNCHANGED failures
  \/ UNCHANGED where /\ Fails("link")

Delete(f) ==
  \/ where' = [where EXCEPT ![f] = @ \ {"new"}] /\ UNCHANGED failures
  \/ UNCHANGED where /\ Fails("unlink")

\* n more descriptors can be opened.
Openable(n) == leaked + n <= MaxDescriptors

-----------------------------------------------------------------------------
Init ==
  /\ pc = "check"
  /\ where = [f \in File |-> {"outside"}]
  /\ seen = {} /\ batch = {} /\ todo = {}
  /\ sent = {} /\ leaked = 0 /\ quit = FALSE
  /\ pending = {} /\ flight = [p \in Pair |-> 0]
  /\ copies = [p \in Pair |-> 0]
  /\ failures = 0

-----------------------------------------------------------------------------
(* smtp_client_loop *)

\* mutant: Q is looked for only when there is no mail
QuitWhenIdle == quit /\ InNew = {}

\* recv() of no bytes succeeds as soon as the byte is there, and leaves it; or
\* if the listener is gone.
QuitKeyPressed == quit

Stop ==
  /\ pc = "check" /\ QuitKeyPressed
  /\ pc' = "stopped"
  /\ UNCHANGED <<where, listVars, leaked, quit, transferVars, failures>>

\* mutant: the count does without opendir()
NewMailAssumed == InNew # {}

\* new_mail_exist, which returns 0 also when it cannot open the directory
NewMailExist == InNew # {} /\ Openable(1)

NoNewMail ==
  /\ pc = "check" /\ ~QuitKeyPressed
  /\ ~NewMailExist
  /\ pc' = "sleep"
  /\ UNCHANGED <<where, listVars, leaked, quit, transferVars, failures>>

WakeUp ==
  /\ pc = "sleep"
  /\ pc' = "check"
  /\ UNCHANGED <<where, listVars, leaked, quit, transferVars, failures>>

NewMailFound ==
  /\ pc = "check" /\ ~QuitKeyPressed
  /\ NewMailExist
  /\ pc' = "open"
  /\ UNCHANGED <<where, listVars, leaked, quit, transferVars, failures>>

-----------------------------------------------------------------------------
(* read_all_mail *)

OpenNew ==
  /\ pc = "open"
  /\ pc' = "read"
  /\ todo' = InNew
  /\ UNCHANGED <<where, seen, batch, leaked, quit, transferVars, failures>>

OpenNewFails ==
  /\ pc = "open"
  /\ Fails("opendir")
  /\ pc' = "check"
  /\ UNCHANGED <<where, listVars, leaked, quit, transferVars>>

\* readdir() returns the files in any order, those that arrive meanwhile or not.
Found(f) ==
  /\ pc = "read"
  /\ f \in InNew \ seen
  /\ seen' = seen \cup {f} /\ todo' = todo \ {f}
  /\ UNCHANGED <<pc, leaked, quit, transferVars>>

\* read_mail_file with a mail in it
ReadMail(f) ==
  /\ Found(f)
  /\ f \notin Unreadable /\ Openable(2)
  /\ To[f] # {}
  /\ batch' = batch \cup {f}
  /\ UNCHANGED <<where, failures>>

\* ... with incorrect syntax
RefuseMail(f) ==
  /\ Found(f)
  /\ f \notin Unreadable /\ Openable(2)
  /\ To[f] = {}
  /\ Move(f, "not_sent")
  /\ UNCHANGED batch

\* ... that cannot be opened: it stays where it is.
OpenMailFails(f) ==
  /\ Found(f)
  /\ \/ (f \in Unreadable \/ ~Openable(2)) /\ UNCHANGED failures
     \/ Fails("fopen")
  /\ UNCHANGED <<where, batch>>

\* The early return leaves the directory open, and the main loop tries again
\* at once.
NothingRead ==
  /\ pc = "read" /\ todo = {}
  /\ batch = {}
  /\ leaked' = leaked + 1
  /\ pc' = "check"
  /\ seen' = {}
  /\ UNCHANGED <<where, batch, todo, quit, transferVars, failures>>

AllRead ==
  /\ pc = "read" /\ todo = {}
  /\ batch # {}
  /\ pc' = "filter"
  /\ todo' = batch
  /\ UNCHANGED <<where, seen, batch, leaked, quit, transferVars, failures>>

-----------------------------------------------------------------------------
(* filter_my_mail *)

FilterMail(f) ==
  /\ pc = "filter" /\ f \in todo
  /\ todo' = todo \ {f}
  /\ UNCHANGED <<pc, seen, leaked, quit, transferVars>>

\* mutant: a mail for local recipients only leaves the list, but not NEW
ForgetsLocal(f) ==
  /\ FilterMail(f)
  /\ Remote(f) = {}
  /\ batch' = batch \ {f}
  /\ UNCHANGED <<where, failures>>

\* A mail for local recipients only leaves the list.
LocalOnly(f) ==
  /\ FilterMail(f)
  /\ Remote(f) = {}
  /\ Move(f, "cur")
  /\ batch' = batch \ {f}

LocalToo(f) ==
  /\ FilterMail(f)
  /\ Remote(f) # {} /\ HasLocalRcpt(f)
  /\ Copy(f)
  /\ UNCHANGED batch

RemoteOnly(f) ==
  /\ FilterMail(f)
  /\ Remote(f) # {} /\ ~HasLocalRcpt(f)
  /\ UNCHANGED <<where, batch, failures>>

\* The end of read_all_mail and of conn_init
Filtered ==
  /\ pc = "filter" /\ todo = {}
  /\ pc' = "transfer"
  /\ pending' = {p \in Pair : p[1] \in batch /\ p[2] \in Remote(p[1])}
  /\ UNCHANGED <<where, listVars, leaked, quit, sent, flight, copies, failures>>

-----------------------------------------------------------------------------
(* conn_loop *)

\* A domain accepts a mail, once in a batch.
Accept(p) ==
  /\ pc = "transfer" /\ p \in pending
  /\ pending' = pending \ {p}
  /\ copies' = [copies EXCEPT ![p] = @ + 1]
  /\ UNCHANGED <<pc, where, listVars, leaked, quit, sent, flight, failures>>

\* The client may see, then or later in the batch, that one has.
LearnSent(f) ==
  /\ pc = "transfer" /\ f \in batch
  /\ \E d \in Remote(f) : <<f, d>> \notin pending
  /\ sent' = sent \cup {f}
  /\ UNCHANGED <<pc, where, listVars, leaked, quit, pending, flight, copies, failures>>

\* The client is through or gone; the mails on their way stay so.
GiveUp ==
  /\ flight' = [p \in Pair |-> flight[p] + Num(p \in pending)]
  /\ pending' = {}

AcceptLate(p) ==
  /\ flight[p] > 0
  /\ flight' = [flight EXCEPT ![p] = @ - 1]
  /\ copies' = [copies EXCEPT ![p] = @ + 1]
  /\ UNCHANGED <<pc, where, listVars, leaked, quit, sent, pending, failures>>

TransferEnds ==
  /\ pc = "transfer"
  /\ pc' = "settle"
  /\ todo' = batch
  /\ GiveUp
  /\ UNCHANGED <<where, seen, batch, leaked, quit, sent, copies, failures>>

\* mutants: what was not sent is left for the next time; nothing is looked at
LeaveUnsent(f) == IF f \in sent THEN Delete(f) ELSE UNCHANGED <<where, failures>>
DeleteAll(f) == Delete(f)

\* Delete what was sent and set the rest aside.
Settle(f) == IF f \in sent THEN Delete(f) ELSE Move(f, "not_sent")

SettleMail(f) ==
  /\ pc = "settle" /\ f \in todo
  /\ todo' = todo \ {f}
  /\ Settle(f)
  /\ UNCHANGED <<pc, seen, batch, leaked, quit, transferVars>>

\* conn_final
BatchOver ==
  /\ pc = "settle" /\ todo = {}
  /\ pc' = "check"
  /\ seen' = {} /\ batch' = {} /\ sent' = {}
  /\ UNCHANGED <<where, todo, leaked, quit, pending, flight, copies, failures>>

-----------------------------------------------------------------------------
(* The environment *)

Deliver(f) ==
  /\ where[f] = {"outside"}
  /\ where' = [where EXCEPT ![f] = {"new"}]
  /\ UNCHANGED <<pc, listVars, leaked, quit, transferVars, failures>>

PressQ ==
  /\ ~quit /\ pc \notin {"stopped", "dead"}
  /\ quit' = TRUE
  /\ UNCHANGED <<pc, where, listVars, leaked, transferVars, failures>>

Crash ==
  /\ pc \notin {"stopped", "dead"}
  /\ Fails("crash")
  /\ pc' = "dead"
  /\ seen' = {} /\ batch' = {} /\ todo' = {} /\ sent' = {}
  /\ leaked' = 0 /\ quit' = FALSE
  /\ GiveUp
  /\ UNCHANGED <<where, copies>>

Restart ==
  /\ pc = "dead"
  /\ pc' = "check"
  /\ UNCHANGED <<where, listVars, leaked, quit, transferVars, failures>>

-----------------------------------------------------------------------------
ReadAllMail ==
  OpenNew \/ OpenNewFails \/ NothingRead \/ AllRead
  \/ \E f \in File : ReadMail(f) \/ RefuseMail(f) \/ OpenMailFails(f)

FilterMyMail ==
  Filtered \/ \E f \in File : LocalOnly(f) \/ LocalToo(f) \/ RemoteOnly(f)

EndOfBatch == TransferEnds \/ BatchOver \/ \E f \in File : SettleMail(f)

SmtpClientLoop ==
  Stop \/ NoNewMail \/ WakeUp \/ NewMailFound \/ ReadAllMail \/ FilterMyMail \/ EndOfBatch

Environment ==
  \/ PressQ \/ Crash \/ Restart
  \/ \E f \in File : Deliver(f) \/ LearnSent(f)
  \/ \E p \in Pair : Accept(p) \/ AcceptLate(p)

Next == SmtpClientLoop \/ Environment

Spec == Init /\ [][Next]_vars

\* A transfer begins, with every file there is, all for recipients elsewhere,
\* and nothing has failed so far.
AtTransfer ==
  /\ \A f \in File : Remote(f) # {} /\ ~HasLocalRcpt(f)
  /\ pc = "transfer"
  /\ where = [f \in File |-> {"new"}]
  /\ seen = File /\ batch = File /\ todo = {}
  /\ sent = {} /\ leaked = 0 /\ quit = FALSE
  /\ pending = {p \in Pair : p[2] \in Remote(p[1])}
  /\ flight = [p \in Pair |-> 0] /\ copies = [p \in Pair |-> 0]
  /\ failures = 0

TransferNext ==
  \/ \E p \in Pair : Accept(p) \/ AcceptLate(p)
  \/ \E f \in File : LearnSent(f)
  \/ EndOfBatch \/ Crash

\* What comes of it (Transfer shows that ConnLoop does this)
TransferSpec == AtTransfer /\ [][TransferNext]_vars

\* The process is scheduled, somebody starts the program again after a crash,
\* and batches end: this is an assumption about the servers, that each of them
\* reads what it is sent or goes away (BatchEnds of ConnLoop).
FairSpec == Spec /\ WF_vars(SmtpClientLoop) /\ WF_vars(Restart)

-----------------------------------------------------------------------------
(* Type invariant *)

\* The values the variables range over, and no more descriptors than there are.
TypeOK ==
  /\ pc \in {"check", "sleep", "open", "read", "filter", "transfer", "settle",
             "stopped", "dead"}
  /\ where \in [File -> SUBSET (Dir \cup {"outside"})]
  /\ seen \subseteq File /\ batch \subseteq File /\ todo \subseteq File
  /\ pc \in {"filter", "settle"} => todo \subseteq batch
  /\ sent \subseteq batch
  /\ leaked \in 0 .. MaxDescriptors
  /\ quit \in BOOLEAN
  /\ pending \subseteq Pair
  /\ flight \in [Pair -> Nat] /\ copies \in [Pair -> Nat]
  /\ failures \in 0 .. MaxFailures

-----------------------------------------------------------------------------
(* Safety *)

Arrived(f) == where[f] # {"outside"}

\* A mail file that has come to NEW is in one of the directories until a
\* server has the mail: in spite of crashes, of operations that fail half way
\* through a batch, of batches that see only some of the files.
NoMailVanishes ==
  \A f \in File :
    where[f] = {} => \E d \in Remote(f) : copies[<<f, d>>] > 0

\* A domain gets a mail again only when something has failed in between: a
\* crash before the file was settled or a settling that did not work, one for
\* each copy too many (read_all_mail takes whatever is in NEW).
CopiesCostFailures ==
  \A p \in Pair : copies[p] <= 1 + failures

\* "Mail '%s' has local recipient, copying to 'cur' dir." (filter_my_mail): a
\* mail that has left NEW is in CUR if it has a local recipient.
LocalMailKept ==
  \A f \in File :
    Local \in To[f] /\ Arrived(f) /\ "new" \notin where[f] => "cur" \in where[f]

\* "Returns count of mail files in MAILDIR/NEW/ directory" (new_mail_exist):
\* the loop goes to sleep only when NEW is empty.
SleepsWhenEmpty ==
  [][NoNewMail => InNew = {}]_vars

-----------------------------------------------------------------------------
(* Liveness *)

\* No directory can be opened any more: the finding at SleepsWhenEmpty.
Deaf == ~Openable(1)

\* Every mail file that can be read leaves NEW in the end, sent or not: also if
\* its batch fails or dies, and although files that cannot be read stay there
\* beside it.  The program may only be told to stop or, when it is left alone
\* with the files it cannot read, go deaf.
NewIsEmptied ==
  \A f \in File \ Unreadable :
    "new" \in where[f] ~> "new" \notin where[f] \/ pc = "stopped" \/ Deaf

\* Q ends the program, in the middle of a batch, too, once that is over.
QuitStops == quit ~> pc = "stopped" \/ ~quit

-----------------------------------------------------------------------------
(* The inductive invariant *)

\* What the variables say of each other on the way through a batch
Phases ==
  /\ pc \in {"check", "sleep", "open", "dead", "stopped"} => batch = {}
  /\ pc \in {"open", "read"} => Openable(1)
  /\ pc = "read" => batch \subseteq seen
  /\ pc \in {"read", "filter"} => batch \subseteq InNew
  /\ pc \notin {"transfer", "settle"} => sent = {}
  /\ pc # "transfer" => pending = {}
  /\ \A p \in pending : p[1] \in batch /\ p[2] \in Remote(p[1])

\* A file that has not arrived is nowhere else.
Outside ==
  \A f \in File :
    "outside" \in where[f] => where[f] = {"outside"} /\ f \notin batch

SentAccepted ==
  \A f \in sent : \E d \in Remote(f) : copies[<<f, d>>] > 0

\* What the batch has no longer to transfer, the domain has.
TakenAccepted ==
  pc = "transfer" =>
    \A f \in batch : \A d \in Remote(f) : <<f, d>> \in pending \/ copies[<<f, d>>] > 0

\* The local recipient of f has been looked after.
LocalDone(f) == Local \in To[f] => "cur" \in where[f]

\* ... in every mail that is through filter_my_mail
LocalFirst ==
  \A f \in batch :
    pc \in {"transfer", "settle"} \/ (pc = "filter" /\ f \notin todo) => LocalDone(f)

\* f is in a batch that has yet to settle it.
InBatch(f) ==
  \/ pc = "transfer" /\ f \in batch
  \/ pc = "settle" /\ f \in todo

\* f may come into another batch though nothing fails.
Again(f) == where[f] \cap {"outside", "new"} # {} /\ ~InBatch(f)

\* The copies a domain has, those that are on their way, and the next one
Weight(p) ==
  copies[p] + flight[p] + Num(p \in pending) + Num(Again(p[1]))

\* Inductive: the copies to come are paid for as well.
CopiesPaid == \A p \in Pair : Weight(p) <= 1 + failures

IInv ==
  /\ TypeOK /\ Phases /\ Outside
  /\ SentAccepted /\ TakenAccepted /\ NoMailVanishes
  /\ CopiesPaid
  /\ "link" \notin Faults => LocalFirst /\ LocalMailKept
=============================================================================
