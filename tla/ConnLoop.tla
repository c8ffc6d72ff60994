------------------------------ MODULE ConnLoop ------------------------------
(***************************************************************************)
(* The mail transfer of one batch: what protocol.c does from conn_init,    *)
(* once the mails are read, to the end of conn_loop.  The client is one    *)
(* thread.  It connects to every recipient domain in turn, then serves all *)
(* connections with poll() until each is done, invalid or timed out, and   *)
(* then settles the mail files.  Each connection runs the machine of       *)
(* ClientFsm.                                                              *)
(*                                                                         *)
(* The servers and the network are not under src/: they are the weakest    *)
(* environment the client can meet.  A server may answer anything, late or *)
(* never, have its reply split on the way or lost, drop the connection at  *)
(* any moment, or stop reading what it is sent.  It still answers each     *)
(* command once, in order.                                                 *)
(***************************************************************************)
EXTENDS ClientFsm, FiniteSets

CONSTANTS
  ConnTimeout,  \* opts_connection_timeout(), in ticks of the clock
  PollTimeout   \* how long poll() waits at most, in ticks

ASSUME TimeoutAssumption ==
  /\ ConnTimeout \in Nat
  /\ PollTimeout \in Nat \ {0}

VARIABLES
  (* the client *)
  pc,        \* where the thread is
  i, k,      \* the cursors of the loop it is in
  domains,   \* the list of domains, in order of insertion
  open,      \* the domains whose connection is in the list connections
  count,     \* connectionsCount
  conn,      \* state, m and r of each connection, kept when it is freed
  sent,      \* was_sent of each mail
  age,       \* time since time_of_last_response, saturating
  dir,       \* the directory each mail file is in
  (* the sockets *)
  toServer,  \* commands that the server has not answered
  inbox,     \* replies that arrived and that the client has not read
  closed,    \* the server's end is closed, or was never there
  (* the servers *)
  env,       \* the envelope of the transaction in progress
  acc        \* the messages accepted: from and to of the envelope, and body

clientVars == <<pc, i, k, domains, open, count, conn, sent, dir>>
socketVars == <<toServer, inbox, closed>>
serverVars == <<env, acc>>
vars == <<clientVars, age, socketVars, serverVars>>

-----------------------------------------------------------------------------
(* Connections *)

Conn == [state : FsmState, m : 1 .. NullMail, r : Nat]
NoConn == [state |-> "INVALID", m |-> NullMail, r |-> 1]

Listed == {domains[j] : j \in DOMAIN domains}

\* The list connections is in the order of the list domains.
Before(e, d) ==
  \E j, l \in DOMAIN domains : j <= l /\ domains[j] = e /\ domains[l] = d

\* The index of an open connection in pfds, from 1
Slot(d) == Cardinality({e \in open : Before(e, d)})

\* Connections whose socket polls readable: there is data, or end of file.
Ready == {d \in open : inbox[d] # <<>> \/ closed[d]}

\* mutant: the scan stops one short
FoundShort(res) ==
  {d \in Ready : Slot(d) < res /\ \A e \in Ready : Before(e, d) => e = d}

\* The scan of pfds stops at res, the number of ready sockets: it finds the
\* first ready connection if its index is not beyond.
Found(res) ==
  {d \in Ready : Slot(d) <= res /\ \A e \in Ready : Before(e, d) => e = d}

\* pfds has connectionsCount entries and that counter never goes down: the
\* entries behind the open connections are not initialised.  Whatever is in
\* them, poll() counts g of them as ready.
Garbage == 0 .. (count - Cardinality(open))

-----------------------------------------------------------------------------
(* Servers *)

Good(verb) ==
  CASE verb = "CONNECT"                        -> "R220"
    [] verb \in {"HELO", "MAIL", "RCPT", "BODY"} -> "R250"
    [] verb = "DATA"                           -> "R354"
    [] verb = "QUIT"                           -> "R221"

Envelope == [from : Nat, to : SUBSET Nat]
NoEnvelope == [from |-> 0, to |-> {}]
Message == [from : Nat, to : SUBSET Nat, body : Nat]
Line == [code : ReplyCode, whole : BOOLEAN]

\* A command taken changes the envelope ...
EnvelopeAfter(c, e) ==
  CASE c.verb = "MAIL" -> [from |-> c.mail, to |-> {}]
    [] c.verb = "RCPT" -> [from |-> e.from, to |-> e.to \cup {c.rcpt}]
    [] c.verb = "BODY" -> NoEnvelope
    [] OTHER           -> e

\* ... and the end of the text makes a message of it.
MessagesAfter(c, e) ==
  IF c.verb = "BODY"
  THEN {[from |-> e.from, to |-> e.to, body |-> c.mail]}
  ELSE {}

\* What mail m is as one message to domain d
Full(m, d) == [from |-> m, to |-> RcptsFrom(m, d), body |-> m]

-----------------------------------------------------------------------------
Init ==
  /\ pc = "collect" /\ i = 1 /\ k = 1
  /\ domains = <<>> /\ open = {} /\ count = 0
  /\ conn = [d \in Domain |-> NoConn]
  /\ sent = [m \in Mails |-> FALSE]
  /\ dir = [m \in Mails |-> "new"]
  /\ age = [d \in Domain |-> 0]
  /\ toServer = [d \in Domain |-> <<>>]
  /\ inbox = [d \in Domain |-> <<>>]
  /\ closed = [d \in Domain |-> FALSE]
  /\ env = [d \in Domain |-> NoEnvelope]
  /\ acc = [d \in Domain |-> {}]

\* Time passes on the open connections.  Above ConnTimeout all ages are alike.
Aged(n) ==
  [d \in Domain |->
    IF d \notin open             THEN age[d]
    ELSE IF age[d] + n > ConnTimeout THEN ConnTimeout + 1
    ELSE age[d] + n]

-----------------------------------------------------------------------------
(* conn_init *)

\* mutant: the loop over the recipients goes on to NULL
PastLastRcpt == k = Len(Batch[i]) + 1

LastRcpt == k = Len(Batch[i])

\* domain_add for recipient k of mail i
DomainAdd ==
  /\ pc = "collect" /\ i \in Mails
  /\ domains' = IF Batch[i][k] \in Listed
                THEN domains ELSE Append(domains, Batch[i][k])
  /\ IF LastRcpt
     THEN i' = i + 1 /\ k' = 1
     ELSE i' = i     /\ k' = k + 1
  /\ UNCHANGED <<pc, open, count, conn, sent, dir, age, socketVars, serverVars>>

DomainsCollected ==
  /\ pc = "collect" /\ i \notin Mails
  /\ pc' = "connect" /\ i' = 1
  /\ UNCHANGED <<k, domains, open, count, conn, sent, dir, age, socketVars, serverVars>>

\* create_connection, with what conn_init does to its result.  poll() in
\* connect_with_timeout cannot tell a refused connection from an established
\* one: the connection may be closed from the start.
CreateConnection ==
  /\ pc = "connect" /\ i <= Len(domains)
  /\ LET d == domains[i]
         m == SeekMail(1, d)
     IN  /\ open' = open \cup {d}
         /\ count' = count + 1
         /\ conn' = [conn EXCEPT ![d] =
                       [state |-> "INIT", m |-> m, r |-> SeekRcpt(m, 1, d)]]
         /\ age' = [age EXCEPT ![d] = 0]
         /\ \E refused \in BOOLEAN :
              /\ closed' = [closed EXCEPT ![d] = refused]
              /\ toServer' = [toServer EXCEPT ![d] =
                   IF refused THEN <<>> ELSE <<Command("CONNECT", 0, 0)>>]
  /\ i' = i + 1
  /\ UNCHANGED <<pc, k, domains, sent, dir, inbox, serverVars>>

\* No MX entry, no address, or no address answers
CreateConnectionFails ==
  /\ pc = "connect" /\ i <= Len(domains)
  /\ i' = i + 1
  /\ UNCHANGED <<pc, k, domains, open, count, conn, sent, dir, age, socketVars, serverVars>>

ConnectionsCreated ==
  /\ pc = "connect" /\ i > Len(domains)
  /\ pc' = "loop"
  /\ UNCHANGED <<i, k, domains, open, count, conn, sent, dir, age, socketVars, serverVars>>

-----------------------------------------------------------------------------
(* conn_loop: wait_for_response *)

\* The condition of the loop
Waiting == pc = "loop" /\ open # {}

PollTimesOut ==
  /\ Waiting /\ Ready = {}
  /\ pc' = "sweep"
  /\ age' = Aged(PollTimeout)
  /\ UNCHANGED <<i, k, domains, open, count, conn, sent, dir, socketVars, serverVars>>

PollFails ==
  /\ Waiting
  /\ pc' = "sweep"
  /\ UNCHANGED <<i, k, domains, open, count, conn, sent, dir, age, socketVars, serverVars>>

\* parse_response on what recv() returned: all that has arrived, of which
\* only the first line counts, and only if it is complete.  Nobody looks at
\* what send() returns: on a closed connection the command is lost, or the
\* process is, to SIGPIPE (Crash).
ReadResponse(d) ==
  LET line == Head(inbox[d])
      event == IF line.whole THEN line.code ELSE "INVALID"
      out == FsmStep(conn[d], d, event)
  IN  /\ conn' = [conn EXCEPT ![d] = out.conn]
      /\ sent' = [m \in Mails |-> sent[m] \/ m \in out.mark]
      /\ age' = [age EXCEPT ![d] = 0]
      /\ inbox' = [inbox EXCEPT ![d] = <<>>]
      /\ toServer' = [toServer EXCEPT ![d] =
                        IF closed[d] THEN @ ELSE @ \o out.send]

\* connect_with_timeout leaves the sockets blocking, and send_datastr sends a
\* text of any length: with what the buffers of the socket do not take, send()
\* waits for the server to read it.  A command is short, and the server has
\* read all that went before it: it always fits.
MayWait(d) == conn'[d].state = "DATASTR" /\ ~closed[d]

ServeResponse ==
  /\ Waiting
  /\ \E g \in Garbage : \E d \in Found(Cardinality(Ready) + g) :
       /\ inbox[d] # <<>>
       /\ ReadResponse(d)
       /\ pc' = "sweep" \/ (pc' = "send" /\ MayWait(d))
  /\ UNCHANGED <<i, k, domains, open, count, dir, closed, serverVars>>

\* recv() returns 0 or -1: invalidate_connection
ServeDisconnect ==
  /\ Waiting
  /\ \E g \in Garbage : \E d \in Found(Cardinality(Ready) + g) :
       /\ inbox[d] = <<>>
       /\ conn' = [conn EXCEPT ![d].state = "INVALID"]
  /\ pc' = "sweep"
  /\ UNCHANGED <<i, k, domains, open, count, sent, dir, age, socketVars, serverVars>>

\* poll() found something, the scan did not.
NothingFound ==
  /\ Waiting
  /\ \E g \in Garbage : /\ Cardinality(Ready) + g > 0
                        /\ Found(Cardinality(Ready) + g) = {}
  /\ pc' = "sweep"
  /\ UNCHANGED <<i, k, domains, open, count, conn, sent, dir, age, socketVars, serverVars>>

\* The process ends and its sockets with it; the files and the servers stay.
Die ==
  /\ pc' = "crashed"
  /\ open' = {}
  /\ inbox' = [d \in Domain |-> <<>>]
  /\ UNCHANGED <<i, k, domains, count, conn, sent, dir, age, toServer, closed, serverVars>>

\* The scan took an uninitialised entry for a response: get_conn_by_socket
\* returns NULL, which wait_for_response dereferences.
GarbageFound ==
  /\ Waiting
  /\ \E g \in Garbage : /\ Cardinality(Ready) + g > Cardinality(open)
                        /\ Found(Cardinality(Ready) + g) = {}
  /\ Die

-----------------------------------------------------------------------------
(* conn_loop: the rest of a pass, and the end *)

\* mutant: only connections that poll() reports are looked at
ExpiredReady == {d \in Ready : age[d] > ConnTimeout}

Expired == {d \in open : age[d] > ConnTimeout}

\* mutant: invalid connections stay in the list
OverIfDone(c) == c.state = "DONE"

Over(c) == c.state \in Terminal

\* The pass over the connections: time out, and free what is over.
Sweep ==
  /\ pc = "sweep"
  /\ conn' = [d \in Domain |->
       IF d \in Expired THEN [conn[d] EXCEPT !.state = "INVALID"] ELSE conn[d]]
  /\ open' = {d \in open : ~Over(conn'[d])}
  /\ inbox' = [d \in Domain |-> IF d \in open' THEN inbox[d] ELSE <<>>]
  /\ pc' = "loop"
  /\ UNCHANGED <<i, k, domains, count, sent, dir, age, toServer, closed, serverVars>>

AllClosed ==
  /\ pc = "loop" /\ open = {}
  /\ pc' = "settle" /\ i' = 1
  /\ UNCHANGED <<k, domains, open, count, conn, sent, dir, age, socketVars, serverVars>>

\* mutant: every mail of the batch is deleted
DeletesAll(m) == "deleted"

\* delete_mail or move_mail
SettledIn(m) == IF sent[m] THEN "deleted" ELSE "not_sent"

\* When the file operation fails, the file stays in NEW.
SettleMail ==
  /\ pc = "settle" /\ i \in Mails
  /\ \E to \in {SettledIn(i), "new"} : dir' = [dir EXCEPT ![i] = to]
  /\ i' = i + 1
  /\ UNCHANGED <<pc, k, domains, open, count, conn, sent, age, socketVars, serverVars>>

BatchFinished ==
  /\ pc = "settle" /\ i \notin Mails
  /\ pc' = "final"
  /\ UNCHANGED <<i, k, domains, open, count, conn, sent, dir, age, socketVars, serverVars>>

-----------------------------------------------------------------------------
(* The environment *)

Tick ==
  /\ age' = Aged(1)
  /\ UNCHANGED <<clientVars, socketVars, serverVars>>

Crash ==
  /\ pc \notin {"final", "crashed"}
  /\ Die

\* The server answers its oldest command.  If the answer is the good one it
\* has taken the command; if it is one the client cannot make out it may
\* have.  Nobody reads the answer when the client has closed the socket.
ServerAnswers(d) ==
  /\ toServer[d] # <<>>
  /\ LET c == Head(toServer[d]) IN
     \E code \in ReplyCode, whole \in BOOLEAN, taken \in BOOLEAN :
       /\ code = Good(c.verb) => taken
       /\ taken => code \in {Good(c.verb), "INVALID"}
       /\ env' = [env EXCEPT ![d] = IF taken THEN EnvelopeAfter(c, @) ELSE @]
       /\ acc' = [acc EXCEPT ![d] =
                    IF taken THEN @ \cup MessagesAfter(c, env[d]) ELSE @]
       /\ inbox' = [inbox EXCEPT ![d] =
                    IF d \in open THEN Append(@, [code |-> code, whole |-> whole]) ELSE @]
  /\ toServer' = [toServer EXCEPT ![d] = Tail(@)]
  /\ UNCHANGED <<clientVars, age, closed>>

\* The buffers take the rest of a text, since the server reads or has gone:
\* send() returns, with a result that nobody looks at.
SendReturns ==
  /\ pc = "send"
  /\ pc' = "sweep"
  /\ UNCHANGED <<i, k, domains, open, count, conn, sent, dir, age, socketVars, serverVars>>

\* The rest of a split reply arrives.
ReplyCompletes(d) ==
  /\ inbox[d] # <<>> /\ ~Head(inbox[d]).whole
  /\ inbox' = [inbox EXCEPT ![d][1].whole = TRUE]
  /\ UNCHANGED <<clientVars, age, toServer, closed, serverVars>>

\* The server's end goes away, with the commands it has not answered.  It
\* may say so first, or take a reply that is on its way with it.
Goodbye == [code |-> "INVALID", whole |-> TRUE]

ServerDrops(d) ==
  /\ d \in open /\ ~closed[d]
  /\ closed' = [closed EXCEPT ![d] = TRUE]
  /\ toServer' = [toServer EXCEPT ![d] = <<>>]
  /\ \E left \in {inbox[d], <<>>, Append(inbox[d], Goodbye)} :
       inbox' = [inbox EXCEPT ![d] = left]
  /\ UNCHANGED <<clientVars, age, serverVars>>

-----------------------------------------------------------------------------
ConnInit == DomainAdd \/ DomainsCollected
            \/ CreateConnection \/ CreateConnectionFails \/ ConnectionsCreated

WaitForResponse == PollTimesOut \/ PollFails \/ ServeResponse \/ ServeDisconnect
                   \/ NothingFound \/ GarbageFound

Finish == AllClosed \/ SettleMail \/ BatchFinished

ClientStep == ConnInit \/ WaitForResponse \/ Sweep \/ Finish

Environment ==
  Tick \/ Crash \/ SendReturns
  \/ \E d \in Domain : ServerAnswers(d) \/ ReplyCompletes(d) \/ ServerDrops(d)

Next == ClientStep \/ Environment

Spec == Init /\ [][Next]_vars

\* The text that server d was sent is neither answered nor lost in a drop: it
\* may be that the server does not read it.
HoldsOut(d) == toServer[d] # <<>> /\ Head(toServer[d]).verb = "BODY"

\* send() returns at the latest when every text is answered or its server gone.
SendIsOver == SendReturns /\ \A d \in open : ~HoldsOut(d)

\* The thread is scheduled and the clock runs; of the servers nothing is asked,
\* not even that they read.
Fairness == WF_vars(ClientStep) /\ WF_vars(Tick) /\ WF_vars(SendIsOver)

FairSpec == Spec /\ Fairness

-----------------------------------------------------------------------------
(* Type invariant *)

\* The values the variables range over, and the cursors in their loops.
TypeOK ==
  /\ pc \in {"collect", "connect", "loop", "send", "sweep", "settle", "final", "crashed"}
  /\ i \in Nat \ {0} /\ k \in Nat \ {0}
  /\ pc = "collect" /\ i \in Mails => k \in DOMAIN Batch[i]
  /\ domains \in Seq(Domain) /\ open \subseteq Domain /\ count \in Nat
  /\ conn \in [Domain -> Conn]
  /\ sent \in [Mails -> BOOLEAN]
  /\ dir \in [Mails -> {"new", "deleted", "not_sent"}]
  /\ age \in [Domain -> 0 .. ConnTimeout + 1]
  /\ toServer \in [Domain -> Seq([verb : Verb, mail : Nat, rcpt : Nat])]
  /\ inbox \in [Domain -> Seq(Line)]
  /\ closed \in [Domain -> BOOLEAN]
  /\ env \in [Domain -> Envelope]
  /\ acc \in [Domain -> SUBSET Message]

-----------------------------------------------------------------------------
(* Safety *)

AllFor(d) == {Full(m, d) : m \in MailsFor(d)}
Earlier(m, d) == {Full(n, d) : n \in {n \in MailsFor(d) : n < m}}

\* Whether server d, with what it has accepted and its present envelope, is
\* at the point of the session where command c is due.
InOrder(c, d) ==
  CASE c.verb \in {"CONNECT", "HELO"} ->
         env[d] = NoEnvelope /\ acc[d] = {}
    [] c.verb = "MAIL" ->
         /\ c.mail \in MailsFor(d)
         /\ env[d] = NoEnvelope /\ acc[d] = Earlier(c.mail, d)
    [] c.verb = "RCPT" ->
         /\ c.mail \in MailsFor(d) /\ c.rcpt \in RcptsFrom(c.mail, d)
         /\ env[d] = [from |-> c.mail,
                      to |-> {j \in RcptsFrom(c.mail, d) : j < c.rcpt}]
         /\ acc[d] = Earlier(c.mail, d)
    [] c.verb = "DATA" ->
         /\ env[d].from \in MailsFor(d)
         /\ env[d].to = RcptsFrom(env[d].from, d)
         /\ acc[d] = Earlier(env[d].from, d)
    [] c.verb = "BODY" ->
         /\ c.mail \in MailsFor(d)
         /\ env[d] = [from |-> c.mail, to |-> RcptsFrom(c.mail, d)]
         /\ acc[d] = Earlier(c.mail, d)
    [] c.verb = "QUIT" ->
         env[d] = NoEnvelope /\ acc[d] = AllFor(d)

\* Whatever the replies, the order they are read in, the failures of other
\* connections and the timeouts, every command that waits at a server is the
\* one its session is due: mails in the order of the list, no mail offered
\* twice, each recipient of the domain named once, in order and before DATA,
\* the text that belongs to the envelope, QUIT only after everything.
\* (smtp_client_fsm_step with the send_* functions, against late events)
CommandsInOrder ==
  \A d \in Domain : toServer[d] # <<>> => InOrder(Head(toServer[d]), d)

\* What a server accepts is always a mail of the batch with its own text and
\* with all and only its recipients at that domain, also when the client gave
\* the connection up or died in between.
MessagesWhole ==
  \A d \in Domain : acc[d] \subseteq AllFor(d)

\* A connection that ends DONE ("All mail for domain '%s' was successfully
\* sent!") has had every mail for its domain accepted.
DoneMeansAccepted ==
  \A d \in Domain : conn[d].state = "DONE" => acc[d] = AllFor(d)

\* A mail is marked sent, and its file deleted, only if some server has
\* accepted it: nothing is lost without a trace.
SentMeansAccepted ==
  \A m \in Mails : sent[m] \/ dir[m] = "deleted" =>
    \E d \in Domain : Full(m, d) \in acc[d]

\* Client and server never wait for each other: on a connection that is
\* neither terminal nor dropped either exactly one command is at the server
\* or exactly one reply at the client.  The way out is MAILFROM_R250, which
\* would fall silent if send_rcptto found nobody to name.
NoMutualWait ==
  \A d \in open : conn[d].state \in Working /\ ~closed[d] =>
    Len(toServer[d]) + Len(inbox[d]) = 1

\* The machine is never stepped out of DONE or INVALID, from where it would
\* start again at INIT, and no closed connection comes back.
NoRevival ==
  [][\A d \in Domain :
       conn[d].state \in Terminal /\ (d \in open \/ pc # "connect") =>
         conn'[d].state \in Terminal]_vars

-----------------------------------------------------------------------------
(* What the scan does and does not guarantee *)

\* While some connection has an answer or has ended, the scan cannot run into
\* the uninitialised entries of pfds without finding a real one first: the
\* process can be lost to them only when no connection has anything to read.
ScanStaysInside ==
  Waiting /\ Ready # {} =>
    \A g \in Garbage : Found(Cardinality(Ready) + g) = {} =>
      Cardinality(Ready) + g < Cardinality(open)

\* "Waiting for response from any SMTP server; if there was any, returns 1"
\* (wait_for_response): when a response is there, the scan finds something.
AnyResponseIsFound ==
  Waiting /\ (\E d \in open : inbox[d] # <<>>) => Found(Cardinality(Ready)) # {}

\* "Mail '%s' was successfully sent. Deleting file from NEW directory."
\* (conn_loop): a mail whose file is deleted has reached all its recipients.
DeletedMeansDelivered ==
  \A m \in Mails : dir[m] = "deleted" =>
    \A d \in Domain : MailHasRcptsFrom(m, d) => Full(m, d) \in acc[d]

-----------------------------------------------------------------------------
(* Liveness *)

\* The thread waits in send() and does not come to the timeouts of conn_loop.
HeldUp == pc = "send" /\ \E d \in open : HoldsOut(d)

\* Silent, slow or missed servers cannot hold a batch up for ever: every
\* connection ends by its dialogue or by its timeout, and the files are settled
\* (conn_loop).  What can is one thing alone, a server that for ever neither
\* reads the text it is sent nor goes away.
BatchEnds == <>(pc \in {"final", "crashed"}) \/ <>[]HeldUp

-----------------------------------------------------------------------------
(* Refinement *)

Delivered == [d \in Domain |-> {msg.body : msg \in acc[d] \cap AllFor(d)}]

Fate == INSTANCE MailFate WITH
  Mail <- Mails, ToDomain <- [d \in Domain |-> MailsFor(d)],
  delivered <- Delivered, file <- dir

\* Commands, replies, timeouts, crashes and failing file operations come down
\* to this: each domain accepts its mails whole, once and in the order of the
\* batch, and a file leaves NEW by deletion only after an acceptance.
FateSpec == Fate!Spec

-----------------------------------------------------------------------------
(* The inductive invariant *)

\* The list of domains: no duplicates, each with a mail
DomainsOK ==
  /\ \A j \in DOMAIN domains : MailsFor(domains[j]) # {}
  /\ \A j, l \in DOMAIN domains : domains[j] = domains[l] => j = l

\* Which domains create_connection has been called for
Tried == IF pc = "collect" THEN {} ELSE {domains[j] : j \in {j \in DOMAIN domains : j < i}}

Fresh(d) == /\ toServer[d] = <<>> /\ inbox[d] = <<>>
            /\ env[d] = NoEnvelope /\ acc[d] = {}

Phases ==
  /\ pc \in {"collect", "connect"} =>
       open \subseteq Tried /\ \A d \in Domain \ Tried : Fresh(d)
  /\ pc \in {"settle", "final", "crashed"} => open = {}
  /\ pc \notin {"send", "sweep"} => \A d \in open : conn[d].state \in Working

\* A connection is to a domain of the list: it has a place in pfds.
OpenListed == open \subseteq Listed

\* No file leaves NEW before its turn at the end of conn_loop.
UntilSettled ==
  \A m \in Mails : dir[m] # "new" =>
    pc \in {"final", "crashed"} \/ (pc = "settle" /\ m < i)

\* The sockets: one command at most, none on a connection the server dropped,
\* and no reply where the client has closed.
Sockets ==
  \A d \in Domain : /\ Len(toServer[d]) <= 1
                    /\ closed[d] => toServer[d] = <<>>
                    /\ d \notin open => inbox[d] = <<>>

\* The command whose reply a connection waits for
Awaited(c) ==
  CASE c.state = "INIT"     -> Command("CONNECT", 0, 0)
    [] c.state = "HELO"     -> Command("HELO", 0, 0)
    [] c.state = "MAILFROM" -> Command("MAIL", c.m, 0)
    [] c.state = "RCPTTO"   -> Command("RCPT", c.m, c.r - 1)
    [] c.state = "DATA"     -> Command("DATA", 0, 0)
    [] c.state = "DATASTR"  -> Command("BODY", c.m, 0)
    [] c.state = "QUIT"     -> Command("QUIT", 0, 0)

\* The cursors of a connection: its mail is one for its domain, and until the
\* first RCPT no recipient of the domain is passed over.
Cursors(c, d) ==
  /\ c.state \in {"INIT", "HELO"} => \A n \in MailsFor(d) : c.m <= n
  /\ c.state \in {"INIT", "HELO", "MAILFROM"} =>
       c.m \in MailsFor(d) /\ \A j \in RcptsFrom(c.m, d) : c.r <= j
  /\ c.state = "RCPTTO" => c.m \in MailsFor(d) /\ c.r - 1 \in RcptsFrom(c.m, d)
  /\ c.state \in {"DATA", "DATASTR"} => c.m \in MailsFor(d)

\* Where the server is when it has taken the command a connection awaits
Taken(c, d) ==
  CASE c.state \in {"INIT", "HELO"} -> env[d] = NoEnvelope /\ acc[d] = {}
    [] c.state = "MAILFROM" ->
         env[d] = [from |-> c.m, to |-> {}] /\ acc[d] = Earlier(c.m, d)
    [] c.state = "RCPTTO" ->
         /\ env[d] = [from |-> c.m, to |-> {j \in RcptsFrom(c.m, d) : j < c.r}]
         /\ acc[d] = Earlier(c.m, d)
    [] c.state = "DATA" ->
         env[d] = [from |-> c.m, to |-> RcptsFrom(c.m, d)] /\ acc[d] = Earlier(c.m, d)
    [] c.state = "DATASTR" ->
         env[d] = NoEnvelope /\ acc[d] = Earlier(c.m, d) \cup {Full(c.m, d)}
    [] c.state = "QUIT" -> env[d] = NoEnvelope /\ acc[d] = AllFor(d)

\* The two ends of an open connection: either the command is at the server,
\* for the mail the client is at, or its reply is at the client, and then a
\* good one means what it says; or the server has dropped the connection.
Session(c, d) ==
  /\ toServer[d] # <<>> =>
       /\ inbox[d] = <<>> /\ Head(toServer[d]) = Awaited(c)
       /\ c.state = "DATA" => env[d].from = c.m
  /\ inbox[d] # <<>> /\ Head(inbox[d]).code = Good(Awaited(c).verb) => Taken(c, d)
  /\ inbox[d] = <<>> => toServer[d] # <<>> \/ closed[d]
  /\ ~closed[d] => Len(inbox[d]) <= 1

Sessions ==
  \A d \in open : conn[d].state \in Working => Cursors(conn[d], d) /\ Session(conn[d], d)

\* Inductive: the properties above, and what ties the two ends together
IInv ==
  /\ TypeOK /\ DomainsOK /\ Phases /\ OpenListed /\ UntilSettled
  /\ Sockets /\ Sessions
  /\ CommandsInOrder /\ MessagesWhole /\ DoneMeansAccepted /\ SentMeansAccepted
=============================================================================
