------------------------------ MODULE MxLookup ------------------------------
(***************************************************************************)
(* From a recipient domain to a socket: create_connection of protocol.c    *)
(* with the functions it calls.  One domain is looked up after the other.  *)
(*                                                                         *)
(* The resolver, the network and the kernel are outside: an answer has any *)
(* records, a host any number of addresses, and each call may fail.        *)
(***************************************************************************)
EXTENDS Integers, Sequences, Regexp

CONSTANTS
  Domain,       \* the recipient domains
  Host,         \* the mail servers
  NoHost,       \* of a record that is no MX record
  Prio,         \* the preferences of MX records
  Worst,        \* 999999, what prio_best starts with
  MaxRecords,   \* bound of the records in an answer
  MaxAddresses  \* bound of the addresses of a host

\* A preference has 16 bits.
ASSUME MxAssumption ==
  /\ NoHost \notin Host
  /\ Worst \in Nat /\ Prio \subseteq 0 .. Worst - 1
  /\ MaxRecords \in Nat /\ MaxAddresses \in Nat

VARIABLES
  step,    \* where create_connection is
  dom,     \* the domain it was called for
  answer,  \* history: the records read from the answer
  best,    \* prio_best and dns_addr_best
  left,    \* the addresses not yet tried
  sockets, \* how many sockets are open
  conns    \* the connections made, in order; up: the server is there

dnsVars == <<answer, best>>
mxVars == <<step, dom, dnsVars, left, sockets, conns>>

-----------------------------------------------------------------------------
MxRecord == [is : {"mx"}, prio : Prio, host : Host]
Record == MxRecord \cup [is : {"rr"}, prio : {0}, host : {NoHost}]

\* Before any MX record is read
NoBest == [prio |-> Worst, host |-> NoHost]

MxInit ==
  /\ step = "idle" /\ dom \in Domain
  /\ answer = <<>> /\ best = NoBest
  /\ left = 0 /\ sockets = 0 /\ conns = <<>>

\* create_connection returns 0.
GivesUp == step' = "idle" /\ UNCHANGED <<dom, dnsVars, sockets, conns>>

CreateConnection(d) ==
  /\ step = "idle"
  /\ step' = "query" /\ dom' = d
  /\ UNCHANGED <<dnsVars, left, sockets, conns>>

-----------------------------------------------------------------------------
(* check_dns *)

QueryFails ==
  /\ step = "query"
  /\ GivesUp /\ UNCHANGED left

QueryAnswers ==
  /\ step = "query"
  /\ step' = "records"
  /\ answer' = <<>> /\ best' = NoBest
  /\ UNCHANGED <<dom, left, sockets, conns>>

\* mutant: of equal preferences the last is taken
NoWorse(r) == r.prio <= best.prio

Better(r) == r.prio < best.prio

ReadRecord ==
  /\ step = "records" /\ Len(answer) < MaxRecords
  /\ \E r \in Record :
       /\ answer' = Append(answer, r)
       /\ best' = IF ReMatch("RE_mx_dns", r.is) /\ Better(r)
                    THEN [prio |-> r.prio, host |-> r.host] ELSE best
  /\ UNCHANGED <<step, dom, left, sockets, conns>>

NoMx ==
  /\ step = "records" /\ best.prio = Worst
  /\ GivesUp /\ UNCHANGED left

BestMx ==
  /\ step = "records" /\ best.prio < Worst
  /\ step' = "resolve"
  /\ UNCHANGED <<dom, dnsVars, left, sockets, conns>>

-----------------------------------------------------------------------------
(* getaddrinfo *)

NoAddress ==
  /\ step = "resolve"
  /\ GivesUp /\ UNCHANGED left

Addresses ==
  /\ step = "resolve"
  /\ step' = "connect"
  /\ left' \in 1 .. MaxAddresses
  /\ UNCHANGED <<dom, dnsVars, sockets, conns>>

-----------------------------------------------------------------------------
(* connect_to_any_with_timeout *)

\* mutant: the end of the list is looked for only after a failure
TakeBlindly == left' = left - 1

TakeAddress == left > 0 /\ left' = left - 1

SocketFails ==
  /\ step = "connect" /\ TakeAddress
  /\ UNCHANGED <<step, dom, dnsVars, sockets, conns>>

OpenSocket ==
  /\ step = "connect" /\ TakeAddress
  /\ step' = "connecting"
  /\ sockets' = sockets + 1
  /\ UNCHANGED <<dom, dnsVars, conns>>

\* mutant: the next address gets a socket, and this one is forgotten
NoClose == UNCHANGED sockets

Close == sockets' = sockets - 1

\* connect_with_timeout: an error at once, or nothing within the timeout
ConnectFails ==
  /\ step = "connecting"
  /\ step' = "connect"
  /\ Close
  /\ UNCHANGED <<dom, dnsVars, left, conns>>

\* connect_with_timeout returns the socket, and a connection is made of it.
\* poll() reports a socket that is connected, and one that has been refused;
\* SO_ERROR would tell which, but is not read.
Connect ==
  /\ step = "connecting"
  /\ step' = "idle"
  /\ \E up \in BOOLEAN :
       conns' = Append(conns, [dom |-> dom, host |-> best.host, up |-> up])
  /\ UNCHANGED <<dom, dnsVars, left, sockets>>

AddressesExhausted ==
  /\ step = "connect" /\ left = 0
  /\ GivesUp /\ UNCHANGED left

CheckDns == QueryFails \/ QueryAnswers \/ ReadRecord \/ NoMx \/ BestMx
ConnectToAny == SocketFails \/ OpenSocket \/ ConnectFails \/ Connect \/ AddressesExhausted
LookUp == CheckDns \/ NoAddress \/ Addresses \/ ConnectToAny

-----------------------------------------------------------------------------
(* Properties *)

\* The values the variables range over.
MxTypeOK ==
  /\ step \in {"idle", "query", "records", "resolve", "connect", "connecting"}
  /\ dom \in Domain
  /\ answer \in Seq(Record) /\ Len(answer) <= MaxRecords
  /\ best \in [prio : Prio \cup {Worst}, host : Host \cup {NoHost}]
  /\ left \in 0 .. MaxAddresses
  /\ sockets \in Nat
  /\ conns \in Seq([dom : Domain, host : Host, up : BOOLEAN])

\* check_dns keeps the best and its preference in two variables, over records
\* of any kind and order: what it has after each record is the first of the MX
\* records with the lowest preference, and nothing if there is none.
BestIsFirst ==
  LET mx == {k \in DOMAIN answer : answer[k].is = "mx"}
  IN  IF mx = {} THEN best = NoBest
      ELSE \E k \in mx :
             /\ best.prio = answer[k].prio /\ best.host = answer[k].host
             /\ \A j \in mx : answer[j].prio >= answer[k].prio
             /\ \A j \in mx : j < k => answer[j].prio > answer[k].prio

\* Whatever fails on the way through the addresses and the domains: a socket is
\* open for each connection, and none besides but the one that is being tried.
SocketsAccounted ==
  sockets = Len(conns) + IF step = "connecting" THEN 1 ELSE 0

\* Inductive: after check_dns there is a best server.
MxInv ==
  /\ MxTypeOK /\ BestIsFirst /\ SocketsAccounted
  /\ step \in {"resolve", "connect", "connecting"} => best.prio < Worst

\* "Tries to connect to any possible IPs of specified host; returns 0 on
\* failure, or socket on success" (connect_to_any_with_timeout).  Violated: a
\* refused connection is a success.
SocketMeansConnected == \A k \in DOMAIN conns : conns[k].up

\* Not more than one socket is to be made for one remote MX, or at least for
\* one IP (the task as tex/report.tex has it).  Violated: create_connection is
\* called for each domain, whatever server the others have.
OneSocketPerMx ==
  \A j, k \in DOMAIN conns : conns[j].host = conns[k].host => j = k
=============================================================================
