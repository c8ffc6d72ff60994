--------------------------- MODULE MxLookupProofs ---------------------------
(* The inductive invariant of MxLookup, action by action. *)
EXTENDS MxLookup, TLAPS

\* Which records match
LEMMA MxMatches ==
  ASSUME NEW kind \in {"mx", "rr"}
  PROVE  ReMatch("RE_mx_dns", kind) <=> kind = "mx"
BY DEF ReMatch, Patterns

\* A record is an MX record with its server, or has none.
LEMMA Records ==
  ASSUME NEW rec \in Record
  PROVE  /\ rec.is \in {"mx", "rr"}
         /\ rec.is = "mx" => rec.prio \in Prio /\ rec.prio \in 0 .. Worst - 1 /\ rec.host \in Host
BY MxAssumption DEF Record, MxRecord

\* A record more is behind the others.
LEMMA Longer ==
  ASSUME NEW S, NEW s \in Seq(S), NEW e \in S
  PROVE  /\ Append(s, e) \in Seq(S)
         /\ Len(Append(s, e)) = Len(s) + 1
         /\ \A k \in 1 .. Len(s) : Append(s, e)[k] = s[k]
         /\ Append(s, e)[Len(s) + 1] = e
OBVIOUS

\* If there is a best server, it is one.
LEMMA BestIsHost ==
  ASSUME MxInv, best.prio < Worst
  PROVE  best.host \in Host
<1>1. answer \in Seq(Record) /\ BestIsFirst
  BY DEF MxInv, MxTypeOK
<1>2. best # NoBest
  BY MxAssumption DEF NoBest
<1>3. PICK k \in DOMAIN answer : answer[k].is = "mx" /\ best.host = answer[k].host
  BY <1>1, <1>2 DEF BestIsFirst
<1>. QED BY <1>1, <1>3, Records

-----------------------------------------------------------------------------
\* At first no domain is looked up.
LEMMA MxInitInv == MxInit => MxInv
<1> SUFFICES ASSUME MxInit PROVE MxInv
  OBVIOUS
<1>1. MxTypeOK
  <2>1. <<>> \in Seq(Record) /\ <<>> \in Seq([dom : Domain, host : Host, up : BOOLEAN])
    OBVIOUS
  <2>. QED BY <2>1, MxAssumption DEF MxInit, MxTypeOK, NoBest
<1>2. BestIsFirst
  BY DEF MxInit, BestIsFirst
<1>. QED BY <1>1, <1>2 DEF MxInit, MxInv, SocketsAccounted

\* Nothing of it changes.
LEMMA MxFrame ==
  ASSUME MxInv, UNCHANGED mxVars
  PROVE  MxInv'
BY DEF MxInv, mxVars, dnsVars, MxTypeOK, BestIsFirst, SocketsAccounted

\* create_connection is called.
LEMMA CreateKeeps ==
  ASSUME MxInv, NEW d \in Domain, CreateConnection(d)
  PROVE  MxInv'
BY DEF MxInv, CreateConnection, dnsVars, MxTypeOK, BestIsFirst, SocketsAccounted

\* What leaves the answer and the best of it alone
LEMMA BestFrame ==
  ASSUME BestIsFirst, UNCHANGED dnsVars
  PROVE  BestIsFirst'
BY DEF BestIsFirst, dnsVars

\* check_dns: another record
LEMMA ReadRecordKeeps ==
  ASSUME MxInv, ReadRecord
  PROVE  MxInv'
<1> USE DEF MxInv, MxTypeOK
<1>1. PICK rec \in Record :
        /\ answer' = Append(answer, rec)
        /\ best' = IF ReMatch("RE_mx_dns", rec.is) /\ Better(rec)
                     THEN [prio |-> rec.prio, host |-> rec.host] ELSE best
  BY DEF ReadRecord
<1>2. /\ step = "records" /\ Len(answer) < MaxRecords
      /\ UNCHANGED <<step, dom, left, sockets, conns>>
  BY DEF ReadRecord
<1>3. /\ answer' \in Seq(Record) /\ Len(answer') = Len(answer) + 1
      /\ answer'[Len(answer) + 1] = rec
      /\ \A k \in 1 .. Len(answer) : answer'[k] = answer[k]
  BY <1>1, Longer
<1>4. DOMAIN answer = 1 .. Len(answer) /\ DOMAIN answer' = 1 .. Len(answer) + 1
  BY <1>3
<1>5. \A k \in DOMAIN answer : answer[k].is = "mx" => answer[k].prio \in 0 .. Worst - 1
  BY Records
<1>6. best.prio \in 0 .. Worst
  <2>1. best.prio \in Prio \cup {Worst}
    OBVIOUS
  <2>2. Prio \subseteq 0 .. Worst /\ Worst \in 0 .. Worst
    BY MxAssumption
  <2>. QED BY <2>1, <2>2
<1>9. SocketsAccounted' /\ (step' \in {"resolve", "connect", "connecting"} => best'.prio < Worst)
  BY <1>2 DEF SocketsAccounted
<1>10. ASSUME best' \in [prio : Prio \cup {Worst}, host : Host \cup {NoHost}]
       PROVE  MxTypeOK'
  <2>1. Len(answer') <= MaxRecords
    BY <1>2, <1>3, MxAssumption
  <2>. QED BY <1>2, <1>3, <1>10, <2>1
<1> DEFINE mx == {k \in DOMAIN answer : answer[k].is = "mx"}
           mx1 == {k \in DOMAIN answer' : answer'[k].is = "mx"}
           n == Len(answer) + 1
<1>7. CASE rec.is = "mx" /\ Better(rec)
  <2>1. best' = [prio |-> rec.prio, host |-> rec.host]
    BY <1>1, <1>7, MxMatches, Records
  <2>2. \A k \in mx : answer[k].prio > rec.prio
    <3> SUFFICES ASSUME NEW k \in mx PROVE answer[k].prio > rec.prio
      OBVIOUS
    <3>1. answer[k].prio >= best.prio
      BY DEF BestIsFirst
    <3>. QED BY <1>5, <1>6, <1>7, <3>1, Records DEF Better
  <2>3. mx1 = mx \cup {n}
    BY <1>3, <1>4, <1>7
  <2>4. \A k \in mx1 : answer'[k].prio >= rec.prio /\ (k < n => answer'[k].prio > rec.prio)
    <3> SUFFICES ASSUME NEW k \in mx1
                 PROVE  answer'[k].prio >= rec.prio /\ (k < n => answer'[k].prio > rec.prio)
      OBVIOUS
    <3>1. CASE k = n
      BY <1>3, <1>7, <3>1, Records
    <3>2. CASE k \in mx
      <4>1. answer'[k] = answer[k] /\ answer[k].prio \in 0 .. Worst - 1
        BY <1>3, <1>4, <1>5, <3>2
      <4>. QED BY <2>2, <3>2, <4>1, <1>7, Records
    <3>. QED BY <2>3, <3>1, <3>2
  <2>5. BestIsFirst'
    <3>1. n \in mx1 /\ best'.prio = answer'[n].prio /\ best'.host = answer'[n].host
      BY <1>3, <2>1, <2>3
    <3>. QED BY <1>3, <2>4, <3>1 DEF BestIsFirst
  <2>6. best' \in [prio : Prio \cup {Worst}, host : Host \cup {NoHost}]
    BY <1>7, <2>1, Records
  <2>. QED BY <1>9, <1>10, <2>5, <2>6
<1>8. CASE ~(rec.is = "mx" /\ Better(rec))
  <2>1. best' = best
    BY <1>1, <1>8, MxMatches, Records
  <2>2. mx1 \subseteq mx \cup {n} /\ mx \subseteq mx1
    BY <1>3, <1>4
  <2>3. n \in mx1 => rec.is = "mx" /\ rec.prio >= best.prio /\ rec.prio < Worst
    <3> SUFFICES ASSUME n \in mx1
                 PROVE  rec.is = "mx" /\ rec.prio >= best.prio /\ rec.prio < Worst
      OBVIOUS
    <3>1. rec.is = "mx"
      BY <1>3
    <3>2. rec.prio \in 0 .. Worst - 1 /\ ~(rec.prio < best.prio)
      BY <1>8, <3>1, Records DEF Better
    <3>3. Worst \in Nat
      BY MxAssumption
    <3>. QED BY <1>6, <3>1, <3>2, <3>3
  <2>4. CASE mx = {}
    <3>1. best = NoBest
      BY <2>4 DEF BestIsFirst
    <3>2. n \notin mx1
      BY <2>3, <3>1, Records, MxAssumption DEF NoBest
    <3>3. mx1 = {}
      BY <2>2, <2>4, <3>2
    <3>4. BestIsFirst'
      BY <2>1, <3>1, <3>3 DEF BestIsFirst, NoBest
    <3>. QED BY <1>9, <1>10, <2>1, <3>4
  <2>5. CASE mx # {}
    <3>1. PICK k \in mx :
             /\ best.prio = answer[k].prio /\ best.host = answer[k].host
             /\ \A j \in mx : answer[j].prio >= answer[k].prio
             /\ \A j \in mx : j < k => answer[j].prio > answer[k].prio
      BY <2>5 DEF BestIsFirst
    <3>2. k \in mx1 /\ answer'[k] = answer[k] /\ k < n
      BY <1>3, <1>4, <2>2
    <3>3. \A j \in mx1 : /\ answer'[j].prio >= answer'[k].prio
                         /\ j < k => answer'[j].prio > answer'[k].prio
      <4> SUFFICES ASSUME NEW j \in mx1
                   PROVE  /\ answer'[j].prio >= answer'[k].prio
                          /\ j < k => answer'[j].prio > answer'[k].prio
        OBVIOUS
      <4>1. CASE j = n
        BY <1>3, <2>3, <3>1, <3>2, <4>1
      <4>2. CASE j \in mx
        BY <1>3, <1>4, <3>1, <3>2, <4>2
      <4>. QED BY <2>2, <4>1, <4>2
    <3>4. BestIsFirst'
      BY <2>1, <3>1, <3>2, <3>3 DEF BestIsFirst
    <3>. QED BY <1>9, <1>10, <2>1, <3>4
  <2>. QED BY <2>4, <2>5
<1>. QED BY <1>7, <1>8

\* connect_with_timeout: a connection more, for the socket that was being tried
LEMMA ConnectKeeps ==
  ASSUME MxInv, Connect
  PROVE  MxInv'
<1> USE DEF MxInv, MxTypeOK
<1>1. PICK up \in BOOLEAN :
        conns' = Append(conns, [dom |-> dom, host |-> best.host, up |-> up])
  BY DEF Connect
<1>2. step = "connecting" /\ step' = "idle" /\ UNCHANGED <<dom, answer, best, left, sockets>>
  BY DEF Connect, dnsVars
<1>3. best.host \in Host
  BY <1>2, BestIsHost
<1>4. /\ conns' \in Seq([dom : Domain, host : Host, up : BOOLEAN])
      /\ Len(conns') = Len(conns) + 1
  BY <1>1, <1>3, Longer
<1>5. BestIsFirst'
  BY <1>2, BestFrame DEF dnsVars
<1>. QED BY <1>2, <1>4, <1>5 DEF SocketsAccounted

\* The other steps: what they open they count, and the best is left alone.
LEMMA LookUpKeeps ==
  ASSUME MxInv, LookUp
  PROVE  MxInv'
<1> USE DEF MxInv, MxTypeOK
<1>1. CASE QueryFails \/ NoMx \/ NoAddress \/ AddressesExhausted
  <2>1. /\ step' = "idle" /\ step # "connecting"
        /\ UNCHANGED <<dom, answer, best, left, sockets, conns>>
    BY <1>1 DEF QueryFails, NoMx, NoAddress, AddressesExhausted, GivesUp, dnsVars
  <2>2. BestIsFirst'
    BY <2>1, BestFrame DEF dnsVars
  <2>. QED BY <2>1, <2>2 DEF SocketsAccounted
<1>2. CASE QueryAnswers
  <2>1. /\ step = "query" /\ step' = "records" /\ answer' = <<>> /\ best' = NoBest
        /\ UNCHANGED <<dom, left, sockets, conns>>
    BY <1>2 DEF QueryAnswers
  <2>2. BestIsFirst'
    BY <2>1 DEF BestIsFirst, NoBest
  <2>3. answer' \in Seq(Record) /\ Len(answer') <= MaxRecords
    BY <2>1, MxAssumption
  <2>4. best' \in [prio : Prio \cup {Worst}, host : Host \cup {NoHost}]
    BY <2>1 DEF NoBest
  <2>. QED BY <2>1, <2>2, <2>3, <2>4 DEF SocketsAccounted
<1>3. CASE BestMx
  <2>1. BestIsFirst'
    BY <1>3, BestFrame DEF BestMx
  <2>. QED BY <1>3, <2>1 DEF BestMx, dnsVars, SocketsAccounted
<1>4. CASE Addresses
  <2>1. BestIsFirst'
    BY <1>4, BestFrame DEF Addresses
  <2>. QED BY <1>4, <2>1, MxAssumption DEF Addresses, dnsVars, SocketsAccounted
<1>5. CASE SocketFails \/ OpenSocket \/ ConnectFails
  <2>1. BestIsFirst'
    BY <1>5, BestFrame DEF SocketFails, OpenSocket, ConnectFails
  <2>2. left' \in 0 .. MaxAddresses
    BY <1>5, MxAssumption DEF SocketFails, OpenSocket, ConnectFails, TakeAddress
  <2>3. UNCHANGED <<dom, answer, best, conns>> /\ step' \in {"connect", "connecting"}
    BY <1>5 DEF SocketFails, OpenSocket, ConnectFails, dnsVars
  <2>4. SocketsAccounted' /\ sockets' \in Nat
    <3>1. Len(conns) \in Nat
      OBVIOUS
    <3>. QED BY <1>5, <3>1
         DEF SocketFails, OpenSocket, ConnectFails, Close, SocketsAccounted
  <2>5. step \in {"connect", "connecting"}
    BY <1>5 DEF SocketFails, OpenSocket, ConnectFails
  <2>. QED BY <2>1, <2>2, <2>3, <2>4, <2>5
<1>. QED BY <1>1, <1>2, <1>3, <1>4, <1>5, ReadRecordKeeps, ConnectKeeps
     DEF LookUp, CheckDns, ConnectToAny
=============================================================================
