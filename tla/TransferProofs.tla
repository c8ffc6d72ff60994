--------------------------- MODULE TransferProofs ---------------------------
(* That ConnLoop does what MailRun has for the transfer of a batch. *)
EXTENDS Transfer, ConnLoopProofs

-----------------------------------------------------------------------------
(* The instance of MailRun *)

\* The domains of the recipients of a mail are those that it is for, and one
\* at least.
LEMMA RemoteIs ==
  ASSUME NEW m \in Mails
  PROVE  /\ Run!Remote(m) \subseteq Domain /\ Run!Remote(m) # {}
         /\ \A d \in Domain : d \in Run!Remote(m) <=> m \in MailsFor(d)
         /\ ~Run!HasLocalRcpt(m)
<1>1. /\ Batch[m] \in Seq(Domain) /\ Len(Batch[m]) \in Nat \ {0}
      /\ DOMAIN Batch[m] = 1 .. Len(Batch[m])
  BY BatchShape
<1>2. DOMAIN Batch[m] # {} /\ \A r \in DOMAIN Batch[m] : Batch[m][r] \in Domain
  <2>1. 1 \in DOMAIN Batch[m]
    BY <1>1
  <2>2. QED
    BY <1>1, <2>1
<1>3. RcptDomains[m] = {Batch[m][r] : r \in DOMAIN Batch[m]}
  BY DEF RcptDomains
<1>4. RcptDomains[m] \subseteq Domain /\ RcptDomains[m] # {} /\ Local \notin RcptDomains[m]
  BY <1>2, <1>3, LocalAssumption
<1>5. \A d \in Domain : d \in RcptDomains[m] <=> m \in MailsFor(d)
  BY <1>3 DEF MailsFor, MailHasRcptsFrom, RcptsFrom
<1>6. QED
  BY <1>4, <1>5 DEF Run!Remote, Run!HasLocalRcpt

\* What MailRun assumes of its constants holds of those it is given here.
LEMMA RunAssumptions == Run!FileAssumption /\ Run!BoundAssumption
<1>1. RcptDomains \in [Mails -> SUBSET (Domain \cup {Local})]
  <2>1. \A m \in Mails : RcptDomains[m] \subseteq Domain
    BY RemoteIs, LocalAssumption DEF Run!Remote, Run!HasLocalRcpt
  <2>2. QED
    BY <2>1 DEF RcptDomains
<1>2. NullMail \in Nat
  BY BatchAssumption DEF NullMail
<1>3. QED
  BY <1>1, <1>2, LocalAssumption DEF Run!FileAssumption, Run!BoundAssumption, Run!Fault

\* A transfer begins where MailRun's does.
LEMMA HInitMaps == HInit => Run!AtTransfer
<1> SUFFICES ASSUME HInit PROVE Run!AtTransfer
  OBVIOUS
<1>1. /\ pc = "collect" /\ failed = 0
      /\ \A m \in Mails : dir[m] = "new" /\ ~sent[m]
      /\ \A d \in Domain : acc[d] = {}
  BY DEF HInit, Init
<1>2. Accepted = {}
  <2>1. \A p \in Pairs : acc[p[2]] = {}
    BY <1>1 DEF Pairs
  <2>2. QED
    BY <2>1 DEF Accepted
<1>3. /\ Transferring /\ MainPc = "transfer" /\ InHand = Mails /\ Unsettled = {}
      /\ MarkedSent = {}
  BY <1>1 DEF Transferring, MainPc, InHand, Unsettled, MarkedSent
<1>4. Where = [m \in Mails |-> {"new"}]
  BY <1>1 DEF Where
<1>5. /\ Flight = [p \in Mails \X Domain |-> 0]
      /\ Copies = [p \in Mails \X Domain |-> 0]
  BY <1>2, <1>3 DEF Flight, Copies
<1>6. Pending = {p \in Mails \X Domain : p[2] \in Run!Remote(p[1])}
  BY <1>2, <1>3, RemoteIs DEF Pending, Due, Pairs
<1>7. QED
  BY <1>1, <1>3, <1>4, <1>5, <1>6, RemoteIs DEF Run!AtTransfer, Run!Pair
-----------------------------------------------------------------------------
(* What changes nothing for MailRun *)

\* What is accepted is what MailFate has as delivered, before a step and after.
LEMMA AcceptedIs ==
  /\ Accepted = {p \in Mails \X Domain : p[1] \in Delivered[p[2]]}
  /\ Accepted' = {p \in Mails \X Domain : p[1] \in Delivered'[p[2]]}
<1>1. ASSUME NEW m \in Mails, NEW d \in Domain
      PROVE  /\ m \in Delivered[d] <=> m \in MailsFor(d) /\ Full(m, d) \in acc[d]
             /\ m \in Delivered'[d] <=> m \in MailsFor(d) /\ Full(m, d) \in acc'[d]
  BY DEF Delivered, AllFor, Full
<1>2. QED
  BY <1>1 DEF Accepted, Pairs

\* Without an acceptance there is nothing new in what is accepted.
LEMMA AcceptedSame ==
  ASSUME UNCHANGED Delivered
  PROVE  UNCHANGED <<Accepted, Due>>
BY AcceptedIs DEF Due

LEMMA DeliveredSame ==
  ASSUME UNCHANGED acc
  PROVE  UNCHANGED Delivered
BY DEF Delivered, AllFor

\* The transfer goes on, and no mail is marked or accepted.
LEMMA QuietTransfer ==
  ASSUME Transferring, Transferring', UNCHANGED <<dir, sent, Delivered, failed>>
  PROVE  UNCHANGED Run!vars
<1>1. /\ UNCHANGED <<MainPc, InHand, Unsettled>>
      /\ MainPc = "transfer" /\ InHand = Mails
  BY DEF Transferring, MainPc, InHand, Unsettled
<1>2. UNCHANGED <<Where, MarkedSent, Accepted, Due>>
  BY <1>1, AcceptedSame DEF Where, MarkedSent
<1>3. UNCHANGED <<Pending, Flight, Copies>>
  BY <1>2 DEF Pending, Flight, Copies
<1>4. QED
  BY <1>1, <1>2, <1>3 DEF Run!vars, Run!listVars, Run!transferVars

\* The client does nothing, and no mail is accepted.
LEMMA QuietElsewhere ==
  ASSUME UNCHANGED <<pc, i, dir, sent, Delivered, failed>>
  PROVE  UNCHANGED Run!vars
<1>1. UNCHANGED <<MainPc, InHand, Unsettled, Where, MarkedSent, Accepted, Due>>
  BY AcceptedSame DEF Transferring, MainPc, InHand, Unsettled, Where, MarkedSent
<1>2. UNCHANGED <<Pending, Flight, Copies>>
  BY <1>1 DEF Pending, Flight, Copies, Transferring
<1>3. QED
  BY <1>1, <1>2 DEF Run!vars, Run!listVars, Run!transferVars

-----------------------------------------------------------------------------
(* The sessions *)

\* A mail is marked by the reply to its text, and no other with it.
LEMMA MarksOneMail ==
  ASSUME NEW c, NEW d, NEW ev
  PROVE  FsmStep(c, d, ev).mark \subseteq {c.m}
BY DEF FsmStep, Outcome, Reply, MailfromR250, NamesRcpt, RcpttoR250, DatastrR250, BeginsMail

\* A reply is nothing to MailRun, or it tells the client of an acceptance.
LEMMA ResponseMaps ==
  ASSUME IInv, ServeResponse, UNCHANGED failed
  PROVE  [Run!TransferNext]_(Run!vars)
<1>1. /\ Transferring /\ Transferring' /\ UNCHANGED <<dir, acc>>
      /\ \E n : \E d \in Found(n) : ReadResponse(d)
  BY DEF ServeResponse, Waiting, Transferring, serverVars
<1>2. PICK S, f : sent' = [m \in Mails |-> sent[m] \/ m \in S] /\ S \subseteq {f}
  <2>1. PICK d : ReadResponse(d)
    BY <1>1
  <2>2. PICK ev : sent' = [m \in Mails |-> sent[m] \/ m \in FsmStep(conn[d], d, ev).mark]
    BY <2>1 DEF ReadResponse
  <2>3. FsmStep(conn[d], d, ev).mark \subseteq {conn[d].m}
    BY MarksOneMail
  <2>4. QED
    BY <2>2, <2>3, Zenon
<1>3. /\ sent \in [Mails -> BOOLEAN] /\ sent' \in [Mails -> BOOLEAN] /\ SentMeansAccepted'
      /\ \A m \in Mails : sent'[m] = (sent[m] \/ m \in S)
  <2>1. [Next]_vars
    BY DEF Next, ClientStep, WaitForResponse
  <2>2. QED
    BY <1>2, <2>1, SentNext, TypeNext DEF IInv, TypeOK
<1>4. CASE sent' = sent
  BY <1>1, <1>4, QuietTransfer, DeliveredSame
<1>5. CASE sent' # sent
  <2>1. f \in Mails /\ ~sent[f] /\ sent'[f] /\ \A m \in Mails : m # f => sent'[m] = sent[m]
    <3>1. PICK m \in Mails : sent'[m] # sent[m]
      BY <1>3, <1>5
    <3>2. m = f
      BY <1>2, <1>3, <3>1
    <3>3. QED
      BY <1>2, <1>3, <3>1, <3>2
  <2>2. PICK e \in Domain : Full(f, e) \in acc[e]
    BY <1>1, <1>3, <2>1 DEF SentMeansAccepted
  <2>3. f \in MailsFor(e)
    BY <2>2 DEF IInv, MessagesWhole, AllFor, Full
  <2>4. f \in Delivered[e]
    BY <2>2, <2>3, DeliveredIs
  <2>5. <<f, e>> \notin Pending /\ e \in Run!Remote(f)
    BY <1>1, <2>1, <2>2, <2>3, <2>4, RemoteIs DEF Pending, Due, Accepted, Pairs
  <2>6. /\ MainPc = "transfer" /\ InHand = Mails
        /\ UNCHANGED <<MainPc, InHand, Unsettled, Where>>
    BY <1>1 DEF Transferring, MainPc, InHand, Unsettled, Where
  <2>7. MarkedSent' = MarkedSent \cup {f}
    BY <2>1, <2>6 DEF MarkedSent
  <2>8. UNCHANGED <<Pending, Flight, Copies>>
    BY <1>1, AcceptedSame, DeliveredSame DEF Pending, Flight, Copies
  <2>9. Run!LearnSent(f)
    BY <2>1, <2>5, <2>6, <2>7, <2>8, UNCHANGED failed DEF Run!LearnSent, Run!listVars
  <2>10. QED
    BY <2>1, <2>9 DEF Run!TransferNext
<1>6. QED
  BY <1>4, <1>5

\* A server accepts what this batch has yet to transfer, while the client is at
\* it, or what is on its way when the client has given up.
LEMMA AnswerMaps ==
  ASSUME IInv, NEW d \in Domain, ServerAnswers(d), UNCHANGED failed
  PROVE  [Run!TransferNext]_(Run!vars)
<1>1. UNCHANGED <<pc, i, dir, sent>>
  BY DEF ServerAnswers, clientVars
<1>2. CASE UNCHANGED Delivered
  BY <1>1, <1>2, QuietElsewhere
<1>3. ASSUME NEW m \in Mails, Fate!Accept(d, m)
      PROVE  [Run!TransferNext]_(Run!vars)
  <2> DEFINE p == <<m, d>>
  <2>1. /\ m \in MailsFor(d) \ Delivered[d] /\ p \in Mails \X Domain
        /\ Delivered' = [Delivered EXCEPT ![d] = Delivered[d] \cup {m}]
    BY <1>3 DEF Fate!Accept
  <2>2. p \in Due /\ p \notin Accepted
    BY <2>1, AcceptedIs DEF Due, Pairs
  <2>3. Accepted' = Accepted \cup {p} /\ Due' = Due \ {p}
    <3>1. \A q \in Mails \X Domain :
            q[1] \in Delivered'[q[2]] <=> q[1] \in Delivered[q[2]] \/ q = p
      BY <2>1, DeliveredFor
    <3>2. Accepted' = Accepted \cup {p}
      BY <2>1, <3>1, AcceptedIs
    <3>3. QED
      BY <3>2 DEF Due
  <2> HIDE DEF p
  <2>4. Copies' = [Copies EXCEPT ![p] = Copies[p] + 1]
    <3>1. Copies[p] = 0
      BY <2>1, <2>2 DEF Copies
    <3>2. [Copies EXCEPT ![p] = 1] =
            [q \in Mails \X Domain |-> IF q \in Accepted \/ q = p THEN 1 ELSE 0]
      BY DEF Copies
    <3>3. Copies' = [q \in Mails \X Domain |-> IF q \in Accepted' THEN 1 ELSE 0]
      BY DEF Copies
    <3>4. Copies' = [Copies EXCEPT ![p] = 1]
      BY <2>3, <3>2, <3>3
    <3>5. Copies[p] + 1 = 1
      BY <3>1
    <3>6. QED
      BY <3>4, <3>5
  <2>5. UNCHANGED <<MainPc, InHand, Unsettled, Where, MarkedSent>>
    BY <1>1 DEF Transferring, MainPc, InHand, Unsettled, Where, MarkedSent
  <2>6. Transferring' = Transferring
    BY <1>1 DEF Transferring
  <2>7. CASE Transferring
    <3>1. p \in Pending /\ Pending' = Pending \ {p}
      BY <2>2, <2>3, <2>6, <2>7 DEF Pending
    <3>2. MainPc = "transfer"
      BY <2>7 DEF MainPc, Transferring
    <3>3. Flight' = Flight
      BY <2>6, <2>7 DEF Flight
    <3>4. Run!Accept(p)
      BY <2>4, <2>5, <3>1, <3>2, <3>3, UNCHANGED failed DEF Run!Accept, Run!listVars
    <3>5. QED
      BY <2>1, <3>4 DEF Run!TransferNext, Run!Pair
  <2>8. CASE ~Transferring
    <3>1. Pending' = Pending
      BY <2>6, <2>8 DEF Pending
    <3>2. Flight[p] = 1
      BY <2>1, <2>2, <2>8 DEF Flight
    <3>3. [Flight EXCEPT ![p] = 0] =
            [q \in Mails \X Domain |-> IF q \in Due \ {p} THEN 1 ELSE 0]
      BY <2>8 DEF Flight
    <3>4. Flight' = [q \in Mails \X Domain |-> IF q \in Due' THEN 1 ELSE 0]
      BY <2>6, <2>8 DEF Flight
    <3>5. Flight[p] > 0 /\ Flight' = [Flight EXCEPT ![p] = Flight[p] - 1]
      BY <2>3, <3>2, <3>3, <3>4
    <3>6. Run!AcceptLate(p)
      BY <2>4, <2>5, <3>1, <3>5, UNCHANGED failed DEF Run!AcceptLate, Run!listVars
    <3>7. QED
      BY <2>1, <3>6 DEF Run!TransferNext, Run!Pair
  <2>9. QED
    BY <2>7, <2>8
<1>4. QED
  BY <1>2, <1>3, AnswerIsFate

-----------------------------------------------------------------------------
(* The end of the transfer *)

\* No more can fail than MailRun is told: a crash, after some of the mails that
\* have been settled could not be moved.
FailedOK ==
  /\ failed \in Nat
  /\ Transferring => failed = 0
  /\ pc = "settle" => failed < i /\ i <= NullMail
  /\ failed <= NullMail

\* What was due when the client gives up is on its way.
LEMMA GiveUpMaps ==
  ASSUME ~Transferring', UNCHANGED Due
  PROVE  Run!GiveUp
<1>1. Pending' = {}
  BY DEF Pending
<1>2. Flight' = [p \in Mails \X Domain |-> IF p \in Due THEN 1 ELSE 0]
  BY DEF Flight
<1>3. ASSUME NEW p \in Mails \X Domain
      PROVE  Flight[p] + Run!Num(p \in Pending) = IF p \in Due THEN 1 ELSE 0
  BY DEF Flight, Pending, Run!Num
<1>4. QED
  BY <1>1, <1>2, <1>3 DEF Run!GiveUp, Run!Pair

\* When all connections are closed, every mail of the list is to be settled.
LEMMA AllClosedMaps ==
  ASSUME AllClosed, UNCHANGED failed
  PROVE  Run!TransferEnds
<1>1. /\ pc = "loop" /\ pc' = "settle" /\ i' = 1
      /\ UNCHANGED <<dir, sent, acc>>
  BY DEF AllClosed, serverVars
<1>2. ~Transferring' /\ MainPc = "transfer" /\ MainPc' = "settle"
      /\ InHand = Mails /\ InHand' = Mails
  BY <1>1 DEF Transferring, MainPc, InHand
<1>3. Unsettled' = Mails
  BY <1>1, BatchShape DEF Unsettled
<1>4. UNCHANGED <<Where, MarkedSent, Accepted, Due>>
  BY <1>1, <1>2, AcceptedSame, DeliveredSame DEF Where, MarkedSent
<1>5. Run!GiveUp /\ UNCHANGED Copies
  BY <1>2, <1>4, GiveUpMaps DEF Copies
<1>6. QED
  BY <1>2, <1>3, <1>4, <1>5, UNCHANGED failed DEF Run!TransferEnds

\* What conn_final frees has been settled.
LEMMA FinishedMaps ==
  ASSUME IInv, BatchFinished, UNCHANGED failed
  PROVE  Run!BatchOver
<1>1. /\ pc = "settle" /\ pc' = "final" /\ i \notin Mails
      /\ UNCHANGED <<dir, acc>>
  BY DEF BatchFinished, serverVars
<1>2. Unsettled = {} /\ Unsettled' = {}
  <2>1. i \in Nat \ {0} /\ Mails = 1 .. Len(Batch) /\ Len(Batch) \in Nat
    BY BatchShape DEF IInv, TypeOK
  <2>2. \A m \in Mails : ~(i <= m)
    BY <1>1, <2>1
  <2>3. QED
    BY <1>1, <2>2 DEF Unsettled
<1>3. MainPc = "settle" /\ MainPc' = "check" /\ InHand' = {} /\ MarkedSent' = {}
  BY <1>1 DEF Transferring, MainPc, InHand, MarkedSent
<1>4. UNCHANGED <<Where, Accepted, Due, Transferring>>
  BY <1>1, AcceptedSame, DeliveredSame DEF Where, Transferring
<1>5. UNCHANGED <<Pending, Flight, Copies>>
  BY <1>4 DEF Pending, Flight, Copies
<1>6. QED
  BY <1>2, <1>3, <1>4, <1>5, UNCHANGED failed DEF Run!BatchOver

\* With the process the list of mails and the marks are lost.
LEMMA DieMaps ==
  ASSUME TypeOK, FailedOK, pc \notin {"final", "crashed"}, Die, failed' = failed + 1
  PROVE  Run!Crash
<1>1. pc' = "crashed" /\ UNCHANGED <<dir, acc>>
  BY DEF Die, serverVars
<1>2. MainPc' = "dead" /\ ~Transferring'
      /\ InHand' = {} /\ Unsettled' = {} /\ MarkedSent' = {}
  BY <1>1 DEF Transferring, MainPc, InHand, Unsettled, MarkedSent
<1>3. MainPc \notin {"stopped", "dead"}
  BY DEF Transferring, MainPc
<1>4. UNCHANGED <<Where, Due>> /\ UNCHANGED Copies
  BY <1>1, AcceptedSame, DeliveredSame DEF Where, Copies
<1>5. Run!Fails("crash")
  <2>1. failed < NullMail
    BY BatchShape DEF TypeOK, FailedOK, Transferring
  <2>2. QED
    BY <2>1, failed' = failed + 1 DEF Run!Fails
<1>6. Run!GiveUp
  BY <1>2, <1>4, GiveUpMaps
<1>7. QED
  BY <1>2, <1>3, <1>4, <1>5, <1>6 DEF Run!Crash

\* On the mark alone depends where a file goes, if it can be moved at all.
LEMMA SettleMaps ==
  ASSUME IInv, FailedOK, SettleMail,
         failed' = IF dir' = dir THEN failed + 1 ELSE failed
  PROVE  i \in Mails /\ Run!SettleMail(i)
<1>1. /\ pc = "settle" /\ pc' = "settle" /\ i \in Mails /\ i' = i + 1
      /\ UNCHANGED <<sent, acc>> /\ dir \in [Mails -> {"new", "deleted", "not_sent"}]
  BY DEF SettleMail, serverVars, IInv, TypeOK
<1>2. i \in Nat /\ Mails \subseteq Nat
  BY <1>1, BatchShape
<1>3. dir[i] = "new" /\ Where[i] = {"new"}
  BY <1>1, <1>2 DEF IInv, UntilSettled, Where
<1>4. i \in Unsettled /\ Unsettled' = Unsettled \ {i}
  <2>1. \A m \in Mails : i + 1 <= m <=> i <= m /\ m # i
    BY <1>1, <1>2
  <2>2. Unsettled = {m \in Mails : i <= m} /\ Unsettled' = {m \in Mails : i + 1 <= m}
    BY <1>1 DEF Unsettled
  <2>3. i <= i
    BY <1>2
  <2>4. {m \in Mails : i + 1 <= m} = {m \in Mails : i <= m} \ {i}
    BY <2>1
  <2>5. QED
    BY <1>1, <2>2, <2>3, <2>4
<1>5. MainPc = "settle" /\ UNCHANGED <<MainPc, InHand, MarkedSent, Accepted, Due, Transferring>>
  BY <1>1, AcceptedSame, DeliveredSame DEF MainPc, Transferring, InHand, MarkedSent
<1>6. UNCHANGED <<Pending, Flight, Copies>>
  BY <1>5 DEF Pending, Flight, Copies
<1>7. i \in MarkedSent <=> sent[i]
  BY <1>1 DEF InHand, MarkedSent
<1>8. Run!Settle(i)
  <2>1. PICK to \in {SettledIn(i), "new"} : dir' = [dir EXCEPT ![i] = to]
    BY DEF SettleMail
  <2>2. CASE to = "new"
    <3>1. dir' = dir
      BY <1>1, <1>3, <2>1, <2>2
    <3>2. UNCHANGED Where
      BY <3>1 DEF Where
    <3>3. failed < NullMail /\ failed' = failed + 1
      BY <1>1, <1>2, <3>1, BatchShape DEF FailedOK
    <3>4. QED
      BY <3>2, <3>3 DEF Run!Settle, Run!Delete, Run!Move, Run!Fails
  <2>3. CASE to = SettledIn(i) /\ to # "new"
    <3>1. dir'[i] = to /\ \A m \in Mails : m # i => dir'[m] = dir[m]
      BY <1>1, <2>1
    <3>2. failed' = failed
      BY <1>3, <2>3, <3>1
    <3>3. Where' = [Where EXCEPT ![i] = {to} \ {"deleted"}]
      BY <1>1, <3>1 DEF Where
    <3>4. CASE sent[i]
      <4>1. to = "deleted"
        BY <2>3, <3>4 DEF SettledIn
      <4>2. {to} \ {"deleted"} = {}
        BY <4>1
      <4>3. Where[i] \ {"new"} = {}
        BY <1>3
      <4>4. QED
        BY <1>7, <3>2, <3>3, <3>4, <4>2, <4>3 DEF Run!Settle, Run!Delete
    <3>5. CASE ~sent[i]
      <4>1. to = "not_sent"
        BY <2>3, <3>5 DEF SettledIn
      <4>2. {to} \ {"deleted"} = {"not_sent"}
        BY <4>1
      <4>3. (Where[i] \ {"new"}) \cup {"not_sent"} = {"not_sent"}
        BY <1>3
      <4>4. QED
        BY <1>7, <3>2, <3>3, <3>5, <4>2, <4>3 DEF Run!Settle, Run!Move
    <3>6. QED
      BY <3>4, <3>5
  <2>4. QED
    BY <2>1, <2>2, <2>3 DEF SettledIn
<1>9. QED
  BY <1>1, <1>4, <1>5, <1>6, <1>8 DEF Run!SettleMail, Run!transferVars

-----------------------------------------------------------------------------
(* The history variable *)

\* The kinds of steps there are
LEMMA StepKinds ==
  ASSUME [Next]_vars
  PROVE  \/ Transferring /\ Transferring' /\ UNCHANGED <<dir, sent, acc>>
         \/ ServeResponse \/ AllClosed \/ SettleMail \/ BatchFinished
         \/ pc \notin {"final", "crashed"} /\ Die
         \/ \E d \in Domain : ServerAnswers(d)
         \/ UNCHANGED <<pc, i, dir, sent, acc>>
BY DEF Next, vars, ClientStep, ConnInit, WaitForResponse, Finish, Environment, DomainAdd,
       DomainsCollected, CreateConnection, CreateConnectionFails, ConnectionsCreated,
       PollTimesOut, PollFails, ServeDisconnect, NothingFound, GarbageFound, Sweep, Tick,
       Crash, SendReturns, ReplyCompletes, ServerDrops, clientVars, serverVars, Waiting, Transferring

\* What counts as a failure: a crash, and a file that stays where it is.
LEMMA FailureIs ==
  ASSUME TypeOK, [Next]_vars
  PROVE  /\ Transferring /\ Transferring' => ~Failure
         /\ AllClosed \/ BatchFinished => ~Failure
         /\ SettleMail => (Failure <=> dir' = dir)
         /\ pc # "crashed" /\ Die => Failure
         /\ UNCHANGED <<pc, i>> => ~Failure
<1>1. i \in Nat /\ Mails \subseteq Nat
  BY BatchShape DEF TypeOK
<1>2. i # i + 1
  BY <1>1
<1>3. QED
  BY <1>2 DEF Failure, Transferring, AllClosed, BatchFinished, SettleMail, Die

\* There are no more failures than mails to settle, and a crash.
LEMMA FailedNext ==
  ASSUME IInv, FailedOK, [Next]_vars, failed' = IF Failure THEN failed + 1 ELSE failed
  PROVE  FailedOK'
<1>1. TypeOK /\ i \in Nat /\ failed \in Nat /\ Mails = 1 .. Len(Batch)
      /\ NullMail = Len(Batch) + 1 /\ Len(Batch) \in Nat
  BY BatchShape DEF IInv, TypeOK, FailedOK
<1>2. CASE Transferring /\ Transferring'
  BY <1>1, <1>2, FailureIs DEF FailedOK, Transferring
<1>3. CASE AllClosed
  BY <1>1, <1>3, FailureIs DEF FailedOK, Transferring, AllClosed
<1>4. CASE SettleMail
  BY <1>1, <1>4 DEF FailedOK, Transferring, SettleMail
<1>5. CASE BatchFinished
  BY <1>1, <1>5, FailureIs DEF FailedOK, Transferring, BatchFinished
<1>6. CASE pc \notin {"final", "crashed"} /\ Die
  BY <1>1, <1>6 DEF FailedOK, Transferring, Die
<1>7. CASE UNCHANGED <<pc, i>>
  BY <1>1, <1>7, FailureIs DEF FailedOK, Transferring
<1>8. QED
  BY <1>2, <1>3, <1>4, <1>5, <1>6, <1>7, StepKinds
  DEF ServeResponse, Waiting, Transferring, ServerAnswers, clientVars

-----------------------------------------------------------------------------
(* The refinement *)

\* A step of the batch is a step of MailRun, or nothing to it.
LEMMA StepMaps ==
  ASSUME IInv, FailedOK, [Next]_vars, failed' = IF Failure THEN failed + 1 ELSE failed
  PROVE  [Run!TransferNext]_(Run!vars)
<1>1. TypeOK
  BY DEF IInv
<1>2. CASE Transferring /\ Transferring' /\ UNCHANGED <<dir, sent, acc>>
  BY <1>1, <1>2, FailureIs, QuietTransfer, DeliveredSame
<1>3. CASE ServeResponse
  BY <1>1, <1>3, FailureIs, ResponseMaps DEF ServeResponse, Waiting, Transferring
<1>4. CASE AllClosed
  BY <1>1, <1>4, FailureIs, AllClosedMaps DEF Run!TransferNext, Run!EndOfBatch
<1>5. CASE SettleMail
  <2>1. i \in Mails /\ Run!SettleMail(i)
    BY <1>1, <1>5, FailureIs, SettleMaps
  <2>2. QED
    BY <2>1 DEF Run!TransferNext, Run!EndOfBatch
<1>6. CASE BatchFinished
  BY <1>1, <1>6, FailureIs, FinishedMaps DEF Run!TransferNext, Run!EndOfBatch
<1>7. CASE pc \notin {"final", "crashed"} /\ Die
  BY <1>1, <1>7, FailureIs, DieMaps DEF Run!TransferNext
<1>8. CASE \E d \in Domain : ServerAnswers(d)
  BY <1>1, <1>8, FailureIs, AnswerMaps DEF ServerAnswers, clientVars
<1>9. CASE UNCHANGED <<pc, i, dir, sent, acc>>
  BY <1>1, <1>9, FailureIs, QuietElsewhere, DeliveredSame
<1>10. QED
  BY <1>2, <1>3, <1>4, <1>5, <1>6, <1>7, <1>8, <1>9, StepKinds

\* What ConnLoop does with a batch, MailRun has for its transfer: the servers
\* accept each mail once at most, a mark comes after an acceptance, every
\* mail is settled by its mark, and a crash leaves the rest in NEW.
THEOREM ImplementsTransfer == HSpec => RunSpec
<1> DEFINE Inv == IInv /\ FailedOK
           HStep == [HNext]_<<vars, failed>>
<1>1. HInit => Inv
  <2>1. HInit => FailedOK
    BY BatchShape DEF HInit, Init, FailedOK, Transferring
  <2>2. QED
    BY <2>1, InitInv DEF HInit
<1>2. HStep => /\ [Next]_vars
               /\ UNCHANGED <<vars, failed>> \/ failed' = IF Failure THEN failed + 1 ELSE failed
  BY DEF HNext
<1>3. Inv /\ UNCHANGED <<vars, failed>> => ~Failure
  BY FailureIs DEF IInv, vars, clientVars
<1>4. Inv /\ HStep => [Next]_vars /\ failed' = IF Failure THEN failed + 1 ELSE failed
  BY <1>2, <1>3
<1>5. IInv /\ [Next]_vars => IInv'
  BY TypeNext, DomainsNext, PhasesNext, OpenListedNext, UntilSettledNext, SentNext,
     DomainNext, ByDomainNext
<1>6. Inv /\ HStep => Inv'
  BY <1>4, <1>5, FailedNext
<1>7. Inv /\ HStep => [Run!TransferNext]_(Run!vars)
  BY <1>4, StepMaps
<1>8. HInit => Run!AtTransfer
  BY HInitMaps
<1> HIDE DEF Inv, HStep
<1>9. QED
  BY <1>1, <1>6, <1>7, <1>8, PTL DEF HSpec, RunSpec, Run!TransferSpec, HStep
=============================================================================
