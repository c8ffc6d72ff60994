--------------------------- MODULE ConnLoopProofs ---------------------------
(***************************************************************************)
(* The safety of ConnLoop for every batch, every set of domains and every  *)
(* timeout: IInv is inductive, and the properties follow from it.          *)
(***************************************************************************)
EXTENDS ConnLoop, ClientFsmProofs, FiniteSetTheorems

-----------------------------------------------------------------------------
(* The types *)

\* Connections and commands as ConnLoop types them are those of ClientFsm.
LEMMA ConnIsConnection == Conn = Connection /\ [verb : Verb, mail : Nat, rcpt : Nat] = Commands
BY DEF Conn, Connection, Commands

\* The connection a step leaves is well typed, and so is what it sends.
LEMMA ReadType ==
  ASSUME TypeOK, NEW d \in Domain, d \in open, inbox[d] # <<>>,
         conn[d].state \in Working, AtMail(conn[d], d), ReadResponse(d)
  PROVE  /\ conn' \in [Domain -> Conn]
         /\ sent' \in [Mails -> BOOLEAN]
         /\ age' \in [Domain -> 0 .. ConnTimeout + 1]
         /\ toServer' \in [Domain -> Seq([verb : Verb, mail : Nat, rcpt : Nat])]
         /\ inbox' \in [Domain -> Seq(Line)]
<1> DEFINE line == Head(inbox[d])
           event == IF line.whole THEN line.code ELSE "INVALID"
           out == FsmStep(conn[d], d, event)
<1>1. conn[d] \in Connection /\ toServer[d] \in Seq(Commands) /\ inbox[d] \in Seq(Line)
  BY ConnIsConnection DEF TypeOK
<1>2. line \in Line
  BY <1>1, HeadTailProperties
<1>3. event \in ReplyCode
  BY <1>2 DEF Line, ReplyCode
<1>4. out.conn \in Connection /\ out.send \in Seq(Commands)
  BY <1>1, <1>3, FsmStepType
<1>5. toServer[d] \o out.send \in Seq(Commands)
  BY <1>1, <1>4, ConcatProperties
<1> HIDE DEF out
<1>6. /\ conn' = [conn EXCEPT ![d] = out.conn]
      /\ sent' = [m \in Mails |-> sent[m] \/ m \in out.mark]
      /\ age' = [age EXCEPT ![d] = 0]
      /\ inbox' = [inbox EXCEPT ![d] = <<>>]
      /\ toServer' = [toServer EXCEPT ![d] =
                        IF closed[d] THEN toServer[d] ELSE toServer[d] \o out.send]
  BY DEF ReadResponse, out
<1>7. 0 \in 0 .. ConnTimeout + 1 /\ <<>> \in Seq(Line)
  BY TimeoutAssumption
<1>8. conn' \in [Domain -> Conn]
  BY <1>4, <1>6, ConnIsConnection DEF TypeOK
<1>9. sent' \in [Mails -> BOOLEAN]
  BY <1>6
<1>10. toServer' \in [Domain -> Seq(Commands)]
  BY <1>1, <1>5, <1>6, ConnIsConnection DEF TypeOK
<1>11. QED
  BY <1>6, <1>7, <1>8, <1>9, <1>10, ConnIsConnection DEF TypeOK

\* The clock keeps the ages between 0 and ConnTimeout + 1.
LEMMA AgedType ==
  ASSUME TypeOK, NEW n \in Nat
  PROVE  Aged(n) \in [Domain -> 0 .. ConnTimeout + 1]
BY TimeoutAssumption DEF TypeOK, Aged

\* A server keeps its types when it answers a command (ServerAnswers).
LEMMA ServerType ==
  ASSUME TypeOK, NEW d \in Domain, ServerAnswers(d)
  PROVE  TypeOK'
<1> DEFINE c == Head(toServer[d])
<1>1. toServer[d] \in Seq(Commands) /\ toServer[d] # <<>> /\ inbox[d] \in Seq(Line)
  BY ConnIsConnection DEF TypeOK, ServerAnswers
<1>2. c \in Commands /\ Tail(toServer[d]) \in Seq(Commands)
  BY <1>1, HeadTailProperties
<1> HIDE DEF c
<1>3. PICK code \in ReplyCode, whole \in BOOLEAN, taken \in BOOLEAN :
        /\ env' = [env EXCEPT ![d] = IF taken THEN EnvelopeAfter(c, env[d]) ELSE env[d]]
        /\ acc' = [acc EXCEPT ![d] =
                     IF taken THEN acc[d] \cup MessagesAfter(c, env[d]) ELSE acc[d]]
        /\ inbox' = [inbox EXCEPT ![d] =
                     IF d \in open THEN Append(inbox[d], [code |-> code, whole |-> whole])
                     ELSE inbox[d]]
  BY DEF ServerAnswers, c
<1>4. env[d] \in Envelope /\ acc[d] \subseteq Message
  BY DEF TypeOK
<1>5. EnvelopeAfter(c, env[d]) \in Envelope
  BY <1>2, <1>4 DEF EnvelopeAfter, Envelope, NoEnvelope, Commands
<1>6. MessagesAfter(c, env[d]) \subseteq Message
  BY <1>2, <1>4 DEF MessagesAfter, Envelope, Message, Commands
<1>7. env' \in [Domain -> Envelope]
  BY <1>3, <1>4, <1>5 DEF TypeOK
<1>8. acc' \in [Domain -> SUBSET Message]
  BY <1>3, <1>4, <1>6 DEF TypeOK
<1>9. inbox' \in [Domain -> Seq(Line)]
  <2>1. [code |-> code, whole |-> whole] \in Line
    BY <1>3 DEF Line
  <2>2. Append(inbox[d], [code |-> code, whole |-> whole]) \in Seq(Line)
    BY <1>1, <2>1, AppendProperties
  <2>3. QED
    BY <1>3, <2>2 DEF TypeOK
<1>10. toServer' \in [Domain -> Seq([verb : Verb, mail : Nat, rcpt : Nat])]
  BY <1>2, ConnIsConnection DEF ServerAnswers, TypeOK
<1>11. UNCHANGED <<clientVars, age, closed>>
  BY DEF ServerAnswers
<1>12. QED
  BY <1>7, <1>8, <1>9, <1>10, <1>11 DEF TypeOK, clientVars

\* The rest of a split reply (ReplyCompletes) keeps the type of the inbox and
\* its length.
LEMMA LineCompletes ==
  ASSUME NEW s \in Seq(Line), s # <<>>
  PROVE  /\ [s EXCEPT ![1].whole = TRUE] \in Seq(Line)
         /\ [s EXCEPT ![1].whole = TRUE] # <<>>
         /\ Len([s EXCEPT ![1].whole = TRUE]) = Len(s)
         /\ Head([s EXCEPT ![1].whole = TRUE]).code = Head(s).code
<1>1. 1 \in 1 .. Len(s) /\ s[1] \in Line /\ Head(s) = s[1]
  BY EmptySeq, LenProperties, ElementOfSeq
<1> DEFINE x == [s[1] EXCEPT !.whole = TRUE]
           t == [s EXCEPT ![1] = x]
<1>2. x \in Line /\ x.code = s[1].code
  BY <1>1 DEF Line
<1> HIDE DEF x
<1>3. t \in Seq(Line) /\ Len(t) = Len(s) /\ t[1] = x
  BY <1>1, <1>2, ExceptSeq
<1>4. t # <<>> /\ Head(t) = t[1]
  BY <1>1, <1>3, EmptySeq
<1>5. [s EXCEPT ![1].whole = TRUE] = t
  BY DEF x
<1>6. QED
  BY <1>1, <1>2, <1>3, <1>4, <1>5

-----------------------------------------------------------------------------
(* The types, along the steps *)

\* The initial state is well typed.
LEMMA TypeInit == Init => TypeOK
<1> SUFFICES ASSUME Init PROVE TypeOK
  OBVIOUS
<1>1. 0 \in 0 .. ConnTimeout + 1
  BY TimeoutAssumption
<1>2. pc = "collect" /\ i \in Mails => k \in DOMAIN Batch[i]
  BY BatchShape DEF Init
<1>3. NoConn \in Conn
  BY BatchShape DEF NoConn, Conn, FsmState, Terminal
<1>4. NoEnvelope \in Envelope
  BY DEF NoEnvelope, Envelope
<1>5. QED
  BY <1>1, <1>2, <1>3, <1>4 DEF Init, TypeOK

\* Every step keeps the types.
LEMMA TypeNext == IInv /\ [Next]_vars => TypeOK'
<1> SUFFICES ASSUME IInv, [Next]_vars PROVE TypeOK'
  OBVIOUS
<1>0. TypeOK /\ DomainsOK /\ Phases /\ Sessions
  BY DEF IInv
<1> USE <1>0
<1>1. CASE DomainAdd
  <2>1. i \in 1 .. Len(Batch) /\ k \in 1 .. Len(Batch[i]) /\ Batch[i] \in Seq(Domain)
        /\ Len(Batch[i]) \in Nat
    BY <1>1, BatchShape DEF DomainAdd, TypeOK
  <2>2. Batch[i][k] \in Domain
    BY <2>1, ElementOfSeq
  <2>3. domains' \in Seq(Domain)
    BY <1>1, <2>2, AppendProperties DEF DomainAdd, TypeOK
  <2>4. i' \in Nat \ {0} /\ k' \in Nat \ {0}
    BY <1>1, <2>1 DEF DomainAdd, LastRcpt
  <2>5. i' \in Mails => k' \in DOMAIN Batch[i']
    BY <1>1, <2>1, BatchShape DEF DomainAdd, LastRcpt
  <2>6. QED
    BY <1>1, <2>3, <2>4, <2>5 DEF DomainAdd, TypeOK, socketVars, serverVars
<1>2. CASE DomainsCollected
  <2>1. pc' = "connect" /\ i' \in Nat \ {0}
    BY <1>2 DEF DomainsCollected
  <2>2. QED
    BY <1>2, <2>1 DEF DomainsCollected, TypeOK, socketVars, serverVars
<1>3. CASE CreateConnection
  <2> DEFINE d == domains[i]
             m == SeekMail(1, d)
  <2>1. i \in DOMAIN domains /\ d \in Domain
    BY <1>3, LenProperties, ElementOfSeq DEF CreateConnection, TypeOK
  <2>2. m \in MailsFor(d)
    <3>1. MailsFor(d) # {}
      BY <2>1 DEF DomainsOK
    <3>2. QED
      BY <3>1, SeekMailFinds, MailsForShape, BatchShape
  <2>3. m \in Mails /\ m \in 1 .. NullMail
    BY <2>2, MailsForShape, BatchShape
  <2>4. SeekRcpt(m, 1, d) \in Nat
    BY <2>3, SeekRcptFinds, RcptsFromShape
  <2>5. [state |-> "INIT", m |-> m, r |-> SeekRcpt(m, 1, d)] \in Conn
    BY <2>3, <2>4 DEF Conn, FsmState, Working
  <2> HIDE DEF m
  <2>6. conn' \in [Domain -> Conn]
    BY <1>3, <2>1, <2>5 DEF CreateConnection, TypeOK, m
  <2>7. age' \in [Domain -> 0 .. ConnTimeout + 1]
    BY <1>3, TimeoutAssumption DEF CreateConnection, TypeOK
  <2>8. Command("CONNECT", 0, 0) \in Commands
    BY CommandType DEF Verb
  <2>9. PICK refused \in BOOLEAN :
          /\ closed' = [closed EXCEPT ![d] = refused]
          /\ toServer' = [toServer EXCEPT ![d] =
               IF refused THEN <<>> ELSE <<Command("CONNECT", 0, 0)>>]
    BY <1>3 DEF CreateConnection
  <2>10. closed' \in [Domain -> BOOLEAN]
    BY <2>9 DEF TypeOK
  <2>11. toServer' \in [Domain -> Seq(Commands)]
    <3>1. toServer \in [Domain -> Seq(Commands)]
      BY ConnIsConnection DEF TypeOK
    <3>2. <<>> \in Seq(Commands) /\ <<Command("CONNECT", 0, 0)>> \in Seq(Commands)
      BY <2>8
    <3>3. QED
      BY <2>9, <3>1, <3>2
  <2>12. /\ open' \subseteq Domain /\ count' \in Nat
         /\ pc' = "connect" /\ i' \in Nat \ {0}
    BY <1>3, <2>1 DEF CreateConnection, TypeOK
  <2>13. UNCHANGED <<k, domains, sent, dir, inbox, env, acc>>
    BY <1>3 DEF CreateConnection, serverVars
  <2> HIDE DEF d
  <2>14. QED
    BY <2>6, <2>7, <2>10, <2>11, <2>12, <2>13, ConnIsConnection DEF TypeOK
<1>4. CASE CreateConnectionFails
  <2>1. pc' = "connect" /\ i' \in Nat \ {0}
    BY <1>4 DEF CreateConnectionFails, TypeOK
  <2>2. QED
    BY <1>4, <2>1 DEF CreateConnectionFails, TypeOK, socketVars, serverVars
<1>5. CASE ConnectionsCreated
  BY <1>5 DEF ConnectionsCreated, TypeOK, socketVars, serverVars
<1>6. CASE PollTimesOut
  BY <1>6, AgedType, TimeoutAssumption DEF PollTimesOut, TypeOK, socketVars, serverVars
<1>7. CASE PollFails
  BY <1>7 DEF PollFails, TypeOK, socketVars, serverVars
<1>8. CASE ServeResponse
  <2>1. PICK d \in open : inbox[d] # <<>> /\ ReadResponse(d)
    BY <1>8 DEF ServeResponse, Found, Ready
  <2>2. d \in Domain /\ conn[d].state \in Working
    BY <1>8 DEF TypeOK, ServeResponse, Waiting, Phases
  <2>3. AtMail(conn[d], d)
    BY <2>2 DEF Sessions, Cursors, AtMail, Working
  <2>4. QED
    BY <1>8, <2>1, <2>2, <2>3, ReadType DEF ServeResponse, TypeOK, serverVars
<1>9. CASE ServeDisconnect
  <2>1. PICK d \in Domain : conn' = [conn EXCEPT ![d].state = "INVALID"]
    BY <1>9 DEF ServeDisconnect, Found, Ready, TypeOK
  <2>2. conn' \in [Domain -> Conn]
    BY <2>1 DEF TypeOK, Conn, FsmState, Terminal
  <2>3. QED
    BY <1>9, <2>2 DEF ServeDisconnect, TypeOK, socketVars, serverVars
<1>10. CASE NothingFound
  BY <1>10 DEF NothingFound, TypeOK, socketVars, serverVars
<1>11. CASE Die
  <2>1. pc' = "crashed" /\ open' \subseteq Domain /\ inbox' \in [Domain -> Seq(Line)]
    BY <1>11 DEF Die
  <2>2. QED
    BY <1>11, <2>1 DEF Die, TypeOK, serverVars
<1>12. CASE Sweep
  <2>1. \A d \in Domain : [conn[d] EXCEPT !.state = "INVALID"] \in Conn /\ conn[d] \in Conn
    BY DEF TypeOK, Conn, FsmState, Terminal
  <2>2. conn' \in [Domain -> Conn]
    BY <1>12, <2>1 DEF Sweep, Expired
  <2>3. inbox' \in [Domain -> Seq(Line)] /\ open' \subseteq Domain
    BY <1>12 DEF Sweep, TypeOK
  <2>4. QED
    BY <1>12, <2>2, <2>3 DEF Sweep, TypeOK, serverVars
<1>13. CASE AllClosed
  <2>1. pc' = "settle" /\ i' \in Nat \ {0}
    BY <1>13 DEF AllClosed
  <2>2. QED
    BY <1>13, <2>1 DEF AllClosed, TypeOK, socketVars, serverVars
<1>14. CASE SettleMail
  <2>1. pc' = "settle" /\ i' \in Nat \ {0}
    BY <1>14 DEF SettleMail, SettledIn, TypeOK
  <2>2. dir' \in [Mails -> {"new", "deleted", "not_sent"}]
    BY <1>14 DEF SettleMail, SettledIn, TypeOK
  <2>3. QED
    BY <1>14, <2>1, <2>2 DEF SettleMail, TypeOK, socketVars, serverVars
<1>15. CASE BatchFinished
  BY <1>15 DEF BatchFinished, TypeOK, socketVars, serverVars
<1>16. CASE Tick
  BY <1>16, AgedType DEF Tick, TypeOK, clientVars, socketVars, serverVars
<1>17. ASSUME NEW d \in Domain, ServerAnswers(d) PROVE TypeOK'
  BY <1>17, ServerType
<1>18. ASSUME NEW d \in Domain, ReplyCompletes(d) PROVE TypeOK'
  <2>1. inbox' \in [Domain -> Seq(Line)]
    BY <1>18, LineCompletes DEF ReplyCompletes, TypeOK
  <2>2. QED
    BY <1>18, <2>1 DEF ReplyCompletes, TypeOK, clientVars, serverVars
<1>19. ASSUME NEW d \in Domain, ServerDrops(d) PROVE TypeOK'
  <2>1. Goodbye \in Line /\ inbox[d] \in Seq(Line)
    BY DEF Goodbye, Line, ReplyCode, TypeOK
  <2>2. Append(inbox[d], Goodbye) \in Seq(Line)
    BY <2>1, AppendProperties
  <2>3. PICK left \in {inbox[d], <<>>, Append(inbox[d], Goodbye)} :
          inbox' = [inbox EXCEPT ![d] = left]
    BY <1>19 DEF ServerDrops
  <2>4. inbox' \in [Domain -> Seq(Line)]
    <3>1. <<>> \in Seq(Line)
      OBVIOUS
    <3>2. left \in Seq(Line)
      BY <2>1, <2>2, <2>3, <3>1
    <3>3. QED
      BY <2>3, <3>2 DEF TypeOK
  <2>5. toServer' \in [Domain -> Seq(Commands)]
    <3>1. toServer \in [Domain -> Seq(Commands)]
      BY ConnIsConnection DEF TypeOK
    <3>2. toServer' = [toServer EXCEPT ![d] = <<>>] /\ <<>> \in Seq(Commands)
      BY <1>19 DEF ServerDrops
    <3>3. QED
      BY <3>1, <3>2
  <2>6. closed' \in [Domain -> BOOLEAN]
    BY <1>19 DEF ServerDrops, TypeOK
  <2>7. QED
    BY <1>19, <2>4, <2>5, <2>6, ConnIsConnection DEF ServerDrops, TypeOK, clientVars, serverVars
<1>20. CASE SendReturns
  BY <1>20 DEF SendReturns, TypeOK, socketVars, serverVars
<1>21. CASE UNCHANGED vars
  BY <1>21 DEF TypeOK, vars, clientVars, socketVars, serverVars
<1>22. QED
  BY <1>1, <1>2, <1>3, <1>4, <1>5, <1>6, <1>7, <1>8, <1>9, <1>10, <1>11, <1>12,
     <1>13, <1>14, <1>15, <1>16, <1>17, <1>18, <1>19, <1>20, <1>21
  DEF Next, ClientStep, ConnInit, WaitForResponse, Finish, Environment,
      GarbageFound, Crash

-----------------------------------------------------------------------------
(* The invariant, domain by domain *)

DomainInv(d) ==
  /\ Len(toServer[d]) <= 1
  /\ closed[d] => toServer[d] = <<>>
  /\ d \notin open => inbox[d] = <<>>
  /\ toServer[d] # <<>> => InOrder(Head(toServer[d]), d)
  /\ acc[d] \subseteq AllFor(d)
  /\ conn[d].state = "DONE" => acc[d] = AllFor(d)
  /\ d \in open /\ conn[d].state \in Working =>
       Cursors(conn[d], d) /\ Session(conn[d], d)

\* The invariant, taken apart by domain
LEMMA ByDomain ==
  IInv <=> /\ TypeOK /\ DomainsOK /\ Phases /\ OpenListed /\ UntilSettled
           /\ SentMeansAccepted /\ \A d \in Domain : DomainInv(d)
BY DEF IInv, Sockets, Sessions, CommandsInOrder, MessagesWhole, DoneMeansAccepted,
       DomainInv, TypeOK

\* The same after a step
LEMMA ByDomainNext ==
  /\ TypeOK' /\ DomainsOK' /\ Phases' /\ OpenListed' /\ UntilSettled'
  /\ SentMeansAccepted' /\ \A d \in Domain : DomainInv(d)'
  => IInv'
BY DEF IInv, Sockets, Sessions, CommandsInOrder, MessagesWhole, DoneMeansAccepted,
       DomainInv, TypeOK

\* A step that does not touch a domain keeps its part of the invariant.
LEMMA Frame ==
  ASSUME NEW d \in Domain, DomainInv(d), (d \in open)' <=> d \in open,
         conn'[d] = conn[d], toServer'[d] = toServer[d], inbox'[d] = inbox[d],
         closed'[d] = closed[d], env'[d] = env[d], acc'[d] = acc[d]
  PROVE  DomainInv(d)'
BY DEF DomainInv, InOrder, Session, Taken

-----------------------------------------------------------------------------
(* What a server has accepted before mail m *)

\* Before its first mail a domain has accepted nothing.
LEMMA EarlierFirst ==
  ASSUME NEW d, NEW m \in Nat, \A n \in MailsFor(d) : m <= n
  PROVE  Earlier(m, d) = {}
BY MailsForShape DEF Earlier

\* Accepting mail m moves what is accepted on to the next mail for the domain.
LEMMA EarlierNext ==
  ASSUME NEW d, NEW l \in MailsFor(d), NEW m \in Nat, l < m,
         \A n \in MailsFor(d) : l < n => m <= n
  PROVE  Earlier(l, d) \cup {Full(l, d)} = Earlier(m, d)
<1>1. MailsFor(d) \in SUBSET Nat
  BY MailsForShape
<1>2. {n \in MailsFor(d) : n < m} = {n \in MailsFor(d) : n < l} \cup {l}
  BY <1>1
<1>3. QED
  BY <1>2, Zenon DEF Earlier

\* After its last mail a domain has accepted everything.
LEMMA EarlierLast ==
  ASSUME NEW d, NEW l \in MailsFor(d), \A n \in MailsFor(d) : n <= l
  PROVE  Earlier(l, d) \cup {Full(l, d)} = AllFor(d)
<1>1. MailsFor(d) \in SUBSET Nat
  BY MailsForShape
<1>2. MailsFor(d) = {n \in MailsFor(d) : n < l} \cup {l}
  BY <1>1
<1>3. QED
  BY <1>2, Zenon DEF Earlier, AllFor

-----------------------------------------------------------------------------
(* What a step does to the domain it concerns *)

\* An answer: the command at the server is the one the connection awaits.
LEMMA AnswerKeeps ==
  ASSUME TypeOK, NEW d \in Domain, DomainInv(d), ServerAnswers(d)
  PROVE  DomainInv(d)'
<1> DEFINE c == Head(toServer[d])
           cn == conn[d]
<1>1. /\ toServer[d] \in Seq(Commands) /\ toServer[d] # <<>> /\ Len(toServer[d]) <= 1
      /\ inbox[d] \in Seq(Line) /\ env[d] \in Envelope /\ cn \in Connection
  BY ConnIsConnection DEF TypeOK, ServerAnswers, DomainInv
<1>2. c \in Commands /\ Tail(toServer[d]) = <<>>
  BY <1>1, HeadTailProperties, EmptySeq
<1>3. InOrder(c, d)
  BY <1>1 DEF DomainInv
<1> HIDE DEF c
<1>4. PICK code \in ReplyCode, whole \in BOOLEAN, taken \in BOOLEAN :
        /\ code = Good(c.verb) => taken
        /\ env' = [env EXCEPT ![d] = IF taken THEN EnvelopeAfter(c, env[d]) ELSE env[d]]
        /\ acc' = [acc EXCEPT ![d] =
                     IF taken THEN acc[d] \cup MessagesAfter(c, env[d]) ELSE acc[d]]
        /\ inbox' = [inbox EXCEPT ![d] =
                     IF d \in open THEN Append(inbox[d], [code |-> code, whole |-> whole])
                     ELSE inbox[d]]
  BY DEF ServerAnswers, c
<1>5. /\ toServer'[d] = <<>> /\ open' = open /\ conn' = conn /\ closed' = closed
      /\ acc'[d] = IF taken THEN acc[d] \cup MessagesAfter(c, env[d]) ELSE acc[d]
      /\ env'[d] = IF taken THEN EnvelopeAfter(c, env[d]) ELSE env[d]
      /\ inbox'[d] = IF d \in open THEN Append(inbox[d], [code |-> code, whole |-> whole])
                     ELSE inbox[d]
  BY <1>2, <1>4 DEF ServerAnswers, TypeOK, clientVars
<1>6. MessagesAfter(c, env[d]) \subseteq AllFor(d)
  <2>1. CASE c.verb = "BODY"
    <3>1. c.mail \in MailsFor(d) /\ env[d] = [from |-> c.mail, to |-> RcptsFrom(c.mail, d)]
      BY <1>3, <2>1 DEF InOrder
    <3>2. MessagesAfter(c, env[d]) = {Full(c.mail, d)}
      BY <2>1, <3>1 DEF MessagesAfter, Full
    <3>3. QED
      BY <3>1, <3>2 DEF AllFor
  <2>2. CASE c.verb # "BODY"
    BY <2>2 DEF MessagesAfter
  <2>3. QED
    BY <2>1, <2>2
<1>7. acc[d] \subseteq acc'[d] /\ acc'[d] \subseteq AllFor(d)
  BY <1>5, <1>6 DEF DomainInv
<1>8. conn'[d].state = "DONE" => acc'[d] = AllFor(d)
  BY <1>5, <1>7 DEF DomainInv
<1>9. ASSUME d \in open, cn.state \in Working
      PROVE  Cursors(cn, d) /\ Session(cn, d)'
  <2>1. /\ Cursors(cn, d) /\ inbox[d] = <<>> /\ c = Awaited(cn)
        /\ cn.state = "DATA" => env[d].from = cn.m
    BY <1>1, <1>9 DEF DomainInv, Session, c
  <2>2. inbox'[d] = <<[code |-> code, whole |-> whole]>>
    BY <1>5, <1>9, <2>1
  <2>3. Head(inbox'[d]).code = code /\ Len(inbox'[d]) = 1 /\ inbox'[d] # <<>>
    BY <2>2
  <2>4. code = Good(c.verb) => Taken(cn, d)'
    <3> SUFFICES ASSUME code = Good(c.verb) PROVE Taken(cn, d)'
      OBVIOUS
    <3>1. env'[d] = EnvelopeAfter(c, env[d]) /\ acc'[d] = acc[d] \cup MessagesAfter(c, env[d])
      BY <1>4, <1>5
    <3>2. conn'[d] = cn /\ cn.r \in Nat
      BY <1>1, <1>5 DEF Connection
    <3>3. CASE cn.state \in {"INIT", "HELO"}
      BY <1>3, <2>1, <3>1, <3>2, <3>3
      DEF Awaited, Command, InOrder, EnvelopeAfter, MessagesAfter, Taken
    <3>4. CASE cn.state = "MAILFROM"
      BY <1>3, <2>1, <3>1, <3>2, <3>4
      DEF Awaited, Command, InOrder, EnvelopeAfter, MessagesAfter, Taken
    <3>5. CASE cn.state = "RCPTTO"
      <4>1. c = Command("RCPT", cn.m, cn.r - 1) /\ c.verb = "RCPT"
            /\ c.mail = cn.m /\ c.rcpt = cn.r - 1
        BY <2>1, <3>5 DEF Awaited, Command
      <4>2. /\ env[d] = [from |-> cn.m, to |-> {n \in RcptsFrom(cn.m, d) : n < cn.r - 1}]
            /\ acc[d] = Earlier(cn.m, d) /\ cn.m \in MailsFor(d)
        BY <1>3, <4>1 DEF InOrder
      <4>3. cn.r - 1 \in RcptsFrom(cn.m, d) /\ RcptsFrom(cn.m, d) \in SUBSET Nat
        BY <2>1, <3>5, <4>2, RcptsFromShape, MailsForShape DEF Cursors
      <4>4. {n \in RcptsFrom(cn.m, d) : n < cn.r - 1} \cup {cn.r - 1}
            = {n \in RcptsFrom(cn.m, d) : n < cn.r}
        BY <3>2, <4>3
      <4>5. env'[d] = [from |-> cn.m, to |-> {n \in RcptsFrom(cn.m, d) : n < cn.r}]
        BY <3>1, <4>1, <4>2, <4>4 DEF EnvelopeAfter
      <4>6. acc'[d] = Earlier(cn.m, d)
        BY <3>1, <4>1, <4>2 DEF MessagesAfter
      <4>7. QED
        BY <3>2, <3>5, <4>5, <4>6 DEF Taken
    <3>6. CASE cn.state = "DATA"
      <4>1. c.verb = "DATA" /\ env[d].from = cn.m
        BY <2>1, <3>6 DEF Awaited, Command
      <4>2. env[d].to = RcptsFrom(cn.m, d) /\ acc[d] = Earlier(cn.m, d)
        BY <1>3, <4>1 DEF InOrder
      <4>3. env[d] = [from |-> cn.m, to |-> RcptsFrom(cn.m, d)]
        BY <1>1, <4>1, <4>2 DEF Envelope
      <4>4. env'[d] = env[d] /\ acc'[d] = acc[d]
        BY <3>1, <4>1 DEF EnvelopeAfter, MessagesAfter
      <4>5. QED
        BY <3>2, <3>6, <4>2, <4>3, <4>4 DEF Taken
    <3>7. CASE cn.state = "DATASTR"
      <4>1. c.verb = "BODY" /\ c.mail = cn.m
        BY <2>1, <3>7 DEF Awaited, Command
      <4>2. /\ env[d] = [from |-> cn.m, to |-> RcptsFrom(cn.m, d)]
            /\ acc[d] = Earlier(cn.m, d)
        BY <1>3, <4>1 DEF InOrder
      <4>3. MessagesAfter(c, env[d]) = {Full(cn.m, d)} /\ EnvelopeAfter(c, env[d]) = NoEnvelope
        BY <4>1, <4>2 DEF MessagesAfter, EnvelopeAfter, Full
      <4>4. QED
        BY <3>1, <3>2, <3>7, <4>2, <4>3 DEF Taken
    <3>8. CASE cn.state = "QUIT"
      BY <1>3, <2>1, <3>1, <3>2, <3>8
      DEF Awaited, Command, InOrder, EnvelopeAfter, MessagesAfter, Taken
    <3>9. QED
      BY <1>9, <3>3, <3>4, <3>5, <3>6, <3>7, <3>8 DEF Working
  <2>5. QED
    BY <1>5, <2>1, <2>3, <2>4 DEF Session
<1>10. QED
  BY <1>5, <1>7, <1>8, <1>9, EmptySeq DEF DomainInv

\* The rest of a reply: it says what its beginning said.
LEMMA CompletionKeeps ==
  ASSUME TypeOK, NEW d \in Domain, DomainInv(d), ReplyCompletes(d)
  PROVE  DomainInv(d)'
<1>1. inbox[d] \in Seq(Line) /\ inbox[d] # <<>> /\ inbox'[d] = [inbox[d] EXCEPT ![1].whole = TRUE]
  BY DEF TypeOK, ReplyCompletes
<1>2. /\ inbox'[d] # <<>> /\ Len(inbox'[d]) = Len(inbox[d])
      /\ Head(inbox'[d]).code = Head(inbox[d]).code
  BY <1>1, LineCompletes
<1>3. UNCHANGED <<open, conn, toServer, closed, env, acc>>
  BY DEF ReplyCompletes, clientVars, serverVars
<1>4. d \in open /\ conn[d].state \in Working => Session(conn[d], d)'
  BY <1>1, <1>2, <1>3 DEF DomainInv, Session, Taken
<1>5. QED
  BY <1>1, <1>2, <1>3, <1>4 DEF DomainInv, InOrder

\* A drop: no command is left, and no reply becomes a good one.
LEMMA DropKeeps ==
  ASSUME TypeOK, NEW d \in Domain, DomainInv(d), ServerDrops(d)
  PROVE  DomainInv(d)'
<1>1. UNCHANGED <<open, conn, env, acc>> /\ d \in open
  BY DEF ServerDrops, clientVars, serverVars
<1>2. closed'[d] = TRUE /\ toServer'[d] = <<>>
  BY DEF ServerDrops, TypeOK
<1>3. inbox'[d] \in {inbox[d], <<>>, Append(inbox[d], Goodbye)} /\ inbox[d] \in Seq(Line)
  BY DEF ServerDrops, TypeOK
<1>4. Head(Append(inbox[d], Goodbye)) = IF inbox[d] = <<>> THEN Goodbye ELSE Head(inbox[d])
  <2>1. Goodbye \in Line
    BY DEF Goodbye, Line, ReplyCode
  <2>2. QED
    BY <1>3, <2>1, HeadTailAppend
<1>5. ASSUME conn[d].state \in Working
      PROVE  Session(conn[d], d)'
  <2>1. Good(Awaited(conn[d]).verb) # "INVALID"
    BY <1>5 DEF Good, Awaited, Command, Working
  <2>2. inbox'[d] # <<>> =>
          \/ inbox[d] # <<>> /\ Head(inbox'[d]) = Head(inbox[d])
          \/ Head(inbox'[d]) = Goodbye
    BY <1>3, <1>4
  <2>3. inbox'[d] # <<>> /\ Head(inbox'[d]).code = Good(Awaited(conn[d]).verb)
        => Taken(conn[d], d)
    BY <1>1, <1>5, <2>1, <2>2 DEF DomainInv, Session, Goodbye
  <2>4. QED
    BY <1>1, <1>2, <2>3 DEF Session, Taken
<1>6. QED
  BY <1>1, <1>2, <1>5, EmptySeq DEF DomainInv

\* Giving a connection up takes it out of the invariant.
LEMMA InvalidKeeps ==
  ASSUME TypeOK, NEW d \in Domain, DomainInv(d),
         conn'[d] = [conn[d] EXCEPT !.state = "INVALID"],
         UNCHANGED <<toServer, closed, env, acc>>,
         d \notin open' => inbox'[d] = <<>>
  PROVE  DomainInv(d)'
<1>1. conn'[d].state = "INVALID"
  BY DEF TypeOK, Conn
<1>2. QED
  BY <1>1 DEF DomainInv, InOrder, Working

\* So does closing it.
LEMMA CloseKeeps ==
  ASSUME TypeOK, NEW d \in Domain, DomainInv(d), conn'[d] = conn[d],
         UNCHANGED <<toServer, closed, env, acc>>,
         d \notin open', inbox'[d] = <<>>
  PROVE  DomainInv(d)'
BY DEF DomainInv, InOrder

\* A new connection starts at the first mail and its first recipient.
LEMMA CreateKeeps ==
  ASSUME TypeOK, DomainsOK, Phases, CreateConnection,
         NEW d \in Domain, d = domains[i], DomainInv(d)
  PROVE  DomainInv(d)'
<1> DEFINE m == SeekMail(1, d)
           c == [state |-> "INIT", m |-> m, r |-> SeekRcpt(m, 1, d)]
<1>1. i \in DOMAIN domains /\ pc = "connect"
  BY LenProperties DEF CreateConnection, TypeOK
<1>2. Fresh(d)
  <2>1. d \notin Tried
    BY <1>1 DEF Tried, DomainsOK, TypeOK
  <2>2. QED
    BY <1>1, <2>1 DEF Phases
<1>3. m \in MailsFor(d) /\ \A n \in MailsFor(d) : m <= n
  <2>1. MailsFor(d) # {}
    BY <1>1 DEF DomainsOK
  <2>2. \A n \in MailsFor(d) : 1 <= n
    BY MailsForShape, BatchShape
  <2>3. QED
    BY <2>1, <2>2, SeekMailFinds, MailsForShape
<1>4. \A j \in RcptsFrom(m, d) : c.r <= j
  <2>1. m \in Mails
    BY <1>3, MailsForShape
  <2>2. \A j \in RcptsFrom(m, d) : 1 <= j
    BY <2>1, RcptsFromShape
  <2>3. QED
    BY <2>1, <2>2, SeekRcptFinds, RcptsFromShape
<1> HIDE DEF m
<1>5. /\ conn'[d] = c /\ inbox'[d] = <<>>
      /\ UNCHANGED <<env, acc>>
      /\ \/ closed'[d] = TRUE /\ toServer'[d] = <<>>
         \/ closed'[d] = FALSE /\ toServer'[d] = <<Command("CONNECT", 0, 0)>>
      /\ d \in open'
  BY <1>2 DEF CreateConnection, TypeOK, Fresh, serverVars, m
<1>6. env'[d] = NoEnvelope /\ acc'[d] = {}
  BY <1>2, <1>5 DEF Fresh
<1>7. Cursors(c, d)
  BY <1>3, <1>4 DEF Cursors
<1>8. Awaited(c) = Command("CONNECT", 0, 0)
  BY DEF Awaited
<1>9. InOrder(Command("CONNECT", 0, 0), d)'
  BY <1>6 DEF InOrder, Command
<1>10. /\ Len(toServer'[d]) <= 1
       /\ closed'[d] => toServer'[d] = <<>>
       /\ toServer'[d] # <<>> => Head(toServer'[d]) = Command("CONNECT", 0, 0)
       /\ toServer'[d] # <<>> \/ closed'[d]
  <2>1. CASE closed'[d] = TRUE /\ toServer'[d] = <<>>
    BY <2>1
  <2>2. CASE closed'[d] = FALSE /\ toServer'[d] = <<Command("CONNECT", 0, 0)>>
    BY <2>2
  <2>3. QED
    BY <1>5, <2>1, <2>2
<1>11. Session(c, d)'
  <2>1. c.state = "INIT" /\ inbox'[d] = <<>> /\ Len(inbox'[d]) <= 1
    BY <1>5
  <2> HIDE DEF c
  <2>2. QED
    BY <1>8, <1>10, <2>1 DEF Session
<1>12. conn'[d].state # "DONE" /\ acc'[d] \subseteq AllFor(d)
  BY <1>5, <1>6
<1> HIDE DEF c
<1>13. QED
  BY <1>5, <1>7, <1>9, <1>10, <1>11, <1>12 DEF DomainInv

-----------------------------------------------------------------------------
(* Reading a response *)

\* The machine gives a connection up on any reply but the one it awaits.
LEMMA BadReply ==
  ASSUME NEW c \in Connection, NEW d, NEW ev \in ReplyCode,
         c.state \in Working, ev # Good(Awaited(c).verb)
  PROVE  FsmStep(c, d, ev) = Outcome("INVALID", c.m, c.r, <<>>, {})
BY DEF Good, Awaited, Command, FsmStep, NextState, Working, Terminal, ReplyCode

\* On the reply it awaits it goes on: what it sends is the command the server
\* is due, and the mail it marks has been accepted.
GoodStep(c, d, out) ==
  /\ out.mark \subseteq {m \in Mails : Full(m, d) \in acc[d]}
  /\ \/ /\ out.conn.state = "DONE" /\ acc[d] = AllFor(d)
        /\ out.send = <<>>
     \/ /\ out.conn.state \in Working /\ Cursors(out.conn, d)
        /\ out.send = <<Awaited(out.conn)>> /\ InOrder(Awaited(out.conn), d)
        /\ out.conn.state = "DATA" => env[d].from = out.conn.m

\* On the reply it awaits, the machine sends the next command that is due
\* (smtp_client_fsm_step, state by state).
LEMMA GoodReply ==
  ASSUME NEW c \in Connection, NEW d, c.state \in Working, Cursors(c, d), Taken(c, d)
  PROVE  GoodStep(c, d, FsmStep(c, d, Good(Awaited(c).verb)))
<1> DEFINE out == FsmStep(c, d, Good(Awaited(c).verb))
           R == RcptsFrom(c.m, d)
<1>1. c.m \in Nat /\ c.r \in Nat
  BY BatchShape DEF Connection
<1>2. CASE c.state = "INIT"
  <2>1. out = Outcome("HELO", c.m, c.r, <<Command("HELO", 0, 0)>>, {})
    BY <1>2 DEF FsmStep, Reply, NextState, Good, Awaited, Command, Terminal
  <2> HIDE DEF out
  <2>2. out.conn.state = "HELO" /\ Cursors(out.conn, d) /\ out.mark = {}
    BY <1>2, <2>1 DEF Outcome, Cursors
  <2>3. Awaited(out.conn) = Command("HELO", 0, 0) /\ out.send = <<Command("HELO", 0, 0)>>
    BY <2>1 DEF Outcome, Awaited
  <2>4. InOrder(Command("HELO", 0, 0), d)
    BY <1>2 DEF Taken, InOrder, Command
  <2>5. QED
    BY <2>2, <2>3, <2>4 DEF GoodStep, Working, out
<1>3. CASE c.state = "HELO"
  <2>1. out = Outcome("MAILFROM", c.m, c.r, <<Command("MAIL", c.m, 0)>>, {})
    BY <1>3 DEF FsmStep, Reply, NextState, Good, Awaited, Command, Terminal
  <2> HIDE DEF out
  <2>2. out.conn.state = "MAILFROM" /\ Cursors(out.conn, d) /\ out.mark = {}
    BY <1>3, <2>1 DEF Outcome, Cursors
  <2>3. Awaited(out.conn) = Command("MAIL", c.m, 0) /\ out.send = <<Command("MAIL", c.m, 0)>>
    BY <2>1 DEF Outcome, Awaited
  <2>4. c.m \in MailsFor(d) /\ Earlier(c.m, d) = {}
    BY <1>1, <1>3, EarlierFirst DEF Cursors
  <2>5. InOrder(Command("MAIL", c.m, 0), d)
    BY <1>3, <2>4 DEF Taken, InOrder, Command
  <2>6. QED
    BY <2>2, <2>3, <2>5 DEF GoodStep, Working, out
<1>4. ASSUME c.state \in {"MAILFROM", "RCPTTO"}, SeekRcpt(c.m, c.r, d) \in R,
             \A n \in R : n < c.r => n < SeekRcpt(c.m, c.r, d),
             \A n \in R : c.r <= n => SeekRcpt(c.m, c.r, d) <= n,
             env[d] = [from |-> c.m, to |-> {n \in R : n < c.r}],
             out = NamesRcpt(c, d)
      PROVE  GoodStep(c, d, out)
  <2> DEFINE n == SeekRcpt(c.m, c.r, d)
  <2>1. c.m \in MailsFor(d) /\ R \in SUBSET Nat
    BY <1>4, RcptsFromShape, MailsForShape DEF Cursors
  <2>2. out = Outcome("RCPTTO", c.m, n + 1, <<Command("RCPT", c.m, n)>>, {})
    BY <1>4 DEF NamesRcpt
  <2>3. n \in Nat /\ n \in R /\ (n + 1) - 1 = n
    BY <1>4, <2>1
  <2>4. {l \in R : l < c.r} = {l \in R : l < n}
    BY <1>1, <1>4, <2>1, <2>3
  <2> HIDE DEF out, n
  <2>5. out.conn = [state |-> "RCPTTO", m |-> c.m, r |-> n + 1] /\ out.mark = {}
        /\ out.send = <<Command("RCPT", c.m, n)>>
    BY <2>2 DEF Outcome
  <2>6. Cursors(out.conn, d)
    BY <2>1, <2>3, <2>5 DEF Cursors
  <2>7. Awaited(out.conn) = Command("RCPT", c.m, n)
    BY <2>3, <2>5 DEF Awaited
  <2>8. acc[d] = Earlier(c.m, d)
    BY <1>4 DEF Taken
  <2>9. InOrder(Command("RCPT", c.m, n), d)
    BY <1>4, <2>1, <2>3, <2>4, <2>8 DEF InOrder, Command
  <2>10. QED
    BY <2>5, <2>6, <2>7, <2>9 DEF GoodStep, Working, out
<1>5. CASE c.state = "MAILFROM"
  <2>1. c.m \in MailsFor(d) /\ c.m \in Mails /\ R # {} /\ R \in SUBSET Nat
        /\ \A n \in R : c.r <= n
    BY <1>5, RcptsFromShape, MailsForShape DEF Cursors, MailsFor, MailHasRcptsFrom
  <2>2. /\ SeekRcpt(c.m, c.r, d) \in R /\ SeekRcpt(c.m, c.r, d) # NullRcpt(c.m)
        /\ \A n \in R : c.r <= n => SeekRcpt(c.m, c.r, d) <= n
    BY <1>1, <2>1, SeekRcptFinds
  <2>3. out = NamesRcpt(c, d)
    BY <1>5, <2>2 DEF FsmStep, MailfromR250, Good, Awaited, Command, Terminal
  <2>4. {n \in R : n < c.r} = {} /\ \A n \in R : n < c.r => n < SeekRcpt(c.m, c.r, d)
    BY <1>1, <2>1
  <2>5. env[d] = [from |-> c.m, to |-> {n \in R : n < c.r}]
    BY <1>5, <2>4 DEF Taken
  <2>6. QED
    BY <1>4, <1>5, <2>2, <2>3, <2>4, <2>5
<1>6. CASE c.state = "RCPTTO"
  <2>1. c.m \in MailsFor(d) /\ c.m \in Mails /\ R \in SUBSET Nat
    BY <1>6, RcptsFromShape, MailsForShape DEF Cursors
  <2>2. /\ env[d] = [from |-> c.m, to |-> {n \in R : n < c.r}]
        /\ acc[d] = Earlier(c.m, d)
    BY <1>6 DEF Taken
  <2>3. out = RcpttoR250(c, d)
    BY <1>6 DEF FsmStep, Good, Awaited, Command, Terminal
  <2>4. CASE SeekRcpt(c.m, c.r, d) # NullRcpt(c.m)
    <3>1. /\ SeekRcpt(c.m, c.r, d) \in R /\ c.r <= SeekRcpt(c.m, c.r, d)
          /\ \A n \in R : c.r <= n => SeekRcpt(c.m, c.r, d) <= n
      BY <1>1, <2>1, <2>4, SeekRcptFinds
    <3>2. \A n \in R : n < c.r => n < SeekRcpt(c.m, c.r, d)
      BY <1>1, <2>1, <3>1
    <3>3. QED
      BY <1>4, <1>6, <2>2, <2>3, <2>4, <3>1, <3>2 DEF RcpttoR250
  <2>5. CASE SeekRcpt(c.m, c.r, d) = NullRcpt(c.m)
    <3>1. \A n \in R : n < c.r
      BY <1>1, <2>1, <2>5, SeekRcptFinds
    <3>2. {n \in R : n < c.r} = R
      BY <3>1
    <3>3. out = Outcome("DATA", c.m, NullRcpt(c.m), <<Command("DATA", 0, 0)>>, {})
      BY <2>3, <2>5 DEF RcpttoR250, NextState
    <3> HIDE DEF out
    <3>4. out.conn = [state |-> "DATA", m |-> c.m, r |-> NullRcpt(c.m)]
          /\ out.mark = {} /\ out.send = <<Command("DATA", 0, 0)>>
      BY <3>3 DEF Outcome
    <3>5. Cursors(out.conn, d) /\ Awaited(out.conn) = Command("DATA", 0, 0)
      BY <2>1, <3>4 DEF Cursors, Awaited
    <3>6. env[d].from = c.m /\ env[d].to = R
      BY <2>2, <3>2
    <3>7. InOrder(Command("DATA", 0, 0), d)
      BY <2>1, <2>2, <3>6 DEF InOrder, Command
    <3>8. QED
      BY <3>4, <3>5, <3>6, <3>7 DEF GoodStep, Working, out
  <2>6. QED
    BY <2>4, <2>5
<1>7. CASE c.state = "DATA"
  <2>1. out = Outcome("DATASTR", c.m, c.r, <<Command("BODY", c.m, 0)>>, {})
    BY <1>7 DEF FsmStep, Reply, NextState, Good, Awaited, Command, Terminal
  <2> HIDE DEF out
  <2>2. out.conn.state = "DATASTR" /\ Cursors(out.conn, d) /\ out.mark = {}
    BY <1>7, <2>1 DEF Outcome, Cursors
  <2>3. Awaited(out.conn) = Command("BODY", c.m, 0) /\ out.send = <<Command("BODY", c.m, 0)>>
    BY <2>1 DEF Outcome, Awaited
  <2>4. InOrder(Command("BODY", c.m, 0), d)
    BY <1>7 DEF Taken, InOrder, Command, Cursors
  <2>5. QED
    BY <2>2, <2>3, <2>4 DEF GoodStep, Working, out
<1>8. CASE c.state = "DATASTR"
  <2> DEFINE m == SeekMail(c.m + 1, d)
  <2>1. c.m \in MailsFor(d) /\ c.m \in Mails /\ MailsFor(d) \in SUBSET Nat
    BY <1>8, MailsForShape DEF Cursors
  <2>2. env[d] = NoEnvelope /\ acc[d] = Earlier(c.m, d) \cup {Full(c.m, d)}
    BY <1>8 DEF Taken
  <2>3. {c.m} \subseteq {l \in Mails : Full(l, d) \in acc[d]}
    BY <2>1, <2>2
  <2>4. out = DatastrR250(c, d)
    BY <1>8 DEF FsmStep, Good, Awaited, Command, Terminal
  <2>5. CASE m # NullMail
    <3>1. m \in MailsFor(d) /\ c.m + 1 <= m /\ \A n \in MailsFor(d) : c.m + 1 <= n => m <= n
      BY <1>1, <2>5, SeekMailFinds
    <3>2. acc[d] = Earlier(m, d)
      BY <1>1, <2>1, <2>2, <3>1, EarlierNext
    <3>3. m \in Mails
      BY <3>1, MailsForShape
    <3>4. out = Outcome("MAILFROM", m, 1, <<Command("MAIL", m, 0)>>, {c.m})
      BY <2>4, <2>5 DEF DatastrR250, NextMail, BeginsMail
    <3> HIDE DEF out, m
    <3>5. out.conn = [state |-> "MAILFROM", m |-> m, r |-> 1] /\ out.mark = {c.m}
          /\ out.send = <<Command("MAIL", m, 0)>>
      BY <3>4 DEF Outcome
    <3>6. Cursors(out.conn, d)
      BY <3>1, <3>3, <3>5, RcptsFromShape DEF Cursors
    <3>7. Awaited(out.conn) = Command("MAIL", m, 0)
      BY <3>5 DEF Awaited
    <3>8. InOrder(Command("MAIL", m, 0), d)
      BY <2>2, <3>1, <3>2 DEF InOrder, Command
    <3>9. QED
      BY <2>3, <3>5, <3>6, <3>7, <3>8 DEF GoodStep, Working, out
  <2>6. CASE m = NullMail
    <3>1. \A n \in MailsFor(d) : n < c.m + 1
      BY <1>1, <2>6, SeekMailFinds, MailsForShape
    <3>2. acc[d] = AllFor(d)
      BY <2>1, <2>2, <3>1, EarlierLast
    <3>3. out = Outcome("QUIT", m, c.r, <<Command("QUIT", 0, 0)>>, {c.m})
      BY <2>4, <2>6 DEF DatastrR250, NextMail, NextState
    <3> HIDE DEF out, m
    <3>4. out.conn = [state |-> "QUIT", m |-> m, r |-> c.r] /\ out.mark = {c.m}
          /\ out.send = <<Command("QUIT", 0, 0)>>
      BY <3>3 DEF Outcome
    <3>5. Cursors(out.conn, d) /\ Awaited(out.conn) = Command("QUIT", 0, 0)
      BY <3>4 DEF Cursors, Awaited
    <3>6. InOrder(Command("QUIT", 0, 0), d)
      BY <2>2, <3>2 DEF InOrder, Command
    <3>7. QED
      BY <2>3, <3>4, <3>5, <3>6 DEF GoodStep, Working, out
  <2>7. QED
    BY <2>5, <2>6
<1>9. CASE c.state = "QUIT"
  <2>1. out = Outcome("DONE", c.m, c.r, <<>>, {})
    BY <1>9 DEF FsmStep, NextState, Good, Awaited, Command, Terminal
  <2> HIDE DEF out
  <2>2. out.conn.state = "DONE" /\ out.mark = {} /\ out.send = <<>>
    BY <2>1 DEF Outcome
  <2>3. acc[d] = AllFor(d)
    BY <1>9 DEF Taken
  <2>4. QED
    BY <2>2, <2>3 DEF GoodStep, out
<1>10. QED
  BY <1>2, <1>3, <1>5, <1>6, <1>7, <1>8, <1>9 DEF Working

\* Whatever was read, the domain is left in order, with the reply consumed.
LEMMA ReadKeeps ==
  ASSUME TypeOK, NEW d \in Domain, DomainInv(d), d \in open, inbox[d] # <<>>,
         conn[d].state \in Working, ReadResponse(d),
         UNCHANGED <<open, closed, env, acc>>
  PROVE  /\ DomainInv(d)'
         /\ \A m \in Mails : sent'[m] => sent[m] \/ Full(m, d) \in acc[d]
<1> DEFINE line == Head(inbox[d])
           event == IF line.whole THEN line.code ELSE "INVALID"
           cn == conn[d]
           out == FsmStep(cn, d, event)
<1>1. cn \in Connection /\ toServer[d] \in Seq(Commands) /\ inbox[d] \in Seq(Line)
  BY ConnIsConnection DEF TypeOK
<1>2. line \in Line
  BY <1>1, HeadTailProperties
<1>3. event \in ReplyCode
  BY <1>2 DEF Line, ReplyCode
<1>4. Cursors(cn, d) /\ Session(cn, d)
  BY DEF DomainInv
<1>5. toServer[d] = <<>>
  BY <1>4 DEF Session
<1>6. /\ conn'[d] = out.conn /\ inbox'[d] = <<>>
      /\ toServer'[d] = IF closed[d] THEN <<>> ELSE <<>> \o out.send
      /\ \A m \in Mails : sent'[m] => sent[m] \/ m \in out.mark
  BY <1>5 DEF ReadResponse, TypeOK
<1>7. CASE event = Good(Awaited(cn).verb)
  <2>1. Good(Awaited(cn).verb) # "INVALID"
    BY DEF Good, Awaited, Command, Working
  <2>2. line.code = Good(Awaited(cn).verb)
    BY <1>7, <2>1
  <2>3. GoodStep(cn, d, out)
    BY <1>1, <1>4, <1>7, <2>2, GoodReply DEF Session
  <2> HIDE DEF out
  <2>4. CASE out.conn.state = "DONE" /\ acc[d] = AllFor(d) /\ out.send = <<>>
    <3>1. toServer'[d] = <<>>
      BY <1>6, <2>4
    <3>2. QED
      BY <1>6, <2>3, <2>4, <3>1, EmptySeq DEF DomainInv, GoodStep, Working
  <2>5. CASE /\ out.conn.state \in Working /\ Cursors(out.conn, d)
             /\ out.send = <<Awaited(out.conn)>> /\ InOrder(Awaited(out.conn), d)
             /\ out.conn.state = "DATA" => env[d].from = out.conn.m
    <3>1. \/ closed'[d] /\ toServer'[d] = <<>>
          \/ ~closed'[d] /\ toServer'[d] = <<Awaited(out.conn)>>
      BY <1>6, <2>5
    <3>2. /\ Len(toServer'[d]) <= 1
          /\ toServer'[d] # <<>> => Head(toServer'[d]) = Awaited(out.conn)
          /\ toServer'[d] = <<>> => closed'[d]
          /\ closed'[d] => toServer'[d] = <<>>
      <4>1. CASE toServer'[d] = <<>>
        BY <3>1, <4>1
      <4>2. CASE toServer'[d] = <<Awaited(out.conn)>> /\ ~closed'[d]
        BY <4>2
      <4>3. QED
        BY <3>1, <4>1, <4>2
    <3>3. Session(conn[d], d)'
      BY <1>6, <2>5, <3>2 DEF Session
    <3>4. (toServer[d] # <<>> => InOrder(Head(toServer[d]), d))'
      BY <2>5, <3>2 DEF InOrder
    <3>5. conn'[d].state # "DONE"
      BY <1>6, <2>5 DEF Working
    <3>6. DomainInv(d)'
      BY <1>6, <2>5, <3>2, <3>3, <3>4, <3>5 DEF DomainInv
    <3>7. QED
      BY <1>6, <2>3, <3>6 DEF GoodStep
  <2>6. QED
    BY <2>3, <2>4, <2>5 DEF GoodStep
<1>8. CASE event # Good(Awaited(cn).verb)
  <2>1. out = Outcome("INVALID", cn.m, cn.r, <<>>, {})
    BY <1>1, <1>3, <1>8, BadReply
  <2>2. out.conn.state = "INVALID" /\ out.send = <<>> /\ out.mark = {}
    BY <2>1 DEF Outcome
  <2> HIDE DEF out
  <2>3. toServer'[d] = <<>>
    BY <1>6, <2>2
  <2>4. QED
    BY <1>6, <2>2, <2>3, EmptySeq DEF DomainInv, Working
<1>9. QED
  BY <1>7, <1>8

-----------------------------------------------------------------------------
(* Every step keeps the rest of the invariant. *)

\* Where there is something to read, the connection found is open and at work.
LEMMA FoundIsOpen ==
  ASSUME TypeOK, Phases, Waiting, NEW n, NEW d \in Found(n)
  PROVE  d \in open /\ d \in Domain /\ conn[d].state \in Working
BY DEF TypeOK, Phases, Waiting, Found, Ready

\* The inductive invariant holds at the start.
LEMMA InitInv == Init => IInv
<1> SUFFICES ASSUME Init PROVE IInv
  OBVIOUS
<1>1. TypeOK
  BY TypeInit
<1>2. DomainsOK
  BY DEF Init, DomainsOK
<1>3. Phases
  BY DEF Init, Phases, Tried, Fresh
<1>4. SentMeansAccepted
  BY DEF Init, SentMeansAccepted
<1>5. ASSUME NEW d \in Domain PROVE DomainInv(d)
  BY EmptySeq DEF Init, DomainInv, NoConn
<1>6. OpenListed /\ UntilSettled
  BY DEF Init, OpenListed, UntilSettled
<1>7. QED
  BY <1>1, <1>2, <1>3, <1>4, <1>5, <1>6, ByDomain

\* The list of domains changes only in domain_add.
LEMMA DomainsUnchanged == [Next]_vars => DomainAdd \/ UNCHANGED domains
BY DEF Next, vars, ClientStep, ConnInit, WaitForResponse, Finish, Environment,
       DomainsCollected, CreateConnection, CreateConnectionFails, ConnectionsCreated,
       PollTimesOut, PollFails, ServeResponse, ServeDisconnect, NothingFound,
       GarbageFound, Die, Sweep, AllClosed, SettleMail, BatchFinished, Tick, Crash, SendReturns,
       ServerAnswers, ReplyCompletes, ServerDrops, clientVars

\* The list of domains stays without duplicates (domain_add).
LEMMA DomainsNext == IInv /\ [Next]_vars => DomainsOK'
<1> SUFFICES ASSUME IInv, [Next]_vars PROVE DomainsOK'
  OBVIOUS
<1>1. TypeOK /\ DomainsOK
  BY DEF IInv
<1>2. CASE UNCHANGED domains
  BY <1>1, <1>2 DEF DomainsOK
<1>3. CASE DomainAdd
  <2> DEFINE e == Batch[i][k]
  <2>1. i \in Mails /\ k \in DOMAIN Batch[i] /\ domains \in Seq(Domain)
    BY <1>1, <1>3 DEF DomainAdd, TypeOK
  <2>2. e \in Domain /\ MailsFor(e) # {}
    <3>1. Batch[i] \in Seq(Domain) /\ k \in 1 .. Len(Batch[i])
      BY <2>1, BatchShape
    <3>2. e \in Domain
      BY <3>1, ElementOfSeq
    <3>3. k \in RcptsFrom(i, e)
      BY <2>1 DEF RcptsFrom
    <3>4. QED
      BY <2>1, <3>2, <3>3 DEF MailsFor, MailHasRcptsFrom
  <2>3. CASE e \in Listed
    BY <1>1, <1>3, <2>3 DEF DomainAdd, DomainsOK
  <2>4. CASE e \notin Listed
    <3> HIDE DEF e
    <3>1. domains' = Append(domains, e)
      BY <1>3, <2>4 DEF DomainAdd, e
    <3>2. /\ Len(domains) \in Nat /\ DOMAIN domains = 1 .. Len(domains)
          /\ DOMAIN domains' = 1 .. Len(domains) + 1
          /\ domains'[Len(domains) + 1] = e
          /\ \A j \in 1 .. Len(domains) : domains'[j] = domains[j]
      BY <2>1, <2>2, <3>1
    <3>3. \A j \in DOMAIN domains : domains[j] # e
      BY <2>4 DEF Listed
    <3>4. \A j \in DOMAIN domains' : MailsFor(domains'[j]) # {}
      BY <1>1, <2>2, <3>2 DEF DomainsOK
    <3>5. \A j, l \in DOMAIN domains' : domains'[j] = domains'[l] => j = l
      BY <1>1, <3>2, <3>3 DEF DomainsOK
    <3>6. QED
      BY <3>4, <3>5 DEF DomainsOK
  <2>5. QED
    BY <2>3, <2>4
<1>4. QED
  BY <1>2, <1>3, DomainsUnchanged

\* Connections are opened to domains of the list, which only grows.
LEMMA OpenListedNext == IInv /\ [Next]_vars => OpenListed'
<1> SUFFICES ASSUME IInv, [Next]_vars PROVE OpenListed'
  OBVIOUS
<1>1. TypeOK /\ OpenListed
  BY DEF IInv
<1>2. CASE DomainAdd
  <2>1. domains \in Seq(Domain) /\ open' = open
    BY <1>1, <1>2 DEF DomainAdd, TypeOK
  <2>2. CASE domains' = domains
    BY <1>1, <2>1, <2>2 DEF OpenListed, Listed
  <2>3. CASE domains' = Append(domains, Batch[i][k])
    <3>1. \A j \in DOMAIN domains : j \in DOMAIN domains' /\ domains'[j] = domains[j]
      BY <2>1, <2>3
    <3>2. QED
      BY <1>1, <2>1, <3>1 DEF OpenListed, Listed
  <2>4. QED
    BY <1>2, <2>2, <2>3 DEF DomainAdd
<1>3. CASE CreateConnection
  <2>1. i \in DOMAIN domains /\ domains' = domains /\ open' = open \cup {domains[i]}
    BY <1>1, <1>3, LenProperties DEF CreateConnection, TypeOK
  <2>2. QED
    BY <1>1, <2>1 DEF OpenListed, Listed
<1>4. CASE open' \subseteq open /\ domains' = domains
  BY <1>1, <1>4 DEF OpenListed, Listed
<1>5. QED
  BY <1>2, <1>3, <1>4
  DEF Next, vars, ClientStep, ConnInit, WaitForResponse, Finish, Environment,
      DomainsCollected, CreateConnectionFails, ConnectionsCreated,
      PollTimesOut, PollFails, ServeResponse, ServeDisconnect, NothingFound,
      GarbageFound, Die, Sweep, AllClosed, SettleMail, BatchFinished, Tick, Crash, SendReturns,
      ServerAnswers, ReplyCompletes, ServerDrops, clientVars

\* The files are settled one after the other, when all connections are closed.
LEMMA UntilSettledNext == IInv /\ [Next]_vars => UntilSettled'
<1> SUFFICES ASSUME IInv, [Next]_vars PROVE UntilSettled'
  OBVIOUS
<1>1. TypeOK /\ UntilSettled /\ Mails \subseteq Nat
  BY BatchShape DEF IInv
<1>2. CASE pc \in {"collect", "connect", "loop", "send", "sweep"} /\ dir' = dir
  BY <1>1, <1>2 DEF UntilSettled
<1>3. CASE SettleMail
  <2>1. i \in Mails /\ i \in Nat /\ i' = i + 1 /\ pc = "settle" /\ pc' = "settle"
    BY <1>1, <1>3 DEF SettleMail
  <2>2. \A m \in Mails : m # i => dir'[m] = dir[m]
    BY <1>1, <1>3 DEF SettleMail, TypeOK
  <2>3. ASSUME NEW m \in Mails, dir'[m] # "new" PROVE m < i'
    <3>1. m = i \/ m < i
      BY <1>1, <2>1, <2>2, <2>3 DEF UntilSettled
    <3>2. QED
      BY <1>1, <2>1, <3>1
  <2>4. QED
    BY <2>1, <2>3 DEF UntilSettled
<1>4. CASE pc' \in {"final", "crashed"}
  BY <1>4 DEF UntilSettled
<1>5. CASE UNCHANGED <<pc, i, dir>>
  BY <1>1, <1>5 DEF UntilSettled
<1>6. QED
  BY <1>2, <1>3, <1>4, <1>5
  DEF Next, vars, ClientStep, ConnInit, WaitForResponse, Finish, Environment, DomainAdd,
      DomainsCollected, CreateConnection, CreateConnectionFails, ConnectionsCreated,
      PollTimesOut, PollFails, ServeResponse, ServeDisconnect, NothingFound, Waiting,
      GarbageFound, Die, Sweep, AllClosed, BatchFinished, Tick, Crash, SendReturns,
      ServerAnswers, ReplyCompletes, ServerDrops, clientVars

\* A mail is marked, and its file deleted, only when a server has accepted it.
LEMMA SentNext == IInv /\ [Next]_vars => SentMeansAccepted'
<1> SUFFICES ASSUME IInv, [Next]_vars PROVE SentMeansAccepted'
  OBVIOUS
<1>1. TypeOK /\ Phases /\ SentMeansAccepted /\ \A d \in Domain : DomainInv(d)
  BY ByDomain
<1>2. CASE UNCHANGED <<sent, dir, acc>>
  BY <1>1, <1>2 DEF SentMeansAccepted
<1>3. CASE ServeResponse
  <2>1. PICK n : \E d \in Found(n) : inbox[d] # <<>> /\ ReadResponse(d)
    BY <1>3 DEF ServeResponse
  <2>2. PICK d \in Found(n) : inbox[d] # <<>> /\ ReadResponse(d)
    BY <2>1
  <2>3. d \in open /\ d \in Domain /\ conn[d].state \in Working
    BY <1>1, <1>3, FoundIsOpen DEF ServeResponse
  <2>4. UNCHANGED <<open, closed, env, acc, dir>>
    BY <1>3 DEF ServeResponse, serverVars
  <2>5. \A m \in Mails : sent'[m] => sent[m] \/ Full(m, d) \in acc[d]
    BY <1>1, <2>2, <2>3, <2>4, ReadKeeps
  <2>6. QED
    BY <1>1, <2>3, <2>4, <2>5 DEF SentMeansAccepted
<1>4. CASE SettleMail
  <2>1. UNCHANGED <<sent, acc>> /\ \A m \in Mails : dir'[m] = "deleted" => dir[m] = "deleted" \/ sent[m]
    BY <1>1, <1>4 DEF SettleMail, SettledIn, TypeOK, serverVars
  <2>2. QED
    BY <1>1, <2>1 DEF SentMeansAccepted
<1>5. ASSUME NEW d \in Domain, ServerAnswers(d) PROVE SentMeansAccepted'
  <2>1. UNCHANGED <<sent, dir>> /\ \A e \in Domain : acc[e] \subseteq acc'[e]
    BY <1>1, <1>5 DEF ServerAnswers, TypeOK, clientVars
  <2>2. QED
    BY <1>1, <2>1 DEF SentMeansAccepted
<1>6. QED
  BY <1>2, <1>3, <1>4, <1>5
  DEF Next, vars, ClientStep, ConnInit, WaitForResponse, Finish, Environment, DomainAdd,
      DomainsCollected, CreateConnection, CreateConnectionFails, ConnectionsCreated,
      PollTimesOut, PollFails, ServeDisconnect, NothingFound,
      GarbageFound, Die, Sweep, AllClosed, BatchFinished, Tick, Crash, SendReturns,
      ReplyCompletes, ServerDrops, clientVars, serverVars

\* Connections are opened once, by conn_init, and closed by the end of conn_loop.
LEMMA PhasesNext == IInv /\ [Next]_vars => Phases'
<1> SUFFICES ASSUME IInv, [Next]_vars PROVE Phases'
  OBVIOUS
<1>1. TypeOK /\ Phases /\ DomainsOK
  BY DEF IInv
<1>2. CASE DomainAdd
  BY <1>1, <1>2 DEF DomainAdd, Phases, Tried, Fresh, socketVars, serverVars
<1>3. CASE DomainsCollected
  <2>1. pc = "collect" /\ open = {} /\ \A d \in Domain : Fresh(d)
    BY <1>1, <1>3 DEF DomainsCollected, Phases, Tried
  <2>2. pc' = "connect" /\ open' = {} /\ \A d \in Domain : Fresh(d)'
    BY <1>3, <2>1 DEF DomainsCollected, Fresh, socketVars, serverVars
  <2>3. QED
    BY <2>2 DEF Phases
<1>4. CASE CreateConnection
  <2> DEFINE d == domains[i]
  <2>1. i \in DOMAIN domains /\ i \in Nat /\ d \in Domain /\ pc = "connect" /\ DOMAIN domains \subseteq Nat
    BY <1>1, <1>4, LenProperties, ElementOfSeq DEF CreateConnection, TypeOK
  <2>2. pc' = "connect" /\ i' = i + 1 /\ domains' = domains /\ open' = open \cup {d}
    BY <1>4, <2>1 DEF CreateConnection
  <2>3. Tried \subseteq Tried' /\ d \in Tried'
    BY <2>1, <2>2 DEF Tried
  <2>4. open' \subseteq Tried'
    BY <1>1, <2>1, <2>2, <2>3 DEF Phases
  <2>5. ASSUME NEW e \in Domain \ Tried' PROVE Fresh(e)'
    <3>1. Fresh(e) /\ e # d
      BY <1>1, <2>1, <2>3, <2>5 DEF Phases
    <3>2. QED
      BY <1>1, <1>4, <3>1 DEF CreateConnection, Fresh, TypeOK, serverVars
  <2>6. conn'[d].state = "INIT" /\ \A e \in Domain : e # d => conn'[e] = conn[e]
    BY <1>1, <1>4, <2>1 DEF CreateConnection, TypeOK
  <2>7. \A e \in open' : conn'[e].state \in Working
    BY <1>1, <2>1, <2>2, <2>6 DEF Phases, TypeOK, Working
  <2>8. QED
    BY <2>2, <2>4, <2>5, <2>7 DEF Phases
<1>5. CASE CreateConnectionFails
  <2>1. i \in Nat /\ pc = "connect" /\ DOMAIN domains \subseteq Nat
    BY <1>1, <1>5, LenProperties DEF CreateConnectionFails, TypeOK
  <2>2. pc' = "connect" /\ i' = i + 1 /\ domains' = domains
    BY <1>5, <2>1 DEF CreateConnectionFails
  <2>3. Tried \subseteq Tried'
    BY <2>1, <2>2 DEF Tried
  <2>4. QED
    BY <1>1, <1>5, <2>1, <2>2, <2>3
    DEF CreateConnectionFails, Phases, Fresh, socketVars, serverVars
<1>6. CASE ConnectionsCreated
  BY <1>1, <1>6 DEF ConnectionsCreated, Phases
<1>7. CASE pc' \in {"send", "sweep"}
  BY <1>7 DEF Phases
<1>8. CASE Die
  BY <1>8 DEF Die, Phases
<1>9. CASE Sweep
  <2>1. TypeOK'
    BY TypeNext
  <2>2. pc' = "loop" /\ \A d \in open' : conn'[d].state \notin Terminal
    BY <1>9 DEF Sweep, Over
  <2>3. \A d \in open' : conn'[d].state \in FsmState
    BY <2>1 DEF TypeOK, Conn
  <2>4. QED
    BY <2>2, <2>3 DEF Phases, FsmState
<1>10. CASE AllClosed \/ SettleMail \/ BatchFinished
  BY <1>1, <1>10 DEF AllClosed, SettleMail, BatchFinished, Phases
<1>11. ASSUME UNCHANGED <<pc, i, domains, open, conn>>,
              \A d \in Domain : Fresh(d) => Fresh(d)'
       PROVE  Phases'
  BY <1>1, <1>11 DEF Phases, Tried
<1>12. CASE Tick \/ UNCHANGED vars
  BY <1>11, <1>12 DEF Tick, Fresh, vars, clientVars, socketVars, serverVars
<1>13. ASSUME NEW d \in Domain, ServerAnswers(d) \/ ReplyCompletes(d)
       PROVE  Phases'
  <2>1. toServer[d] # <<>> \/ inbox[d] # <<>>
    BY <1>13 DEF ServerAnswers, ReplyCompletes
  <2>2. \A e \in Domain : e # d =>
          /\ toServer'[e] = toServer[e] /\ inbox'[e] = inbox[e]
          /\ env'[e] = env[e] /\ acc'[e] = acc[e]
    BY <1>1, <1>13 DEF ServerAnswers, ReplyCompletes, TypeOK, serverVars
  <2>3. UNCHANGED <<pc, i, domains, open, conn>>
    BY <1>13 DEF ServerAnswers, ReplyCompletes, clientVars
  <2>4. QED
    BY <1>11, <2>1, <2>2, <2>3 DEF Fresh
<1>14. ASSUME NEW d \in Domain, ServerDrops(d) PROVE Phases'
  <2>1. UNCHANGED <<pc, i, domains, open, conn, env, acc>> /\ d \in open
    BY <1>14 DEF ServerDrops, clientVars, serverVars
  <2>2. \A e \in Domain : e # d => toServer'[e] = toServer[e] /\ inbox'[e] = inbox[e]
    BY <1>1, <1>14 DEF ServerDrops, TypeOK
  <2>3. pc \in {"collect", "connect"} => d \in Tried
    BY <1>1, <2>1 DEF Phases
  <2>4. Tried' = Tried
    BY <2>1 DEF Tried
  <2>5. QED
    BY <1>1, <2>1, <2>2, <2>3, <2>4 DEF Phases, Fresh
<1>15. QED
  BY <1>2, <1>3, <1>4, <1>5, <1>6, <1>7, <1>8, <1>9, <1>10, <1>12, <1>13, <1>14
  DEF Next, ClientStep, ConnInit, WaitForResponse, Finish, Environment,
      PollTimesOut, PollFails, ServeResponse, ServeDisconnect, NothingFound,
      GarbageFound, Crash, SendReturns

\* Every step keeps the invariant of every domain.
LEMMA DomainNext ==
  ASSUME IInv, [Next]_vars, NEW e \in Domain
  PROVE  DomainInv(e)'
<1>1. TypeOK /\ Phases /\ DomainsOK /\ \A d \in Domain : DomainInv(d)
  BY ByDomain
<1>2. ASSUME UNCHANGED <<open, conn, toServer, inbox, closed, env, acc>>
      PROVE  DomainInv(e)'
  BY <1>1, <1>2, Frame
<1>3. CASE CreateConnection
  <2>1. CASE e = domains[i]
    BY <1>1, <1>3, <2>1, CreateKeeps
  <2>2. CASE e # domains[i]
    <3>1. /\ (e \in open)' <=> e \in open
          /\ conn'[e] = conn[e] /\ toServer'[e] = toServer[e] /\ closed'[e] = closed[e]
          /\ inbox'[e] = inbox[e] /\ env'[e] = env[e] /\ acc'[e] = acc[e]
      BY <1>1, <1>3, <2>2 DEF CreateConnection, TypeOK, serverVars
    <3>2. QED
      BY <1>1, <3>1, Frame
  <2>3. QED
    BY <2>1, <2>2
<1>4. CASE ServeResponse
  <2>1. PICK n : \E d \in Found(n) : inbox[d] # <<>> /\ ReadResponse(d)
    BY <1>4 DEF ServeResponse
  <2>2. PICK d \in Found(n) : inbox[d] # <<>> /\ ReadResponse(d)
    BY <2>1
  <2>3. d \in open /\ d \in Domain /\ conn[d].state \in Working
    BY <1>1, <1>4, FoundIsOpen DEF ServeResponse
  <2>4. UNCHANGED <<open, closed, env, acc>>
    BY <1>4 DEF ServeResponse, serverVars
  <2>5. CASE e = d
    BY <1>1, <2>2, <2>3, <2>4, <2>5, ReadKeeps
  <2>6. CASE e # d
    <3>1. conn'[e] = conn[e] /\ toServer'[e] = toServer[e] /\ inbox'[e] = inbox[e]
      BY <1>1, <2>2, <2>6 DEF ReadResponse, TypeOK
    <3>2. QED
      BY <1>1, <2>4, <3>1, Frame
  <2>7. QED
    BY <2>5, <2>6
<1>5. CASE ServeDisconnect
  <2>1. PICK n : \E d \in Found(n) : inbox[d] = <<>> /\ conn' = [conn EXCEPT ![d].state = "INVALID"]
    BY <1>5 DEF ServeDisconnect
  <2>2. PICK d \in Found(n) : inbox[d] = <<>> /\ conn' = [conn EXCEPT ![d].state = "INVALID"]
    BY <2>1
  <2>3. d \in open /\ d \in Domain
    BY <1>1, <1>5, FoundIsOpen DEF ServeDisconnect
  <2>4. UNCHANGED <<open, toServer, inbox, closed, env, acc>>
    BY <1>5 DEF ServeDisconnect, socketVars, serverVars
  <2>5. CASE e = d
    <3>1. conn'[e] = [conn[e] EXCEPT !.state = "INVALID"]
      BY <1>1, <2>2, <2>5 DEF TypeOK
    <3>2. QED
      BY <1>1, <2>3, <2>4, <2>5, <3>1, InvalidKeeps
  <2>6. CASE e # d
    BY <1>1, <2>2, <2>4, <2>6, Frame DEF TypeOK
  <2>7. QED
    BY <2>5, <2>6
<1>6. CASE Die
  <2>1. conn'[e] = conn[e] /\ UNCHANGED <<toServer, closed, env, acc>>
        /\ e \notin open' /\ inbox'[e] = <<>>
    BY <1>6 DEF Die, serverVars
  <2>2. QED
    BY <1>1, <2>1, CloseKeeps
<1>7. CASE Sweep
  <2>1. UNCHANGED <<toServer, closed, env, acc>>
        /\ inbox'[e] = (IF e \in open' THEN inbox[e] ELSE <<>>)
    BY <1>7 DEF Sweep, serverVars
  <2>2. \/ conn'[e] = conn[e]
        \/ conn'[e] = [conn[e] EXCEPT !.state = "INVALID"]
    BY <1>7 DEF Sweep, Expired
  <2>3. CASE conn'[e] = [conn[e] EXCEPT !.state = "INVALID"]
    BY <1>1, <2>1, <2>3, InvalidKeeps
  <2>4. CASE conn'[e] = conn[e] /\ e \notin open'
    BY <1>1, <2>1, <2>4, CloseKeeps
  <2>5. CASE conn'[e] = conn[e] /\ e \in open'
    <3>1. e \in open
      BY <1>7, <2>5 DEF Sweep
    <3>2. QED
      BY <1>1, <2>1, <2>5, <3>1, Frame
  <2>6. QED
    BY <2>2, <2>3, <2>4, <2>5
<1>8. ASSUME NEW d \in Domain, ServerAnswers(d) \/ ReplyCompletes(d) \/ ServerDrops(d)
      PROVE  DomainInv(e)'
  <2>1. CASE e = d
    BY <1>1, <1>8, <2>1, AnswerKeeps, CompletionKeeps, DropKeeps
  <2>2. CASE e # d
    <3>1. /\ (e \in open)' <=> e \in open
          /\ conn'[e] = conn[e] /\ toServer'[e] = toServer[e] /\ closed'[e] = closed[e]
          /\ inbox'[e] = inbox[e] /\ env'[e] = env[e] /\ acc'[e] = acc[e]
      BY <1>1, <1>8, <2>2
      DEF ServerAnswers, ReplyCompletes, ServerDrops, TypeOK, clientVars, serverVars
    <3>2. QED
      BY <1>1, <3>1, Frame
  <2>3. QED
    BY <2>1, <2>2
<1>9. QED
  BY <1>2, <1>3, <1>4, <1>5, <1>6, <1>7, <1>8
  DEF Next, vars, ClientStep, ConnInit, WaitForResponse, Finish, Environment, DomainAdd,
      DomainsCollected, CreateConnectionFails, ConnectionsCreated, PollTimesOut, PollFails,
      NothingFound, GarbageFound, AllClosed, SettleMail, BatchFinished, Tick, Crash, SendReturns,
      clientVars, socketVars, serverVars

-----------------------------------------------------------------------------
(* The theorems *)

\* IInv holds in every reachable state: whatever the servers answer, lose or
\* drop, the two ends of every session stay in step.
THEOREM Invariance == Spec => []IInv
<1>1. IInv /\ [Next]_vars => IInv'
  BY TypeNext, DomainsNext, PhasesNext, OpenListedNext, UntilSettledNext, SentNext,
     DomainNext, ByDomainNext
<1>2. QED
  BY InitInv, <1>1, PTL DEF Spec

\* The variables keep their types.
THEOREM TypeCorrect == Spec => []TypeOK
<1>1. IInv => TypeOK
  BY DEF IInv
<1>2. QED
  BY Invariance, <1>1, PTL

\* The commands that wait at a server are always the ones its session is due.
THEOREM SessionsInOrder == Spec => []CommandsInOrder
<1>1. IInv => CommandsInOrder
  BY DEF IInv
<1>2. QED
  BY Invariance, <1>1, PTL

\* What a server has accepted are whole mails of the batch.
THEOREM OnlyWholeMessages == Spec => []MessagesWhole
<1>1. IInv => MessagesWhole
  BY DEF IInv
<1>2. QED
  BY Invariance, <1>1, PTL

\* A connection that ends DONE has delivered everything for its domain.
THEOREM DoneIsDelivered == Spec => []DoneMeansAccepted
<1>1. IInv => DoneMeansAccepted
  BY DEF IInv
<1>2. QED
  BY Invariance, <1>1, PTL

\* No mail is marked sent, and no file deleted, that no server has accepted.
THEOREM NothingLost == Spec => []SentMeansAccepted
<1>1. IInv => SentMeansAccepted
  BY DEF IInv
<1>2. QED
  BY Invariance, <1>1, PTL

\* Client and server never wait for each other.
THEOREM NoDeadlockedSession == Spec => []NoMutualWait
<1>1. IInv => NoMutualWait
  <2> SUFFICES ASSUME IInv, NEW d \in open, conn[d].state \in Working, ~closed[d]
               PROVE  Len(toServer[d]) + Len(inbox[d]) = 1
    BY DEF NoMutualWait
  <2>1. TypeOK /\ d \in Domain /\ DomainInv(d)
    BY ByDomain DEF TypeOK
  <2>2. toServer[d] \in Seq(Commands) /\ inbox[d] \in Seq(Line)
    BY <2>1, ConnIsConnection DEF TypeOK
  <2> DEFINE x == Len(toServer[d])
             y == Len(inbox[d])
  <2>3. Session(conn[d], d) /\ Len(toServer[d]) <= 1
    BY <2>1 DEF DomainInv
  <2>4. CASE toServer[d] # <<>>
    <3>1. inbox[d] = <<>>
      BY <2>3, <2>4 DEF Session
    <3>2. y = 0
      BY <3>1
    <3>3. x \in Nat /\ x # 0
      BY <2>2, <2>4, EmptySeq
    <3>4. x <= 1
      BY <2>3
    <3> HIDE DEF x, y
    <3>5. x + y = 1
      BY <3>2, <3>3, <3>4
    <3>6. QED
      BY <3>5 DEF x, y
  <2>5. CASE toServer[d] = <<>>
    <3>1. inbox[d] # <<>> /\ Len(inbox[d]) <= 1
      BY <2>3, <2>5 DEF Session
    <3>2. x = 0
      BY <2>5
    <3>3. y \in Nat /\ y # 0
      BY <2>2, <3>1, EmptySeq
    <3>4. y <= 1
      BY <3>1
    <3> HIDE DEF x, y
    <3>5. x + y = 1
      BY <3>2, <3>3, <3>4
    <3>6. QED
      BY <3>5 DEF x, y
  <2>6. QED
    BY <2>4, <2>5
<1>2. QED
  BY Invariance, <1>1, PTL

-----------------------------------------------------------------------------
(* The steps of a connection *)

\* The machine is never stepped out of DONE or INVALID: what the scan finds is
\* at work, because a sweep frees whatever is over before the next poll().
THEOREM ClosedForGood == Spec => NoRevival
<1>1. ASSUME IInv, [Next]_vars, NEW d \in Domain, conn[d].state \in Terminal,
             d \in open \/ pc # "connect"
      PROVE  conn'[d].state \in Terminal
  <2>1. TypeOK /\ Phases
    BY <1>1 DEF IInv
  <2>2. CASE conn'[d] = conn[d]
    BY <1>1, <2>2
  <2>3. CASE CreateConnection
    <3>1. domains[i] \in Domain
      <4>1. i \in DOMAIN domains /\ domains \in Seq(Domain)
        BY <2>1, <2>3, LenProperties DEF CreateConnection, TypeOK
      <4>2. QED
        BY <4>1, ElementOfSeq
    <3>2. d # domains[i]
      BY <1>1, <2>1, <2>3 DEF CreateConnection, Phases, Terminal, Working
    <3>3. conn'[d] = conn[d]
      BY <2>1, <2>3, <3>1, <3>2 DEF CreateConnection, TypeOK
    <3>4. QED
      BY <1>1, <3>3
  <2>4. CASE ServeResponse
    <3>0. PICK n : \E e \in Found(n) : ReadResponse(e)
      BY <2>4 DEF ServeResponse
    <3>1. PICK e \in Found(n) : ReadResponse(e)
      BY <3>0
    <3>2. e \in Domain /\ conn[e].state \in Working
      BY <2>1, <2>4, FoundIsOpen DEF ServeResponse
    <3>3. d # e
      BY <1>1, <3>2 DEF Terminal, Working
    <3>4. conn'[d] = conn[d]
      BY <2>1, <3>1, <3>2, <3>3 DEF ReadResponse, TypeOK
    <3>5. QED
      BY <1>1, <3>4
  <2>5. CASE ServeDisconnect
    <3>1. PICK e : conn' = [conn EXCEPT ![e].state = "INVALID"]
      BY <2>5 DEF ServeDisconnect
    <3>2. QED
      BY <1>1, <2>1, <3>1 DEF TypeOK, Conn, Terminal
  <2>6. CASE Sweep
    BY <1>1, <2>1, <2>6 DEF Sweep, TypeOK, Conn, Terminal
  <2>7. QED
    BY <1>1, <2>2, <2>3, <2>4, <2>5, <2>6
    DEF Next, vars, ClientStep, ConnInit, WaitForResponse, Finish, Environment, DomainAdd,
        DomainsCollected, CreateConnectionFails, ConnectionsCreated, PollTimesOut, PollFails,
        NothingFound, GarbageFound, Die, AllClosed, SettleMail, BatchFinished, Tick, Crash, SendReturns,
        ServerAnswers, ReplyCompletes, ServerDrops, clientVars
<1>2. IInv /\ [Next]_vars =>
        [\A d \in Domain :
           conn[d].state \in Terminal /\ (d \in open \/ pc # "connect") =>
             conn'[d].state \in Terminal]_vars
  BY <1>1
<1>3. QED
  BY Invariance, <1>2, PTL DEF Spec, NoRevival

-----------------------------------------------------------------------------
(* The scan of pfds *)

\* The open connections are finitely many.
LEMMA OpenFinite ==
  ASSUME TypeOK, OpenListed
  PROVE  IsFiniteSet(open) /\ Cardinality(open) \in Nat
<1>1. domains \in Seq(Domain) /\ DOMAIN domains = 1 .. Len(domains) /\ Len(domains) \in Nat
  BY LenProperties DEF TypeOK
<1>2. domains \in Surjection(DOMAIN domains, Listed)
  BY <1>1 DEF Surjection, Listed
<1>3. IsFiniteSet(DOMAIN domains)
  BY <1>1, FS_Interval
<1>4. IsFiniteSet(Listed)
  BY <1>2, <1>3, FS_Surjection
<1>5. QED
  BY <1>4, FS_Subset, FS_CardinalityType DEF OpenListed

\* Among the ready connections one comes first in the list.
LEMMA FirstReady ==
  ASSUME TypeOK, DomainsOK, OpenListed, Ready # {}
  PROVE  \E d \in Ready : \A e \in Ready : Before(e, d) => e = d
<1> DEFINE J == {j \in DOMAIN domains : domains[j] \in Ready}
<1>1. DOMAIN domains \in SUBSET Nat
  BY LenProperties DEF TypeOK
<1>2. J \in SUBSET Nat /\ J # {}
  BY <1>1 DEF Ready, OpenListed, Listed
<1>3. PICK j \in J : \A l \in J : j <= l
  BY <1>2, Least
<1>4. ASSUME NEW e \in Ready, Before(e, domains[j]) PROVE e = domains[j]
  <2>1. PICK p, q \in DOMAIN domains : p <= q /\ domains[p] = e /\ domains[q] = domains[j]
    BY <1>4 DEF Before
  <2>2. q = j /\ p \in J
    BY <1>3, <1>4, <2>1 DEF DomainsOK
  <2>3. p = j
    BY <1>1, <1>3, <2>1, <2>2
  <2>4. QED
    BY <2>1, <2>3
<1>5. QED
  BY <1>3, <1>4

\* While a connection is ready, the scan finds one before it is beyond the
\* open ones.
THEOREM ScanInside == Spec => []ScanStaysInside
<1>1. IInv => ScanStaysInside
  <2> SUFFICES ASSUME IInv, Ready # {}, NEW g \in Garbage,
                      Found(Cardinality(Ready) + g) = {}
               PROVE  Cardinality(Ready) + g < Cardinality(open)
    BY DEF ScanStaysInside
  <2> DEFINE res == Cardinality(Ready) + g
  <2>1. TypeOK /\ DomainsOK /\ OpenListed
    BY DEF IInv
  <2>2. IsFiniteSet(open) /\ Cardinality(open) \in Nat
    BY <2>1, OpenFinite
  <2>3. res \in Int
    <3>1. Cardinality(Ready) \in Nat
      BY <2>2, FS_Subset, FS_CardinalityType DEF Ready
    <3>2. g \in Int
      BY <2>1, <2>2 DEF Garbage, TypeOK
    <3>3. QED
      BY <3>1, <3>2
  <2>4. PICK d \in Ready : \A e \in Ready : Before(e, d) => e = d
    BY <2>1, FirstReady
  <2> HIDE DEF res
  <2>5. Slot(d) \in Nat /\ Slot(d) <= Cardinality(open)
    BY <2>2, FS_Subset, FS_CardinalityType DEF Slot
  <2>6. ~ (Slot(d) <= res)
    BY <2>4 DEF Found, res
  <2>7. res < Cardinality(open)
    BY <2>2, <2>3, <2>5, <2>6
  <2>8. QED
    BY <2>7 DEF res
<1>2. QED
  BY Invariance, <1>1, PTL

-----------------------------------------------------------------------------
(* The refinement of MailFate *)

\* What a domain has accepted, as mails: a mail is whole or not there.
LEMMA DeliveredIs ==
  ASSUME NEW d \in Domain, NEW m \in MailsFor(d)
  PROVE  m \in Delivered[d] <=> Full(m, d) \in acc[d]
BY DEF Delivered, AllFor, Full

\* ... of its own
LEMMA DeliveredFor ==
  Delivered = [d \in Domain |-> Delivered[d]]
  /\ \A d \in Domain : Delivered[d] \subseteq MailsFor(d)
BY DEF Delivered, AllFor, Full

\* The initial states of a batch are initial states of its fate.
LEMMA FateInit == Init => Fate!Init
BY DEF Init, Fate!Init, Delivered

\* An answer is the acceptance of one mail, when all the earlier ones have been
\* accepted; or none.
LEMMA AnswerIsFate ==
  ASSUME IInv, NEW d \in Domain, ServerAnswers(d)
  PROVE  UNCHANGED dir /\ (Delivered' = Delivered \/ \E m \in Mails : Fate!Accept(d, m))
<1> DEFINE c == Head(toServer[d])
<1>1. TypeOK /\ DomainInv(d) /\ toServer[d] # <<>> /\ UNCHANGED dir
  BY ByDomain DEF ServerAnswers, clientVars
<1>2. InOrder(c, d)
  BY <1>1 DEF DomainInv
<1> HIDE DEF c
<1>3. PICK taken \in BOOLEAN :
        acc' = [acc EXCEPT ![d] =
                  IF taken THEN acc[d] \cup MessagesAfter(c, env[d]) ELSE acc[d]]
  BY DEF ServerAnswers, c
<1>4. CASE taken /\ c.verb = "BODY"
  <2> DEFINE m == c.mail
  <2>1. /\ m \in MailsFor(d) /\ env[d] = [from |-> m, to |-> RcptsFrom(m, d)]
        /\ acc[d] = Earlier(m, d)
    BY <1>2, <1>4 DEF InOrder
  <2>2. m \in Mails /\ m \in Nat /\ MailsFor(d) \in SUBSET Nat
    BY <2>1, MailsForShape
  <2>3. MessagesAfter(c, env[d]) = {Full(m, d)}
    BY <1>4, <2>1 DEF MessagesAfter, Full
  <2> HIDE DEF m
  <2>4. acc' = [acc EXCEPT ![d] = acc[d] \cup {Full(m, d)}]
    BY <1>3, <1>4, <2>3
  <2>5. \A n \in MailsFor(d) : Full(n, d) \in acc[d] <=> n < m
    BY <2>1, <2>2 DEF Earlier, Full
  <2>6. m \in MailsFor(d) \ Delivered[d] /\ {n \in MailsFor(d) : n < m} \subseteq Delivered[d]
    BY <2>1, <2>2, <2>5, DeliveredIs
  <2>7. ASSUME NEW e \in Domain, e # d PROVE Delivered'[e] = Delivered[e]
    BY <1>1, <2>4, <2>7 DEF Delivered, TypeOK
  <2>8. Delivered'[d] = Delivered[d] \cup {m}
    <3>1. acc'[d] = acc[d] \cup {Full(m, d)}
      BY <1>1, <2>4 DEF TypeOK
    <3>2. Delivered'[d] = {msg.body : msg \in (acc[d] \cup {Full(m, d)}) \cap AllFor(d)}
      BY <3>1 DEF Delivered, AllFor
    <3>3. Full(m, d) \in AllFor(d) /\ Full(m, d).body = m
      BY <2>1 DEF AllFor, Full
    <3>4. Delivered[d] = {msg.body : msg \in acc[d] \cap AllFor(d)}
      BY DEF Delivered
    <3>5. QED
      BY <3>2, <3>3, <3>4
  <2>9. Delivered' = [e \in Domain |-> Delivered'[e]]
    BY DEF Delivered
  <2>10. Delivered' = [Delivered EXCEPT ![d] = Delivered[d] \cup {m}]
    BY <2>7, <2>8, <2>9, DeliveredFor
  <2>11. Fate!Accept(d, m)
    BY <1>1, <2>6, <2>10 DEF Fate!Accept
  <2>12. QED
    BY <1>1, <2>2, <2>11
<1>5. CASE ~taken \/ c.verb # "BODY"
  <2>1. acc' = acc
    BY <1>1, <1>3, <1>5 DEF MessagesAfter, TypeOK
  <2>2. QED
    BY <1>1, <2>1 DEF Delivered, AllFor
<1>6. QED
  BY <1>4, <1>5

\* A mail that is settled leaves NEW the one way or the other, or stays.
LEMMA SettleIsFate ==
  ASSUME IInv, SettleMail
  PROVE  Delivered' = Delivered /\ (UNCHANGED dir \/ Fate!Delete(i) \/ Fate!SetAside(i))
<1>1. TypeOK /\ UntilSettled /\ SentMeansAccepted /\ i \in Mails /\ pc = "settle"
  BY DEF IInv, SettleMail
<1>2. Delivered' = Delivered
  BY DEF SettleMail, serverVars, Delivered, AllFor
<1>3. dir[i] = "new"
  BY <1>1, BatchShape DEF UntilSettled, TypeOK
<1>4. PICK to \in {SettledIn(i), "new"} : dir' = [dir EXCEPT ![i] = to]
  BY DEF SettleMail
<1>5. CASE to = "new"
  BY <1>1, <1>2, <1>3, <1>4, <1>5 DEF TypeOK
<1>6. CASE to = SettledIn(i) /\ sent[i]
  <2>1. \E d \in Domain : Full(i, d) \in acc[d]
    BY <1>1, <1>6 DEF SentMeansAccepted
  <2>2. PICK d \in Domain : Full(i, d) \in acc[d]
    BY <2>1
  <2>3. acc[d] \subseteq AllFor(d)
    BY DEF IInv, MessagesWhole
  <2>4. i \in MailsFor(d)
    BY <2>2, <2>3 DEF AllFor, Full
  <2>5. i \in Delivered[d]
    BY <2>2, <2>4, DeliveredIs
  <2>6. Fate!Delete(i)
    BY <1>2, <1>3, <1>4, <1>6, <2>5 DEF Fate!Delete, SettledIn
  <2>7. QED
    BY <1>2, <2>6
<1>7. CASE to = SettledIn(i) /\ ~sent[i]
  BY <1>2, <1>3, <1>4, <1>7 DEF Fate!SetAside, SettledIn
<1>8. QED
  BY <1>4, <1>5, <1>6, <1>7

\* ConnLoop implements MailFate: sessions, timeouts, drops and crashes come down
\* to acceptances in the order of the batch and files that leave NEW.
THEOREM ImplementsFate == Spec => FateSpec
<1>1. Init => Fate!Init
  BY FateInit
<1>2. IInv /\ [Next]_vars => [Fate!Next]_(Fate!vars)
  <2> SUFFICES ASSUME IInv, [Next]_vars PROVE [Fate!Next]_(Fate!vars)
    OBVIOUS
  <2>1. CASE UNCHANGED <<acc, dir>>
    BY <2>1 DEF Fate!vars, Delivered, AllFor
  <2>2. CASE SettleMail
    <3>1. i \in Mails
      BY <2>2 DEF SettleMail
    <3>2. QED
      BY <2>2, <3>1, SettleIsFate DEF Fate!Next, Fate!vars
  <2>3. ASSUME NEW d \in Domain, ServerAnswers(d)
        PROVE  [Fate!Next]_(Fate!vars)
    BY <2>3, AnswerIsFate DEF Fate!Next, Fate!vars
  <2>4. QED
    BY <2>1, <2>2, <2>3
    DEF Next, vars, ClientStep, ConnInit, WaitForResponse, Finish, Environment, DomainAdd,
        DomainsCollected, CreateConnection, CreateConnectionFails, ConnectionsCreated,
        PollTimesOut, PollFails, ServeResponse, ServeDisconnect, NothingFound, GarbageFound,
        Die, Sweep, AllClosed, BatchFinished, Tick, Crash, SendReturns, ReplyCompletes,
        ServerDrops, clientVars, serverVars
<1>3. QED
  BY Invariance, <1>1, <1>2, PTL DEF Spec, FateSpec, Fate!Spec
=============================================================================
