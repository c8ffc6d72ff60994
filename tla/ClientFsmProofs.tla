--------------------------- MODULE ClientFsmProofs ---------------------------
(***************************************************************************)
(* What the walks over the lists find, and what a step of the machine      *)
(* makes of a connection.                                                  *)
(***************************************************************************)
EXTENDS ClientFsm, WellFoundedInduction, SequenceTheorems, TLAPS

LessThan == {p \in Nat \X Nat : p[1] < p[2]}

\* The order of the naturals is well-founded.
LEMMA LessThanWellFounded == IsWellFoundedOn(LessThan, Nat)
<1>1. OpToRel(<, Nat) = LessThan
  BY Zenon DEF OpToRel, LessThan
<1>2. QED
  BY NatLessThanWellFounded, <1>1, Zenon

\* A set of naturals has a least element.
LEMMA Least ==
  ASSUME NEW S \in SUBSET Nat, S # {}
  PROVE  \E x \in S : \A y \in S : x <= y
<1>1. PICK x \in S : \A y \in S : ~ (<<y, x>> \in LessThan)
  BY LessThanWellFounded, WFMin, Zenon
<1>2. ASSUME NEW y \in S PROVE x <= y
  <2>1. <<y, x>> \in Nat \X Nat
    OBVIOUS
  <2>2. ~ (y < x)
    BY <1>1, <2>1 DEF LessThan
  <2>3. QED
    BY <2>2
<1>3. QED
  BY <1>2

\* The walk over a list stops at the first element of S from lo on, or at
\* the end when there is none.
LEMMA SeekFinds ==
  ASSUME NEW S \in SUBSET Nat, NEW lo \in Nat, NEW null
  PROVE  \/ /\ Seek(S, lo, null) \in S
            /\ lo <= Seek(S, lo, null)
            /\ \A j \in S : lo <= j => Seek(S, lo, null) <= j
         \/ /\ Seek(S, lo, null) = null
            /\ \A j \in S : j < lo
<1>1. CASE \E n \in S : lo <= n
  <2>1. PICK x \in {n \in S : lo <= n} : \A y \in {n \in S : lo <= n} : x <= y
    BY <1>1, Least
  <2>2. \E n \in S : lo <= n /\ \A j \in S : lo <= j => n <= j
    BY <2>1
  <2>3. QED
    BY <1>1, <2>2 DEF Seek
<1>2. CASE ~ \E n \in S : lo <= n
  BY <1>2 DEF Seek
<1>3. QED
  BY <1>1, <1>2

-----------------------------------------------------------------------------
(* The batch *)

\* The mails of a batch are numbered from 1 and so are their recipients.
LEMMA BatchShape ==
  /\ Len(Batch) \in Nat /\ Mails = 1 .. Len(Batch) /\ NullMail = Len(Batch) + 1
  /\ \A m \in Mails : /\ Batch[m] \in Seq(Domain)
                      /\ Len(Batch[m]) \in Nat \ {0}
                      /\ DOMAIN Batch[m] = 1 .. Len(Batch[m])
                      /\ NullRcpt(m) = Len(Batch[m]) + 1
<1>1. Batch \in Seq(Seq(Domain))
  BY BatchAssumption
<1>2. Len(Batch) \in Nat /\ DOMAIN Batch = 1 .. Len(Batch)
  BY <1>1, LenProperties
<1>3. ASSUME NEW m \in Mails PROVE Batch[m] \in Seq(Domain) /\ Batch[m] # <<>>
  BY <1>1, <1>2, BatchAssumption, ElementOfSeq DEF Mails
<1>4. ASSUME NEW m \in Mails
      PROVE  Len(Batch[m]) \in Nat \ {0} /\ DOMAIN Batch[m] = 1 .. Len(Batch[m])
  BY <1>3, LenProperties, EmptySeq
<1>5. QED
  BY <1>2, <1>3, <1>4 DEF Mails, NullMail, NullRcpt

\* The mails for a domain are mails of the batch.
LEMMA MailsForShape ==
  ASSUME NEW d
  PROVE  MailsFor(d) \subseteq Mails /\ MailsFor(d) \in SUBSET Nat /\ NullMail \notin MailsFor(d)
BY BatchShape DEF MailsFor

\* The recipients in a domain are recipients of the mail: each comes before NULL.
LEMMA RcptsFromShape ==
  ASSUME NEW m \in Mails, NEW d
  PROVE  /\ RcptsFrom(m, d) \subseteq 1 .. Len(Batch[m])
         /\ RcptsFrom(m, d) \in SUBSET Nat
         /\ NullRcpt(m) \notin RcptsFrom(m, d) /\ NullRcpt(m) \in Nat
         /\ \A j \in RcptsFrom(m, d) : j < NullRcpt(m)
BY BatchShape DEF RcptsFrom

\* conn->m moves to the next mail with a recipient in d, or to NULL.
LEMMA SeekMailFinds ==
  ASSUME NEW d, NEW lo \in Nat
  PROVE  \/ /\ SeekMail(lo, d) \in MailsFor(d) /\ lo <= SeekMail(lo, d)
            /\ \A n \in MailsFor(d) : lo <= n => SeekMail(lo, d) <= n
            /\ SeekMail(lo, d) # NullMail
         \/ SeekMail(lo, d) = NullMail /\ \A n \in MailsFor(d) : n < lo
BY SeekFinds, MailsForShape DEF SeekMail

\* conn->r moves to the next recipient in d, or to NULL.
LEMMA SeekRcptFinds ==
  ASSUME NEW m \in Mails, NEW d, NEW lo \in Nat
  PROVE  \/ /\ SeekRcpt(m, lo, d) \in RcptsFrom(m, d) /\ lo <= SeekRcpt(m, lo, d)
            /\ \A n \in RcptsFrom(m, d) : lo <= n => SeekRcpt(m, lo, d) <= n
            /\ SeekRcpt(m, lo, d) # NullRcpt(m)
         \/ SeekRcpt(m, lo, d) = NullRcpt(m) /\ \A n \in RcptsFrom(m, d) : n < lo
<1>1. RcptsFrom(m, d) \in SUBSET Nat /\ NullRcpt(m) \notin RcptsFrom(m, d)
  BY RcptsFromShape
<1>2. QED
  BY <1>1, SeekFinds DEF SeekRcpt

-----------------------------------------------------------------------------
(* The machine *)

Commands == [verb : Verb, mail : Nat, rcpt : Nat]
Connection == [state : FsmState, m : 1 .. NullMail, r : Nat]

\* Whether the cursor m of a working connection is at a mail for d: it is
\* until the last mail is through.
AtMail(c, d) == c.state \in Working \ {"QUIT"} => c.m \in MailsFor(d)

\* Command makes commands.
LEMMA CommandType ==
  ASSUME NEW verb \in Verb, NEW m \in Nat, NEW n \in Nat
  PROVE  Command(verb, m, n) \in Commands
BY DEF Command, Commands

\* Outcome makes outcomes, from a connection and what it sends.
LEMMA OutcomeType ==
  ASSUME NEW st \in FsmState, NEW m \in 1 .. NullMail, NEW r \in Nat,
         NEW send \in Seq(Commands), NEW mark, NEW d,
         st \in Working \ {"QUIT"} => m \in MailsFor(d)
  PROVE  /\ Outcome(st, m, r, send, mark).conn \in Connection
         /\ AtMail(Outcome(st, m, r, send, mark).conn, d)
         /\ Outcome(st, m, r, send, mark).send \in Seq(Commands)
BY DEF Outcome, Connection, AtMail

\* A step keeps the connection in its type and the cursor at a mail for the
\* domain, and sends commands.
LEMMA FsmStepType ==
  ASSUME NEW c \in Connection, NEW d, NEW ev \in ReplyCode,
         c.state \in Working, AtMail(c, d)
  PROVE  /\ FsmStep(c, d, ev).conn \in Connection
         /\ AtMail(FsmStep(c, d, ev).conn, d)
         /\ FsmStep(c, d, ev).send \in Seq(Commands)
<1> DEFINE out == FsmStep(c, d, ev)
<1>1. c.m \in Nat /\ c.r \in Nat /\ c.m \in 1 .. NullMail /\ NullMail \in Nat
  BY BatchShape DEF Connection
<1>2. CASE c.state \in {"MAILFROM", "RCPTTO"} /\ ev = "R250"
  <2>1. c.m \in Mails
    BY <1>2, MailsForShape DEF AtMail, Working
  <2>2. SeekRcpt(c.m, c.r, d) \in Nat /\ NullRcpt(c.m) \in Nat
    BY <1>1, <2>1, SeekRcptFinds, RcptsFromShape
  <2>3. Command("RCPT", c.m, SeekRcpt(c.m, c.r, d)) \in Commands
        /\ Command("DATA", 0, 0) \in Commands
    BY <1>1, <2>2, CommandType DEF Verb
  <2>4. out \in {NamesRcpt(c, d),
                 Outcome("RCPTTO", c.m, NullRcpt(c.m), <<>>, {}),
                 Outcome("DATA", c.m, NullRcpt(c.m), <<Command("DATA", 0, 0)>>, {})}
    BY <1>2 DEF FsmStep, MailfromR250, RcpttoR250, NextState, Terminal
  <2>5. c.m \in MailsFor(d) /\ "RCPTTO" \in FsmState /\ "DATA" \in FsmState
    BY <1>2 DEF AtMail, FsmState, Working
  <2>6. CASE out = NamesRcpt(c, d)
    <3> DEFINE n == SeekRcpt(c.m, c.r, d)
    <3>1. n + 1 \in Nat /\ <<Command("RCPT", c.m, n)>> \in Seq(Commands)
      BY <2>2, <2>3
    <3>2. out = Outcome("RCPTTO", c.m, n + 1, <<Command("RCPT", c.m, n)>>, {})
      BY <2>6 DEF NamesRcpt
    <3>3. QED
      BY <1>1, <2>5, <3>1, <3>2, OutcomeType, Zenon
  <2>7. CASE out = Outcome("RCPTTO", c.m, NullRcpt(c.m), <<>>, {})
    <3>1. <<>> \in Seq(Commands)
      OBVIOUS
    <3>2. QED
      BY <1>1, <2>2, <2>5, <2>7, <3>1, OutcomeType, Zenon
  <2>8. CASE out = Outcome("DATA", c.m, NullRcpt(c.m), <<Command("DATA", 0, 0)>>, {})
    <3>1. <<Command("DATA", 0, 0)>> \in Seq(Commands)
      BY <2>3
    <3>2. QED
      BY <1>1, <2>2, <2>5, <2>8, <3>1, OutcomeType, Zenon
  <2>9. QED
    BY <2>4, <2>6, <2>7, <2>8
<1>3. CASE c.state = "DATASTR" /\ ev = "R250"
  <2>1. SeekMail(c.m + 1, d) \in MailsFor(d) \cup {NullMail}
    BY <1>1, SeekMailFinds
  <2>2. SeekMail(c.m + 1, d) \in 1 .. NullMail /\ SeekMail(c.m + 1, d) \in Nat
    BY <2>1, MailsForShape, BatchShape
  <2>3. Command("MAIL", SeekMail(c.m + 1, d), 0) \in Commands
        /\ Command("QUIT", 0, 0) \in Commands
    BY <2>2, CommandType DEF Verb
  <2>4. out = DatastrR250(c, d)
    BY <1>3 DEF FsmStep, Terminal
  <2>5. CASE SeekMail(c.m + 1, d) # NullMail
    BY <1>1, <2>1, <2>2, <2>3, <2>4, <2>5
    DEF DatastrR250, NextMail, BeginsMail, Outcome, Connection, AtMail, FsmState, Working
  <2>6. CASE SeekMail(c.m + 1, d) = NullMail
    BY <1>1, <2>2, <2>3, <2>4, <2>6
    DEF DatastrR250, NextMail, BeginsMail, NextState, Outcome, Connection, AtMail, FsmState, Working
  <2>7. QED
    BY <2>5, <2>6
<1>4. CASE \/ c.state = "INIT" /\ ev = "R220"
           \/ c.state = "HELO" /\ ev = "R250"
           \/ c.state = "DATA" /\ ev = "R354"
  <2>1. \E verb \in Verb, m \in Nat : out = Reply(c, ev, verb, m)
    BY <1>1, <1>4 DEF FsmStep, Terminal, Verb
  <2>2. NextState(c.state, ev) \in Working \ {"QUIT"}
    BY <1>4 DEF NextState, Working
  <2>3. QED
    BY <1>1, <1>4, <2>1, <2>2, CommandType
    DEF Reply, Outcome, Connection, AtMail, FsmState, Working
<1>5. CASE ~ \/ c.state \in {"MAILFROM", "RCPTTO", "DATASTR", "HELO"} /\ ev = "R250"
             \/ c.state = "INIT" /\ ev = "R220"
             \/ c.state = "DATA" /\ ev = "R354"
  <2>1. out = Outcome(NextState(c.state, ev), c.m, c.r, <<>>, {})
    BY <1>5 DEF FsmStep, Working, Terminal
  <2>2. NextState(c.state, ev) \in Terminal
    BY <1>5 DEF NextState, Working, Terminal, ReplyCode
  <2>3. QED
    BY <1>1, <2>1, <2>2 DEF Outcome, Connection, AtMail, FsmState, Working, Terminal
<1>6. QED
  BY <1>2, <1>3, <1>4, <1>5
=============================================================================
