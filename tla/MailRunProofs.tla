---------------------------- MODULE MailRunProofs ----------------------------
(* What MailRun keeps, for any files, domains and number of failures. *)
EXTENDS MailRun, TLAPS

USE FileAssumption, BoundAssumption

-----------------------------------------------------------------------------
(* Types, and where the files are *)

\* The invariant holds when the program is first started.
LEMMA InitIInv == Init => IInv
<1> SUFFICES ASSUME Init PROVE IInv OBVIOUS
<1> USE DEF Init
<1>1. TypeOK
  <2>1. leaked \in 0 .. MaxDescriptors BY SMT
  <2>2. copies \in [Pair -> Nat] BY SMT
  <2>3. where \in [File -> SUBSET (Dir \cup {"outside"})] BY DEF Dir
  <2>4. failures \in 0 .. MaxFailures BY SMT
  <2> QED BY <2>1, <2>2, <2>3, <2>4 DEF TypeOK
<1>2. Phases /\ Outside /\ SentAccepted /\ TakenAccepted
  BY DEF Phases, Outside, SentAccepted, TakenAccepted
<1>3. NoMailVanishes BY DEF NoMailVanishes
<1>4. CopiesPaid
  BY DEF CopiesPaid, Weight, Num, Again, InBatch, Pair
<1>5. LocalFirst /\ LocalMailKept
  BY DEF LocalFirst, LocalMailKept, Arrived
<1> QED BY <1>1, <1>2, <1>3, <1>4, <1>5 DEF IInv

\* Giving up keeps the types.
LEMMA GiveUpType ==
  ASSUME TypeOK, GiveUp
  PROVE  pending' = {} /\ flight' \in [Pair -> Nat]
BY DEF GiveUp, Num, TypeOK

\* No step of the loop or of its environment leaves the types.
LEMMA TypeStep ==
  ASSUME TypeOK, Phases, [Next]_vars
  PROVE  TypeOK'
<1> USE DEF TypeOK, Dir, listVars, transferVars
<1>1. CASE Stop BY <1>1 DEF Stop
<1>2. CASE NoNewMail BY <1>2 DEF NoNewMail
<1>3. CASE WakeUp BY <1>3 DEF WakeUp
<1>4. CASE NewMailFound BY <1>4 DEF NewMailFound
<1>5. CASE OpenNew BY <1>5 DEF OpenNew, InNew
<1>6. CASE OpenNewFails BY <1>6 DEF OpenNewFails, Fails
<1>7. CASE NothingRead BY <1>7 DEF NothingRead, Phases, Openable
<1>8. CASE AllRead BY <1>8 DEF AllRead
<1>9. ASSUME NEW f \in File, ReadMail(f) PROVE TypeOK'
  BY <1>9 DEF ReadMail, Found, InNew
<1>10. ASSUME NEW f \in File, RefuseMail(f) PROVE TypeOK'
  BY <1>10 DEF RefuseMail, Found, InNew, Move, Fails
<1>11. ASSUME NEW f \in File, OpenMailFails(f) PROVE TypeOK'
  BY <1>11 DEF OpenMailFails, Found, InNew, Fails
<1>12. CASE Filtered BY <1>12 DEF Filtered, Pair
<1>13. ASSUME NEW f \in File, LocalOnly(f) PROVE TypeOK'
  BY <1>13 DEF LocalOnly, FilterMail, Move, Fails, Phases
<1>14. ASSUME NEW f \in File, LocalToo(f) PROVE TypeOK'
  BY <1>14 DEF LocalToo, FilterMail, Copy, Fails
<1>15. ASSUME NEW f \in File, RemoteOnly(f) PROVE TypeOK'
  BY <1>15 DEF RemoteOnly, FilterMail
<1>16. CASE TransferEnds BY <1>16, GiveUpType DEF TransferEnds
<1>17. ASSUME NEW f \in File, SettleMail(f) PROVE TypeOK'
  BY <1>17 DEF SettleMail, Settle, Move, Delete, Fails
<1>18. CASE BatchOver BY <1>18 DEF BatchOver
<1>19. CASE PressQ BY <1>19 DEF PressQ
<1>20. CASE Crash 
  <2>1. failures' \in 0 .. MaxFailures /\ leaked' \in 0 .. MaxDescriptors
    BY <1>20 DEF Crash, Fails
  <2> QED BY <1>20, <2>1, GiveUpType, Zenon DEF Crash
<1>21. CASE Restart BY <1>21 DEF Restart
<1>22. ASSUME NEW f \in File, Deliver(f) PROVE TypeOK'
  BY <1>22 DEF Deliver
<1>23. ASSUME NEW p \in Pair, Accept(p) PROVE TypeOK'
  BY <1>23 DEF Accept, Phases
<1>24. ASSUME NEW p \in Pair, AcceptLate(p) PROVE TypeOK'
  BY <1>24 DEF AcceptLate
<1>25. ASSUME NEW f \in File, LearnSent(f) PROVE TypeOK'
  BY <1>25 DEF LearnSent
<1>26. CASE UNCHANGED vars BY <1>26 DEF vars
<1> QED
  BY <1>1, <1>2, <1>3, <1>4, <1>5, <1>6, <1>7, <1>8, <1>9, <1>10, <1>11, <1>12,
     <1>13, <1>14, <1>15, <1>16, <1>17, <1>18, <1>19, <1>20, <1>21, <1>22, <1>23,
     <1>24, <1>25, <1>26
  DEF Next, SmtpClientLoop, Environment, ReadAllMail, FilterMyMail, EndOfBatch

\* No step disturbs what the place in the code says of the lists.
LEMMA PhasesStep ==
  ASSUME TypeOK, Phases, Outside, [Next]_vars
  PROVE  Phases' /\ Outside'
<1> DEFINE P == Phases' /\ Outside'
<1> USE DEF TypeOK, Phases, Outside, Dir, Openable, InNew, listVars, transferVars
<1>1. CASE Stop BY <1>1 DEF Stop
<1>2. CASE NoNewMail BY <1>2 DEF NoNewMail
<1>3. CASE WakeUp BY <1>3 DEF WakeUp
<1>4. CASE NewMailFound BY <1>4 DEF NewMailFound, NewMailExist
<1>5. CASE OpenNew BY <1>5 DEF OpenNew
<1>6. CASE OpenNewFails BY <1>6 DEF OpenNewFails, Fails
<1>7. CASE NothingRead BY <1>7 DEF NothingRead
<1>8. CASE AllRead BY <1>8 DEF AllRead
<1>9. ASSUME NEW f \in File, ReadMail(f) PROVE P
  BY <1>9 DEF ReadMail, Found
<1>10. ASSUME NEW f \in File, RefuseMail(f) PROVE P
  BY <1>10 DEF RefuseMail, Found, Move, Fails
<1>11. ASSUME NEW f \in File, OpenMailFails(f) PROVE P
  BY <1>11 DEF OpenMailFails, Found, Fails
<1>12. CASE Filtered BY <1>12 DEF Filtered, Pair
<1>13. ASSUME NEW f \in File, LocalOnly(f) PROVE P
  BY <1>13 DEF LocalOnly, FilterMail, Move, Fails
<1>14. ASSUME NEW f \in File, LocalToo(f) PROVE P
  BY <1>14 DEF LocalToo, FilterMail, Copy, Fails
<1>15. ASSUME NEW f \in File, RemoteOnly(f) PROVE P
  BY <1>15 DEF RemoteOnly, FilterMail
<1>16. CASE TransferEnds BY <1>16 DEF TransferEnds, GiveUp
<1>17. ASSUME NEW f \in File, SettleMail(f) PROVE P
  BY <1>17 DEF SettleMail, Settle, Move, Delete, Fails
<1>18. CASE BatchOver BY <1>18 DEF BatchOver
<1>19. CASE PressQ BY <1>19 DEF PressQ
<1>20. CASE Crash BY <1>20 DEF Crash, GiveUp
<1>21. CASE Restart BY <1>21 DEF Restart
<1>22. ASSUME NEW f \in File, Deliver(f) PROVE P
  BY <1>22 DEF Deliver
<1>23. ASSUME NEW p \in Pair, Accept(p) PROVE P
  BY <1>23 DEF Accept
<1>24. ASSUME NEW p \in Pair, AcceptLate(p) PROVE P
  BY <1>24 DEF AcceptLate
<1>25. ASSUME NEW f \in File, LearnSent(f) PROVE P
  BY <1>25 DEF LearnSent
<1>26. CASE UNCHANGED vars BY <1>26 DEF vars
<1> QED
  BY <1>1, <1>2, <1>3, <1>4, <1>5, <1>6, <1>7, <1>8, <1>9, <1>10, <1>11, <1>12,
     <1>13, <1>14, <1>15, <1>16, <1>17, <1>18, <1>19, <1>20, <1>21, <1>22, <1>23,
     <1>24, <1>25, <1>26
  DEF Next, SmtpClientLoop, Environment, ReadAllMail, FilterMyMail, EndOfBatch

-----------------------------------------------------------------------------
(* No mail vanishes *)

\* A mail and the domain of a recipient elsewhere are among the pairs counted.
LEMMA RemotePair ==
  ASSUME NEW f \in File, NEW d \in Remote(f)
  PROVE  <<f, d>> \in Pair
BY DEF Remote, Pair

\* Where a file no longer is in any directory, a server has it: the acceptance
\* came before the deletion, and the copies are never fewer.
LEMMA SafeStep ==
  ASSUME TypeOK, Phases, Outside, SentAccepted, TakenAccepted, NoMailVanishes, [Next]_vars
  PROVE  SentAccepted' /\ NoMailVanishes'
<1> DEFINE P == SentAccepted' /\ NoMailVanishes'
<1> USE DEF SentAccepted, NoMailVanishes, Remote
<1>1. ASSUME UNCHANGED <<sent, copies>>,
             \A f \in File : where'[f] = {} => where[f] = {}
      PROVE  P
  BY <1>1 DEF TypeOK
<1>2. ASSUME UNCHANGED <<where, sent, copies>>
      PROVE  P
  BY <1>2
<1>3. ASSUME NEW f \in File, NEW to \in Dir, Move(f, to), UNCHANGED <<sent, copies>>
      PROVE  P
  <2>1. \A g \in File : where'[g] = {} => where[g] = {}
    BY <1>3 DEF Move, Fails, TypeOK
  <2> QED BY <1>1, <1>3, <2>1
<1>4. CASE Stop \/ NoNewMail \/ WakeUp \/ NewMailFound
  BY <1>2, <1>4 DEF Stop, NoNewMail, WakeUp, NewMailFound, transferVars
<1>5. CASE OpenNew \/ OpenNewFails \/ NothingRead \/ AllRead
  BY <1>2, <1>5 DEF OpenNew, OpenNewFails, NothingRead, AllRead, transferVars
<1>6. ASSUME NEW f \in File, ReadMail(f) \/ OpenMailFails(f) PROVE P
  BY <1>2, <1>6 DEF ReadMail, OpenMailFails, Found, transferVars
<1>7. ASSUME NEW f \in File, RefuseMail(f) PROVE P
  BY <1>3, <1>7 DEF RefuseMail, Found, transferVars, Dir
<1>8. CASE Filtered \/ TransferEnds
  BY <1>2, <1>8 DEF Filtered, TransferEnds
<1>9. ASSUME NEW f \in File, LocalOnly(f) PROVE P
  BY <1>3, <1>9 DEF LocalOnly, FilterMail, transferVars, Dir
<1>10. ASSUME NEW f \in File, LocalToo(f) PROVE P
  <2>1. UNCHANGED <<sent, copies>>
    BY <1>10 DEF LocalToo, FilterMail, transferVars
  <2>2. \A g \in File : where'[g] = {} => where[g] = {}
    BY <1>10 DEF LocalToo, Copy, Fails, TypeOK
  <2> QED BY <1>1, <2>1, <2>2
<1>11. ASSUME NEW f \in File, RemoteOnly(f) PROVE P
  BY <1>2, <1>11 DEF RemoteOnly, FilterMail, transferVars
<1>12. ASSUME NEW f \in File, SettleMail(f) PROVE P
  <2>1. UNCHANGED <<sent, copies>>
    BY <1>12 DEF SettleMail, transferVars
  <2>2. CASE f \in sent
    BY <1>12, <2>1, <2>2 DEF SettleMail, Settle, Delete, Fails, TypeOK
  <2>3. CASE f \notin sent
    BY <1>3, <1>12, <2>1, <2>3 DEF SettleMail, Settle, Dir
  <2> QED BY <2>2, <2>3
<1>13. CASE BatchOver BY <1>13 DEF BatchOver
<1>14. CASE PressQ \/ Restart
  BY <1>2, <1>14 DEF PressQ, Restart, transferVars
<1>15. CASE Crash BY <1>15 DEF Crash
<1>16. ASSUME NEW f \in File, Deliver(f) PROVE P
  BY <1>1, <1>16 DEF Deliver, TypeOK, transferVars
<1>17. ASSUME NEW p \in Pair, Accept(p) PROVE P
  <2>1. \A q \in Pair : copies'[q] >= copies[q]
    BY <1>17 DEF Accept, TypeOK
  <2>2. UNCHANGED <<where, sent>> /\ sent \subseteq File
    BY <1>17 DEF Accept, TypeOK
  <2>3. \A f \in File : \A d \in Remote(f) : copies[<<f, d>>] > 0 => copies'[<<f, d>>] > 0
    <3> TAKE f \in File
    <3> TAKE d \in Remote(f)
    <3>1. <<f, d>> \in Pair BY RemotePair
    <3> QED BY <1>17, <2>1, <3>1 DEF Accept, TypeOK
  <2> QED BY <2>2, <2>3
<1>18. ASSUME NEW p \in Pair, AcceptLate(p) PROVE P
  <2>1. \A f \in File : \A d \in Remote(f) : copies[<<f, d>>] > 0 => copies'[<<f, d>>] > 0
    BY <1>18, RemotePair DEF AcceptLate, TypeOK
  <2> QED BY <1>18, <2>1 DEF AcceptLate, TypeOK
<1>19. CASE UNCHANGED vars BY <1>2, <1>19 DEF vars, transferVars
<1>20. ASSUME NEW f \in File, LearnSent(f) PROVE P
  <2>1. \E d \in Remote(f) : copies[<<f, d>>] > 0
    BY <1>20 DEF LearnSent, TakenAccepted
  <2> QED BY <1>20, <2>1 DEF LearnSent
<1> QED
  BY <1>4, <1>5, <1>6, <1>7, <1>8, <1>9, <1>10, <1>11, <1>12, <1>13, <1>14, <1>15,
     <1>16, <1>17, <1>18, <1>19, <1>20
  DEF Next, SmtpClientLoop, Environment, ReadAllMail, FilterMyMail, EndOfBatch

\* What has been transferred in this batch stays accepted.
LEMMA TakenStep ==
  ASSUME TypeOK, Phases, TakenAccepted, [Next]_vars
  PROVE  TakenAccepted'
<1> USE DEF TakenAccepted
<1>1. ASSUME UNCHANGED <<pc, batch, pending, copies>> PROVE TakenAccepted'
  BY <1>1 DEF Remote
<1>2. ASSUME NEW p \in Pair, Accept(p) PROVE TakenAccepted'
  <2> SUFFICES ASSUME NEW f \in batch, NEW d \in Remote(f), <<f, d>> \notin pending'
               PROVE  copies'[<<f, d>>] > 0
    BY <1>2 DEF Accept, Remote, listVars
  <2>1. f \in File /\ <<f, d>> \in Pair
    BY RemotePair DEF TypeOK
  <2>2. CASE p = <<f, d>>
    BY <1>2, <2>1, <2>2 DEF Accept, TypeOK
  <2>3. CASE p # <<f, d>>
    BY <1>2, <2>1, <2>3 DEF Accept, TypeOK
  <2> QED BY <2>2, <2>3
<1>3. ASSUME NEW p \in Pair, AcceptLate(p) PROVE TakenAccepted'
  <2> SUFFICES ASSUME pc = "transfer", NEW f \in batch, NEW d \in Remote(f),
                      <<f, d>> \notin pending
               PROVE  copies'[<<f, d>>] > 0
    BY <1>3 DEF AcceptLate, Remote, listVars
  <2>1. f \in File /\ <<f, d>> \in Pair
    BY RemotePair DEF TypeOK
  <2> QED BY <1>3, <2>1 DEF AcceptLate, TypeOK
<1>4. CASE Filtered
  <2> SUFFICES ASSUME NEW f \in batch, NEW d \in Remote(f) PROVE <<f, d>> \in pending'
    BY <1>4 DEF Filtered, Remote, listVars
  <2>1. f \in File /\ <<f, d>> \in Pair
    BY RemotePair DEF TypeOK
  <2> QED BY <1>4, <2>1 DEF Filtered
<1>5. ASSUME pc' # "transfer" PROVE TakenAccepted'
  BY <1>5
<1>6. CASE SmtpClientLoop
  <2>1. pc' # "transfer" \/ Filtered
    BY <1>6 DEF SmtpClientLoop, ReadAllMail, FilterMyMail, EndOfBatch, Stop, NoNewMail, WakeUp,
       NewMailFound, OpenNew, OpenNewFails, NothingRead, AllRead, ReadMail, RefuseMail,
       OpenMailFails, Found, LocalOnly, LocalToo, RemoteOnly, FilterMail, TransferEnds,
       BatchOver, SettleMail
  <2> QED BY <1>4, <1>5, <2>1
<1>7. ASSUME NEW f \in File, Deliver(f) \/ LearnSent(f) PROVE TakenAccepted'
  BY <1>1, <1>7 DEF Deliver, LearnSent, listVars, transferVars
<1>8. CASE PressQ BY <1>1, <1>8 DEF PressQ, listVars, transferVars
<1>9. CASE Crash \/ Restart BY <1>5, <1>9 DEF Crash, Restart
<1>10. CASE UNCHANGED vars BY <1>1, <1>10 DEF vars, listVars, transferVars
<1> QED BY <1>2, <1>3, <1>6, <1>7, <1>8, <1>9, <1>10 DEF Next, Environment

-----------------------------------------------------------------------------
(* Copies cost failures *)

\* A step that transfers nothing pays for each mail that may come again.
LEMMA Unpaid ==
  ASSUME TypeOK, TypeOK', CopiesPaid, UNCHANGED <<copies, pending, flight>>,
         \A f \in File : Again(f)' => Again(f) \/ failures' = failures + 1,
         failures' >= failures
  PROVE  CopiesPaid'
<1> SUFFICES ASSUME NEW p \in Pair PROVE Weight(p)' <= 1 + failures'
  BY DEF CopiesPaid, Pair
<1>1. p[1] \in File BY DEF Pair
<1>2. Num(Again(p[1])) \in {0, 1} /\ Num(Again(p[1]))' \in {0, 1} BY DEF Num
<1>3. Num(Again(p[1]))' <= Num(Again(p[1])) \/ failures' = failures + 1
  BY <1>1 DEF Num
<1>4. Num(p \in pending)' = Num(p \in pending) /\ flight'[p] = flight[p]
  BY DEF Num
<1>5. Num(p \in pending) \in {0, 1} /\ flight[p] \in Nat BY DEF Num, TypeOK
<1>6. Weight(p) <= 1 + failures BY DEF CopiesPaid
<1>7. copies[p] \in Nat /\ copies'[p] = copies[p] /\ failures \in Nat /\ failures' \in Nat
  BY DEF TypeOK
<1> QED BY <1>2, <1>3, <1>4, <1>5, <1>6, <1>7 DEF Weight

\* What is given up is on its way once more.
LEMMA GiveUpKeeps ==
  ASSUME TypeOK, GiveUp, NEW p \in Pair
  PROVE  Num(p \in pending)' = 0 /\ flight'[p] = flight[p] + Num(p \in pending)
BY DEF GiveUp, Num, TypeOK

\* No step makes more copies possible than the failures so far pay for.
LEMMA PaidStep ==
  ASSUME TypeOK, TypeOK', Phases, Outside, CopiesPaid, [Next]_vars
  PROVE  CopiesPaid'
<1> USE DEF TypeOK, Again, InBatch, listVars, transferVars
<1>1. ASSUME UNCHANGED <<pc, where, batch, todo, pending, flight, copies, failures>>
      PROVE  CopiesPaid'
  BY <1>1, Unpaid
<1>2. ASSUME NEW f \in File, NEW to \in Dir \ {"new"}, Move(f, to) \/ Delete(f)
      PROVE  /\ failures' = failures => where'[f] \cap {"outside", "new"} \subseteq {"outside"}
             /\ failures' \in {failures, failures + 1}
             /\ \A g \in File : where'[g] \subseteq where[g] \cup {to}
  BY <1>2 DEF Move, Delete, Fails, Dir
<1>3. CASE Stop \/ NoNewMail \/ WakeUp \/ NewMailFound
  BY <1>3, Unpaid DEF Stop, NoNewMail, WakeUp, NewMailFound
<1>4. CASE OpenNew \/ OpenNewFails \/ NothingRead \/ AllRead
  BY <1>4, Unpaid DEF OpenNew, OpenNewFails, NothingRead, AllRead, Fails
<1>5. ASSUME NEW f \in File, ReadMail(f) \/ OpenMailFails(f) PROVE CopiesPaid'
  BY <1>5, Unpaid DEF ReadMail, OpenMailFails, Found, Fails
<1>6. ASSUME NEW f \in File, RefuseMail(f) PROVE CopiesPaid'
  BY <1>6, <1>2, Unpaid DEF RefuseMail, Found, Dir
<1>7. ASSUME NEW f \in File, LocalOnly(f) PROVE CopiesPaid'
  BY <1>7, <1>2, Unpaid DEF LocalOnly, FilterMail, Dir
<1>8. ASSUME NEW f \in File, LocalToo(f) PROVE CopiesPaid'
  BY <1>8, Unpaid DEF LocalToo, FilterMail, Copy, Fails
<1>9. ASSUME NEW f \in File, RemoteOnly(f) PROVE CopiesPaid'
  BY <1>9, Unpaid DEF RemoteOnly, FilterMail
<1>10. ASSUME NEW f \in File, SettleMail(f) PROVE CopiesPaid'
  <2>1. Move(f, "not_sent") \/ Delete(f)
    BY <1>10 DEF SettleMail, Settle
  <2>2. "outside" \notin where[f]
    BY <1>10 DEF SettleMail, Outside
  <2>3. \A g \in File : Again(g)' => Again(g) \/ failures' = failures + 1
    BY <1>2, <1>10, <2>1, <2>2 DEF SettleMail, Dir
  <2>4. failures' >= failures
    BY <1>2, <2>1 DEF Dir
  <2> QED BY <1>10, <2>3, <2>4, Unpaid DEF SettleMail
<1>11. CASE BatchOver BY <1>11, Unpaid DEF BatchOver
<1>12. CASE PressQ \/ \E f \in File : LearnSent(f)
  BY <1>1, <1>12 DEF PressQ, LearnSent
<1>13. CASE Restart BY <1>13, Unpaid DEF Restart
<1>14. ASSUME NEW f \in File, Deliver(f) PROVE CopiesPaid'
  <2>1. /\ UNCHANGED <<pc, batch, todo, pending, flight, copies, failures>>
        /\ where' = [where EXCEPT ![f] = {"new"}] /\ where[f] = {"outside"}
    BY <1>14 DEF Deliver
  <2>2. \A g \in File : Again(g)' => Again(g)
    BY <2>1
  <2> QED BY <2>1, <2>2, Unpaid
\* The copies of the batch are now to be had, and its mails do not come again.
<1>15. CASE Filtered
  <2> SUFFICES ASSUME NEW p \in Pair PROVE Weight(p)' <= 1 + failures'
    BY DEF CopiesPaid, Pair
  <2>1. /\ UNCHANGED <<where, batch, flight, copies, failures>>
        /\ pc = "filter" /\ pc' = "transfer"
        /\ pending' \subseteq {q \in Pair : q[1] \in batch}
    BY <1>15 DEF Filtered
  <2>2. pending = {} /\ batch \subseteq InNew
    BY <2>1 DEF Phases
  <2>3. p \in pending' => Again(p[1]) /\ ~Again(p[1])'
    BY <2>1, <2>2 DEF InNew
  <2>4. Again(p[1])' => Again(p[1])
    BY <2>1
  <2>5. Num(p \in pending)' + Num(Again(p[1]))' <= Num(Again(p[1]))
    BY <2>3, <2>4 DEF Num
  <2>6. Num(p \in pending) = 0 /\ flight'[p] = flight[p]
    BY <2>1, <2>2 DEF Num
  <2>7. Weight(p) <= 1 + failures BY DEF CopiesPaid
  <2>8. /\ Num(p \in pending)' \in {0, 1} /\ flight[p] \in Nat
        /\ Num(Again(p[1])) \in {0, 1} /\ Num(Again(p[1]))' \in {0, 1}
    BY DEF Num
  <2> QED BY <2>1, <2>5, <2>6, <2>7, <2>8 DEF Weight
\* What was to be had is on its way, and the mails do not come again yet.
<1>16. CASE TransferEnds \/ Crash
  <2> SUFFICES ASSUME NEW p \in Pair PROVE Weight(p)' <= 1 + failures'
    BY DEF CopiesPaid, Pair
  <2>1. GiveUp /\ UNCHANGED <<where, copies>>
    BY <1>16 DEF TransferEnds, Crash
  <2>2. \/ failures' = failures /\ (Again(p[1])' => Again(p[1]))
        \/ failures' = failures + 1
    BY <1>16 DEF TransferEnds, Crash, Fails
  <2>3. /\ Num(p \in pending) \in {0, 1} /\ flight[p] \in Nat
        /\ Num(Again(p[1])) \in {0, 1} /\ Num(Again(p[1]))' \in {0, 1}
    BY DEF Num
  <2>4. \/ failures' = failures /\ Num(Again(p[1]))' <= Num(Again(p[1]))
        \/ failures' = failures + 1 /\ Num(Again(p[1]))' <= Num(Again(p[1])) + 1
    BY <2>2, <2>3 DEF Num
  <2>5. Num(p \in pending)' = 0 /\ flight'[p] = flight[p] + Num(p \in pending)
    BY <2>1, GiveUpKeeps
  <2>6. Weight(p) <= 1 + failures BY DEF CopiesPaid
  <2>7. copies'[p] = copies[p] /\ copies[p] \in Nat /\ failures \in Nat
    BY <2>1
  <2> QED BY <2>3, <2>4, <2>5, <2>6, <2>7 DEF Weight
\* One copy more, one less to be had or on its way
<1>17. ASSUME NEW q \in Pair, Accept(q) \/ AcceptLate(q) PROVE CopiesPaid'
  <2> SUFFICES ASSUME NEW p \in Pair PROVE Weight(p)' <= 1 + failures'
    BY DEF CopiesPaid, Pair
  <2>1. UNCHANGED <<pc, where, batch, todo, failures>>
    BY <1>17 DEF Accept, AcceptLate
  <2>2. Num(Again(p[1]))' = Num(Again(p[1]))
    BY <2>1 DEF Num
  <2>3. copies'[p] + flight'[p] + Num(p \in pending)'
          <= copies[p] + flight[p] + Num(p \in pending)
    BY <1>17 DEF Accept, AcceptLate, Num
  <2>4. /\ Num(p \in pending) \in {0, 1} /\ Num(p \in pending)' \in {0, 1}
        /\ flight[p] \in Nat /\ flight'[p] \in Nat
        /\ Num(Again(p[1])) \in {0, 1}
    BY DEF Num
  <2>5. Weight(p) <= 1 + failures BY DEF CopiesPaid
  <2>6. copies'[p] \in Nat /\ copies[p] \in Nat /\ failures \in Nat
    BY DEF TypeOK
  <2> QED BY <2>1, <2>2, <2>3, <2>4, <2>5, <2>6 DEF Weight
<1>18. CASE UNCHANGED vars BY <1>1, <1>18 DEF vars
<1> QED
  BY <1>3, <1>4, <1>5, <1>6, <1>7, <1>8, <1>9, <1>10, <1>11, <1>12, <1>13, <1>14,
     <1>15, <1>16, <1>17, <1>18
  DEF Next, SmtpClientLoop, Environment, ReadAllMail, FilterMyMail, EndOfBatch

-----------------------------------------------------------------------------
(* Mails for local recipients *)

\* What is done for the local recipients of the mails in the batch comes before
\* their files leave NEW, and link() cannot fail here.
LEMMA LocalStep ==
  ASSUME "link" \notin Faults,
         TypeOK, Phases, Outside, LocalFirst, LocalMailKept, [Next]_vars
  PROVE  LocalFirst' /\ LocalMailKept'
<1> DEFINE P == LocalFirst' /\ LocalMailKept'
<1> USE DEF TypeOK, LocalFirst, LocalDone, LocalMailKept, Arrived, Dir, listVars, transferVars
<1>1. ASSUME UNCHANGED <<pc, where, batch, todo>>
      PROVE  P
  BY <1>1
<1>2. CASE Stop \/ NoNewMail \/ WakeUp \/ NewMailFound
  BY <1>2 DEF Stop, NoNewMail, WakeUp, NewMailFound
<1>3. CASE OpenNew \/ OpenNewFails \/ NothingRead \/ AllRead
  BY <1>3 DEF OpenNew, OpenNewFails, NothingRead, AllRead
<1>4. ASSUME NEW f \in File, ReadMail(f) \/ OpenMailFails(f) PROVE P
  BY <1>4 DEF ReadMail, OpenMailFails, Found
<1>5. ASSUME NEW f \in File, RefuseMail(f) PROVE P
  BY <1>5 DEF RefuseMail, Found, Move, Fails, InNew
<1>6. ASSUME NEW f \in File, LocalOnly(f) PROVE P
  BY <1>6 DEF LocalOnly, FilterMail, Move, Fails
<1>7. ASSUME NEW f \in File, LocalToo(f) PROVE P
  BY <1>7 DEF LocalToo, FilterMail, Copy, Fails
<1>8. ASSUME NEW f \in File, RemoteOnly(f) PROVE P
  BY <1>8 DEF RemoteOnly, FilterMail, HasLocalRcpt
<1>9. CASE Filtered \/ TransferEnds
  BY <1>9 DEF Filtered, TransferEnds
<1>10. ASSUME NEW f \in File, SettleMail(f) PROVE P
  BY <1>10 DEF SettleMail, Settle, Move, Delete, Fails
<1>11. CASE BatchOver \/ Crash BY <1>11 DEF BatchOver, Crash
<1>12. CASE PressQ \/ \E f \in File : LearnSent(f)
  BY <1>1, <1>12 DEF PressQ, LearnSent
<1>13. CASE Restart BY <1>13 DEF Restart, Phases
<1>14. ASSUME NEW f \in File, Deliver(f) PROVE P
  BY <1>14 DEF Deliver, Outside
<1>15. ASSUME NEW p \in Pair, Accept(p) \/ AcceptLate(p) PROVE P
  BY <1>1, <1>15 DEF Accept, AcceptLate
<1>16. CASE UNCHANGED vars BY <1>1, <1>16 DEF vars
<1> QED
  BY <1>2, <1>3, <1>4, <1>5, <1>6, <1>7, <1>8, <1>9, <1>10, <1>11, <1>12, <1>13,
     <1>14, <1>15, <1>16
  DEF Next, SmtpClientLoop, Environment, ReadAllMail, FilterMyMail, EndOfBatch

-----------------------------------------------------------------------------
(* The theorems *)

\* No step leads out of the invariant.
LEMMA StepIInv == IInv /\ [Next]_vars => IInv'
<1> SUFFICES ASSUME IInv, [Next]_vars PROVE IInv' OBVIOUS
<1>1. TypeOK' BY TypeStep DEF IInv
<1>2. Phases' /\ Outside' BY PhasesStep DEF IInv
<1>3. SentAccepted' /\ NoMailVanishes' BY SafeStep DEF IInv
<1>4. TakenAccepted' BY TakenStep DEF IInv
<1>5. CopiesPaid' BY <1>1, PaidStep DEF IInv
<1>6. ASSUME "link" \notin Faults PROVE LocalFirst' /\ LocalMailKept'
  BY <1>6, LocalStep DEF IInv
<1> QED BY <1>1, <1>2, <1>3, <1>4, <1>5, <1>6 DEF IInv

\* Every reachable state satisfies the inductive invariant: the main loop, its
\* file operations and what may fail in them.
THEOREM Invariance == Spec => []IInv
BY InitIInv, StepIInv, PTL DEF Spec

\* The invariant holds where a transfer begins.
LEMMA AtTransferIInv == AtTransfer => IInv
<1> SUFFICES ASSUME AtTransfer PROVE IInv OBVIOUS
<1> USE DEF AtTransfer
<1>1. TypeOK
  <2>1. leaked \in 0 .. MaxDescriptors /\ failures \in 0 .. MaxFailures BY SMT
  <2>2. flight \in [Pair -> Nat] /\ copies \in [Pair -> Nat] BY SMT
  <2>3. where \in [File -> SUBSET (Dir \cup {"outside"})] BY DEF Dir
  <2>4. pending \subseteq Pair OBVIOUS
  <2> QED BY <2>1, <2>2, <2>3, <2>4 DEF TypeOK
<1>2. Phases /\ Outside
  BY DEF Phases, Outside, Pair
<1>3. SentAccepted /\ TakenAccepted /\ NoMailVanishes
  BY RemotePair DEF SentAccepted, TakenAccepted, NoMailVanishes
<1>4. CopiesPaid
  <2> SUFFICES ASSUME NEW p \in Pair PROVE Weight(p) <= 1 + failures
    BY DEF CopiesPaid
  <2>1. p[1] \in File BY DEF Pair
  <2>2. ~Again(p[1])
    BY <2>1 DEF Again, InBatch
  <2> QED BY <2>2 DEF Weight, Num
<1>5. LocalFirst /\ LocalMailKept
  BY DEF LocalFirst, LocalDone, LocalMailKept, HasLocalRcpt
<1> QED BY <1>1, <1>2, <1>3, <1>4, <1>5 DEF IInv

\* What holds of the whole run holds of a transfer on its own.
THEOREM TransferInvariance == TransferSpec => []IInv
<1>1. TransferNext => Next
  BY DEF TransferNext, Next, SmtpClientLoop, Environment
<1>2. IInv /\ [TransferNext]_vars => IInv'
  BY <1>1, StepIInv
<1> QED BY <1>2, AtTransferIInv, PTL DEF TransferSpec

\* The types, and read_all_mail opens and leaks no more than there is.
THEOREM TypeCorrect == Spec => []TypeOK
<1>1. IInv => TypeOK BY DEF IInv
<1> QED BY <1>1, Invariance, PTL

\* Of whatever fails when: a file of NEW is somewhere until a server has the mail.
THEOREM NothingVanishes == Spec => []NoMailVanishes
<1>1. IInv => NoMailVanishes BY DEF IInv
<1> QED BY <1>1, Invariance, PTL

\* A domain gets a mail at most once more than there were failures.
THEOREM CopiesArePaid == Spec => []CopiesCostFailures
<1>1. IInv => CopiesCostFailures
  <2> SUFFICES ASSUME IInv, NEW p \in Pair PROVE copies[p] <= 1 + failures
    BY DEF CopiesCostFailures
  <2>1. Weight(p) <= 1 + failures BY DEF IInv, CopiesPaid
  <2>2. copies[p] \in Nat /\ failures \in Nat BY DEF IInv, TypeOK
  <2>3. /\ Num(p \in pending) \in {0, 1} /\ flight[p] \in Nat
        /\ Num(Again(p[1])) \in {0, 1}
    BY DEF Num, IInv, TypeOK
  <2> QED BY <2>1, <2>2, <2>3 DEF Weight
<1> QED BY <1>1, Invariance, PTL

\* If link() works, filter_my_mail loses no mail for a local recipient.
THEOREM LocalMailSafe == "link" \notin Faults => (Spec => []LocalMailKept)
<1> SUFFICES ASSUME "link" \notin Faults PROVE Spec => []LocalMailKept OBVIOUS
<1>1. IInv => LocalMailKept BY DEF IInv
<1> QED BY <1>1, Invariance, PTL
=============================================================================
