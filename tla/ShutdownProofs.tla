--------------------------- MODULE ShutdownProofs ---------------------------
(* What the three processes keep until they end, whatever fails in init() and *)
(* whichever of them is killed, for any size of the log socket.               *)
EXTENDS Shutdown, TLAPS

USE ShutdownAssumption

-----------------------------------------------------------------------------
(* The log socket *)

\* What a message sent changes
LEMMA Sent ==
  ASSUME LogOK, NEW m \in Message, Send(m)
  PROVE  /\ LogOK' /\ log' # log
         /\ logger = "running" \/ logger \notin {"running", "none", "exited", "killed"}
         /\ ExitSent' => ExitSent \/ m = "exit"
         /\ ~ExitSent \/ (ExitLast /\ m = "stopped") => ExitLast'
<1>1. /\ log' \in Seq(Message) /\ Len(log') <= SocketSize
      /\ DOMAIN log' = 1 .. Len(log) + 1 /\ DOMAIN log = 1 .. Len(log)
      /\ log'[Len(log) + 1] = m /\ Len(log') = Len(log) + 1
      /\ \A j \in DOMAIN log : log'[j] = log[j]
  BY DEF Send, Room, LogOK
<1>2. Len(log) \in Nat BY DEF LogOK
<1>3. ExitSent' => ExitSent \/ m = "exit" BY <1>1, <1>2 DEF ExitSent
<1>4. ASSUME ~ExitSent PROVE ExitLast' BY <1>1, <1>2, <1>4 DEF ExitSent, ExitLast
<1>5. ASSUME ExitLast, m = "stopped" PROVE ExitLast' BY <1>1, <1>2, <1>5 DEF ExitLast
<1>6. log' # log BY <1>1, <1>2
<1> QED BY <1>1, <1>3, <1>4, <1>5, <1>6 DEF LogOK, Send, Up, Gone

\* What a message read changes
LEMMA Received ==
  ASSUME LogOK, ExitLast, log # <<>>, log' = Tail(log)
  PROVE  /\ LogOK' /\ ExitLast'
         /\ ExitSent' => ExitSent
         /\ Head(log) = "exit" => OnlyLastWord'
<1>1. /\ log' \in Seq(Message) /\ Len(log') <= SocketSize
      /\ DOMAIN log' = 1 .. Len(log) - 1 /\ DOMAIN log = 1 .. Len(log)
      /\ log[1] = Head(log) /\ Len(log) \in Nat \ {0}
      /\ \A j \in DOMAIN log' : log'[j] = log[j + 1]
  BY DEF LogOK
<1>2. ExitSent' => ExitSent BY <1>1 DEF ExitSent
<1>3. ExitLast' BY <1>1 DEF ExitLast
<1>4. ASSUME Head(log) = "exit" PROVE OnlyLastWord' BY <1>1, <1>4 DEF ExitLast, OnlyLastWord
<1> QED BY <1>1, <1>2, <1>3, <1>4 DEF LogOK

\* What does not change if the log socket does not
LEMMA SameLog ==
  ASSUME LogOK, ExitLast, UNCHANGED log
  PROVE  /\ LogOK' /\ ExitLast'
         /\ ExitSent' => ExitSent
         /\ OnlyLastWord => OnlyLastWord'
BY DEF LogOK, ExitSent, ExitLast, OnlyLastWord

-----------------------------------------------------------------------------
(* The invariant *)

\* It holds at the start.
LEMMA InitIInv == Init => IInv
<1> SUFFICES ASSUME Init PROVE IInv OBVIOUS
<1> USE DEF Init
<1>1. LogOK /\ ExitLast /\ ~ExitSent /\ OnlyLastWord
  BY DEF LogOK, ExitLast, ExitSent, OnlyLastWord
<1> QED
  BY <1>1 DEF IInv, TypeOK, AllPrinted, TerminalRestored, Speaking, Up, Gone

\* A message from the main process, which has not yet called close_log
LEMMA MainSpeaks ==
  ASSUME IInv, Send("main"),
         main \in {"fork_listener", "options", "patterns", "turn"},
         main' \in {"failed", "patterns", "turn", "loop"},
         main = "fork_listener" => main' = "failed",
         UNCHANGED <<listener, logger, bytes, key, ttyVars>>
  PROVE  IInv'
<1>1. LogOK /\ ~ExitSent BY DEF IInv, TypeOK
<1>2. LogOK' /\ ExitLast' /\ ~ExitSent' BY <1>1, Sent DEF Message
<1>3. logger = "running" BY <1>1, Sent DEF IInv, TypeOK, Message
<1> QED
  BY <1>2, <1>3
  DEF IInv, TypeOK, AllPrinted, TerminalRestored, ttyVars, Speaking, Up, Gone

\* ... and its last one, the exit symbol
LEMMA CloseLogKeeps == IInv /\ CloseLog => IInv'
<1> SUFFICES ASSUME IInv, CloseLog PROVE IInv' OBVIOUS
<1>1. LogOK /\ ~ExitSent BY DEF IInv, TypeOK, CloseLog
<1>2. Send("exit") BY DEF CloseLog
<1>3. LogOK' /\ ExitLast' BY <1>1, <1>2, Sent DEF Message
<1>4. logger = "running" BY <1>1, <1>2, Sent DEF IInv, TypeOK, Message
<1> QED
  BY <1>3, <1>4
  DEF CloseLog, IInv, TypeOK, AllPrinted, TerminalRestored, ttyVars, Speaking, Up, Gone

\* Before its last word the listener has not sent the byte, so that the main
\* process, unless killed, is not yet at its end.
LEMMA ListenerSpeaks == IInv /\ (SayStarted \/ SayGotQ) => IInv'
<1> SUFFICES ASSUME IInv, SayStarted \/ SayGotQ PROVE IInv' OBVIOUS
<1> USE DEF SayStarted, SayGotQ, Says
<1>1. LogOK /\ ~ExitSent BY DEF IInv, TypeOK, Speaking
<1>2. LogOK' /\ ExitLast' /\ ~ExitSent' BY <1>1, Sent DEF Message
<1>3. logger = "running" BY <1>1, Sent DEF IInv, TypeOK, Message
<1> QED
  BY <1>2, <1>3
  DEF IInv, TypeOK, AllPrinted, TerminalRestored, ttyVars, Speaking, Up, Gone

\* Its last word may come behind the exit symbol.
LEMMA LastWordKeeps == IInv /\ SayStopped => IInv'
<1> SUFFICES ASSUME IInv, SayStopped PROVE IInv' OBVIOUS
<1> USE DEF SayStopped, Says
<1>1. LogOK /\ ExitLast BY DEF IInv, TypeOK
<1>2. LogOK' /\ ExitLast' /\ (ExitSent' => ExitSent) BY <1>1, Sent DEF Message
<1>3. logger = "running" BY <1>1, Sent DEF IInv, TypeOK, Message
<1> QED
  BY <1>2, <1>3
  DEF IInv, TypeOK, AllPrinted, TerminalRestored, ttyVars, Speaking, Up, Gone

\* The logger takes the messages in order, and stops at the exit symbol, behind
\* which there is nothing to print but that word.
LEMMA LoggerKeeps == IInv /\ (PrintMessage \/ StopLog) => IInv'
<1> SUFFICES ASSUME IInv, PrintMessage \/ StopLog PROVE IInv' OBVIOUS
<1> USE DEF PrintMessage, StopLog
<1>1. LogOK /\ ExitLast BY DEF IInv, TypeOK
<1>2. /\ LogOK' /\ ExitLast' /\ (ExitSent' => ExitSent)
      /\ StopLog => OnlyLastWord'
  BY <1>1, Received
<1>3. logger = "running" /\ main # "exited" BY DEF IInv, Up, Gone
<1> QED
  BY <1>2, <1>3
  DEF IInv, TypeOK, AllPrinted, TerminalRestored, ttyVars, Speaking, Up, Gone

\* The steps that leave the log socket alone
LEMMA QuietStep ==
  ASSUME IInv, UNCHANGED log,
         \/ ForkLog \/ ForkLogFails \/ ForkListener \/ ReadOptions \/ CompilePatterns
         \/ BeginTurn \/ QuitLoop \/ Final \/ WaitLog \/ MainBroken
         \/ Getch \/ SendQuit \/ ListenerBroken \/ SendQuitBroken \/ LogBroken
         \/ TypeKey \/ KillMain \/ KillListener \/ KillLogger \/ UNCHANGED vars
  PROVE  IInv'
<1>1. /\ LogOK' /\ ExitLast'
      /\ ExitSent' => ExitSent
      /\ OnlyLastWord => OnlyLastWord'
  BY SameLog DEF IInv, TypeOK
<1>2. log = <<>> => OnlyLastWord BY DEF OnlyLastWord
<1> USE <1>1, <1>2 DEF IInv, TypeOK, AllPrinted, TerminalRestored, ttyVars, Speaking, Up, Gone
<1>3. CASE ForkLog \/ ForkLogFails \/ ForkListener \/ ReadOptions \/ CompilePatterns
  BY <1>3 DEF ForkLog, ForkLogFails, ForkListener, ReadOptions, CompilePatterns
<1>4. CASE BeginTurn BY <1>4 DEF BeginTurn
<1>5. CASE QuitLoop BY <1>5 DEF QuitLoop, QuitKeyPressed, RecvNothing
<1>6. CASE Final BY <1>6 DEF Final
<1>7. CASE WaitLog BY <1>7 DEF WaitLog, LogClosed
<1>8. CASE MainBroken BY <1>8 DEF MainBroken, Broken
<1>9. CASE Getch BY <1>9 DEF Getch, SetRaw, SelectTimesOut, ReadKey, Restored
<1>10. CASE SendQuit BY <1>10 DEF SendQuit
<1>11. CASE ListenerBroken \/ SendQuitBroken BY <1>11 DEF ListenerBroken, SendQuitBroken
<1>12. CASE LogBroken BY <1>12 DEF LogBroken, EndOfFile
<1>13. CASE TypeKey BY <1>13 DEF TypeKey
<1>14. CASE KillMain \/ KillListener \/ KillLogger
  BY <1>14 DEF KillMain, KillListener, KillLogger
<1>15. CASE UNCHANGED vars BY <1>15 DEF vars
<1> QED
  BY <1>3, <1>4, <1>5, <1>6, <1>7, <1>8, <1>9, <1>10, <1>11, <1>12, <1>13, <1>14, <1>15

\* Every step keeps the invariant.
LEMMA NextIInv == IInv /\ [Next]_vars => IInv'
<1> SUFFICES ASSUME IInv, [Next]_vars PROVE IInv' OBVIOUS
<1>1. CASE ForkListenerFails \/ NoOptions \/ CompilePatternsFails \/ Turn \/ EndTurn
  BY <1>1, MainSpeaks
  DEF ForkListenerFails, NoOptions, CompilePatternsFails, Turn, EndTurn, Speak
<1>2. CASE CloseLog BY <1>2, CloseLogKeeps
<1>3. CASE SayStarted \/ SayGotQ BY <1>3, ListenerSpeaks
<1>4. CASE SayStopped BY <1>4, LastWordKeeps
<1>5. CASE PrintMessage \/ StopLog BY <1>5, LoggerKeeps
<1>6. ASSUME \/ ForkLog \/ ForkLogFails \/ ForkListener \/ ReadOptions \/ CompilePatterns
             \/ BeginTurn \/ QuitLoop \/ Final \/ WaitLog \/ MainBroken
             \/ Getch \/ SendQuit \/ ListenerBroken \/ SendQuitBroken \/ LogBroken
             \/ TypeKey \/ KillMain \/ KillListener \/ KillLogger \/ UNCHANGED vars
      PROVE  IInv'
  <2>1. UNCHANGED log
    BY <1>6
    DEF vars, ForkLog, ForkLogFails, ForkListener, ReadOptions, CompilePatterns, BeginTurn,
        QuitLoop, Final, WaitLog, MainBroken, Getch, SetRaw, SelectTimesOut, ReadKey,
        SendQuit, ListenerBroken, SendQuitBroken, LogBroken, TypeKey, KillMain,
        KillListener, KillLogger
  <2> QED BY <1>6, <2>1, QuietStep
<1> QED
  BY <1>1, <1>2, <1>3, <1>4, <1>5, <1>6
  DEF Next, Main, InitMain, FinalMain, Listener, Logger

-----------------------------------------------------------------------------
(* The theorems *)

\* The inductive invariant holds in every reachable state.
THEOREM Invariance == Spec => []IInv
BY InitIInv, NextIInv, PTL DEF Spec

\* The processes keep to their places, and the log socket to its size.
THEOREM TypeCorrect == Spec => []TypeOK
<1>1. IInv => TypeOK BY DEF IInv
<1> QED BY <1>1, Invariance, PTL

\* Nothing that was said is left unprinted at the end of the logger, nor at the
\* regular end of the main process, but for the listener's last word.
THEOREM NothingUnprinted == Spec => []AllPrinted
<1>1. IInv => AllPrinted BY DEF IInv
<1> QED BY <1>1, Invariance, PTL

\* A listener that has read Q leaves the terminal as the user had it.
THEOREM TerminalSafe == Spec => []TerminalRestored
<1>1. IInv => TerminalRestored BY DEF IInv
<1> QED BY <1>1, Invariance, PTL
=============================================================================
