------------------------------ MODULE Shutdown ------------------------------
(***************************************************************************)
(* The three processes of the client, from init() to the end of all three: *)
(* the main process (main.c), the key listener (key-listener.c with        *)
(* getch() of utils.c) and the logger (log.c).  They share two socket      *)
(* pairs and the terminal.  The main process and the listener write to the *)
(* log socket, the logger reads it; the listener writes one byte to the    *)
(* key socket, the main process looks for it without ever reading it.      *)
(*                                                                         *)
(* Any of them may be killed at any time, if it is among Mortal.  A        *)
(* process is killed by SIGPIPE when it sends to one that has ended:       *)
(* nothing in the code ignores that signal.                                *)
(***************************************************************************)
EXTENDS Integers, Sequences

CONSTANTS
  SocketSize,  \* messages the log socket holds; a sender waits for room
  Faults,      \* the calls of init() that may fail
  Mortal       \* the processes that may be killed

Fault == {"fork_log", "keyboard_listener_fork", "opts_init", "re_init"}
Process == {"main", "listener", "logger"}

ASSUME ShutdownAssumption ==
  /\ SocketSize \in Nat \ {0}
  /\ Faults \subseteq Fault
  /\ Mortal \subseteq Process

VARIABLES
  main, listener, logger,  \* where each process is
  log,    \* the messages in the log socket
  bytes,  \* how many bytes are in the key socket: the quit signal is one
  key,    \* the key typed that nobody has read, or "none"
  tty,    \* the mode of the terminal
  old     \* the mode that getch() found at its last call

ttyVars == <<tty, old>>
vars == <<main, listener, logger, log, bytes, key, ttyVars>>

\* Not yet there, at the end of the program, returned from init(), killed
Gone == {"none", "exited", "failed", "killed"}
Up(process) == process \notin Gone

\* What the listener says when it starts, when it reads Q and when it stops,
\* whatever the main process says, and the exit symbol
Message == {"started", "gotQ", "stopped", "main", "exit"}

-----------------------------------------------------------------------------
(* The log socket *)

\* mutant: a message is cut off at the end of the buffer
RoomAtEnd == Len(log) <= SocketSize

Room == Len(log) < SocketSize

\* send_log: one send() for a message with its NUL, in full or not at all.
Send(msg) ==
  /\ Up(logger)
  /\ Room
  /\ log' = Append(log, msg)

\* The logger has the only read end: when it is gone, a send() kills.
Broken == ~Up(logger)

-----------------------------------------------------------------------------
Init ==
  /\ main = "fork_log" /\ listener = "none" /\ logger = "none"
  /\ log = <<>> /\ bytes = 0
  /\ key = "none"
  /\ tty = "cooked" /\ old = "cooked"

-----------------------------------------------------------------------------
(* The main process: init() *)

ForkLog ==
  /\ main = "fork_log"
  /\ main' = "fork_listener" /\ logger' = "running"
  /\ UNCHANGED <<listener, log, bytes, key, ttyVars>>

ForkLogFails ==
  /\ main = "fork_log" /\ "fork_log" \in Faults
  /\ main' = "failed"
  /\ UNCHANGED <<listener, logger, log, bytes, key, ttyVars>>

ForkListener ==
  /\ main = "fork_listener"
  /\ main' = "options" /\ listener' = "starting"
  /\ UNCHANGED <<logger, log, bytes, key, ttyVars>>

\* The main process says so and returns: close_log() is for the good end only.
ForkListenerFails ==
  /\ main = "fork_listener" /\ "keyboard_listener_fork" \in Faults
  /\ Send("main")
  /\ main' = "failed"
  /\ UNCHANGED <<listener, logger, bytes, key, ttyVars>>

\* opts_init
ReadOptions ==
  /\ main = "options"
  /\ main' = "patterns"
  /\ UNCHANGED <<listener, logger, log, bytes, key, ttyVars>>

\* ... goes on with the defaults if there is no file, and says so.
NoOptions ==
  /\ main = "options" /\ "opts_init" \in Faults
  /\ Send("main")
  /\ main' = "patterns"
  /\ UNCHANGED <<listener, logger, bytes, key, ttyVars>>

\* re_init and maildir_init
CompilePatterns ==
  /\ main = "patterns"
  /\ main' = "loop"
  /\ UNCHANGED <<listener, logger, log, bytes, key, ttyVars>>

CompilePatternsFails ==
  /\ main = "patterns" /\ "re_init" \in Faults
  /\ Send("main")
  /\ main' = "failed"
  /\ UNCHANGED <<listener, logger, bytes, key, ttyVars>>

-----------------------------------------------------------------------------
(* The main process: smtp_client_loop() and final() *)

\* recv() of no bytes from the key socket: 0 when there is a byte or the
\* other end is closed, -1 (would block) otherwise.  It takes nothing.
RecvNothing(there, otherEnd) == IF there > 0 \/ ~Up(otherEnd) THEN 0 ELSE -1

\* mutant: only a byte counts, not the end of the listener
ByteOnly == bytes > 0

QuitKeyPressed == RecvNothing(bytes, listener) >= 0

BeginTurn ==
  /\ main = "loop" /\ ~QuitKeyPressed
  /\ main' = "turn"
  /\ UNCHANGED <<listener, logger, log, bytes, key, ttyVars>>

\* Asleep or in a batch, it says something at least once, and does not look
\* for Q.
Speak(next) ==
  /\ main = "turn"
  /\ Send("main")
  /\ main' = next
  /\ UNCHANGED <<listener, logger, bytes, key, ttyVars>>

Turn == Speak("turn")
EndTurn == Speak("loop")

QuitLoop ==
  /\ main = "loop" /\ QuitKeyPressed
  /\ main' = "final"
  /\ UNCHANGED <<listener, logger, log, bytes, key, ttyVars>>

\* keyboard_listener_final: the recv() of no bytes may now wait, but the
\* byte is still there, or the other end is closed.  maildir_final, re_final
\* and opts_final free memory.
Final ==
  /\ main = "final"
  /\ RecvNothing(bytes, listener) = 0
  /\ main' = "close_log"
  /\ UNCHANGED <<listener, logger, log, bytes, key, ttyVars>>

\* close_log sends the exit symbol ...
CloseLog ==
  /\ main = "close_log"
  /\ Send("exit")
  /\ main' = "wait_log"
  /\ UNCHANGED <<listener, logger, bytes, key, ttyVars>>

\* mutant: the main process does not wait for the logger
NoWait == TRUE

\* recv() of no bytes from a socket nobody writes to
LogClosed == ~Up(logger)

\* ... and waits for the end of the logger.
WaitLog ==
  /\ main = "wait_log"
  /\ LogClosed
  /\ main' = "exited"
  /\ UNCHANGED <<listener, logger, log, bytes, key, ttyVars>>

\* Where it has something to say.  What fork_log says is printed there.
MainBroken ==
  /\ main \in {"fork_listener", "options", "patterns", "turn", "close_log"}
  /\ Broken
  /\ main' = "killed"
  /\ UNCHANGED <<listener, logger, log, bytes, key, ttyVars>>

-----------------------------------------------------------------------------
(* The key listener: keyboard_loop() and getch() *)

Says(at, msg, next) ==
  /\ listener = at
  /\ Send(msg)
  /\ listener' = next
  /\ UNCHANGED <<main, logger, bytes, key, ttyVars>>

SayStarted == Says("starting", "started", "getch")
SayGotQ == Says("gotQ", "gotQ", "send")
SayStopped == Says("stopping", "stopped", "exited")

ListenerBroken ==
  /\ listener \in {"starting", "gotQ", "stopping"}
  /\ Broken
  /\ listener' = "killed"
  /\ UNCHANGED <<main, logger, log, bytes, key, ttyVars>>

\* getch() turns line mode and echo off ...
SetRaw ==
  /\ listener = "getch"
  /\ listener' = "select"
  /\ old' = tty /\ tty' = "raw"
  /\ UNCHANGED <<main, logger, log, bytes, key>>

\* ... and after a second without a key returns with them off.  Its caller asks
\* whether the key socket is broken, in a way that never finds out.
SelectTimesOut ==
  /\ listener = "select" /\ key = "none"
  /\ ~(RecvNothing(0, main) > 0)
  /\ listener' = "getch"
  /\ UNCHANGED <<main, logger, log, bytes, key, ttyVars>>

\* mutant: it sets the terminal back to the mode it found
AsFound(mode) == mode

\* The two bits are set, whatever they were.
Restored(mode) == "cooked"

ReadKey ==
  /\ listener = "select" /\ key # "none"
  /\ listener' = IF key = "Q" THEN "gotQ" ELSE "getch"
  /\ key' = "none"
  /\ tty' = Restored(old)
  /\ UNCHANGED <<main, logger, log, bytes, old>>

\* mutant: the signal goes before the message about it
SendQuitEarly ==
  /\ listener = "gotQ" /\ Up(main)
  /\ bytes' = bytes + 1
  /\ UNCHANGED <<main, listener, logger, log, key, ttyVars>>

SendQuit ==
  /\ listener = "send" /\ Up(main)
  /\ bytes' = bytes + 1
  /\ listener' = "stopping"
  /\ UNCHANGED <<main, logger, log, key, ttyVars>>

SendQuitBroken ==
  /\ listener = "send" /\ ~Up(main)
  /\ listener' = "killed"
  /\ UNCHANGED <<main, logger, log, bytes, key, ttyVars>>

-----------------------------------------------------------------------------
(* The logger: log_loop() *)

PrintMessage ==
  /\ logger = "running" /\ log # <<>> /\ Head(log) # "exit"
  /\ log' = Tail(log)
  /\ UNCHANGED <<main, listener, logger, bytes, key, ttyVars>>

StopLog ==
  /\ logger = "running" /\ log # <<>> /\ Head(log) = "exit"
  /\ log' = Tail(log)
  /\ logger' = "exited"
  /\ UNCHANGED <<main, listener, bytes, key, ttyVars>>

\* mutant: an end of file is an error to be tried again
NoEndOfFile == FALSE

\* The listener has a copy of the main process's end.
EndOfFile == log = <<>> /\ ~Up(main) /\ ~Up(listener)

LogBroken ==
  /\ logger = "running"
  /\ EndOfFile
  /\ logger' = "exited"
  /\ UNCHANGED <<main, listener, log, bytes, key, ttyVars>>

-----------------------------------------------------------------------------
(* The user and the kernel *)

TypeKey ==
  /\ key = "none"
  /\ key' \in {"Q", "other"}
  /\ UNCHANGED <<main, listener, logger, log, bytes, ttyVars>>

KillMain ==
  /\ "main" \in Mortal /\ Up(main)
  /\ main' = "killed"
  /\ UNCHANGED <<listener, logger, log, bytes, key, ttyVars>>

KillListener ==
  /\ "listener" \in Mortal /\ Up(listener)
  /\ listener' = "killed"
  /\ UNCHANGED <<main, logger, log, bytes, key, ttyVars>>

KillLogger ==
  /\ "logger" \in Mortal /\ Up(logger)
  /\ logger' = "killed"
  /\ UNCHANGED <<main, listener, log, bytes, key, ttyVars>>

-----------------------------------------------------------------------------
InitMain ==
  \/ ForkLog \/ ForkLogFails \/ ForkListener \/ ForkListenerFails
  \/ ReadOptions \/ NoOptions \/ CompilePatterns \/ CompilePatternsFails

FinalMain == QuitLoop \/ Final \/ CloseLog \/ WaitLog

Main == InitMain \/ BeginTurn \/ Turn \/ EndTurn \/ FinalMain \/ MainBroken

Getch == SetRaw \/ SelectTimesOut \/ ReadKey

Listener ==
  \/ SayStarted \/ Getch \/ SayGotQ \/ SendQuit \/ SayStopped
  \/ ListenerBroken \/ SendQuitBroken

Logger == PrintMessage \/ StopLog \/ LogBroken

Next ==
  \/ Main \/ Listener \/ Logger
  \/ TypeKey \/ KillMain \/ KillListener \/ KillLogger

Spec == Init /\ [][Next]_vars

\* Every process is scheduled, and batches end, which supposes that servers
\* read what they are sent or go away (BatchEnds of ConnLoop).  A listener that
\* waits for room in the log socket gets it: the main process, its rival,
\* sleeps or polls between its messages.
FairSpec ==
  Spec /\ WF_vars(Main) /\ SF_vars(EndTurn) /\ SF_vars(Listener) /\ WF_vars(Logger)

-----------------------------------------------------------------------------
(* Type invariant *)

LogOK == log \in Seq(Message) /\ Len(log) <= SocketSize

\* The places of the processes, and no more messages in the log socket than it
\* holds.
TypeOK ==
  /\ main \in {"fork_log", "fork_listener", "options", "patterns", "loop", "turn",
               "final", "close_log", "wait_log", "exited", "failed", "killed"}
  /\ listener \in {"none", "starting", "getch", "select", "gotQ", "send", "stopping",
                   "exited", "killed"}
  /\ logger \in {"none", "running", "exited", "killed"}
  /\ LogOK
  /\ bytes \in {0, 1}
  /\ key \in {"none", "Q", "other"}
  /\ tty \in {"cooked", "raw"} /\ old \in {"cooked", "raw"}

-----------------------------------------------------------------------------
(* Safety *)

OnlyLastWord == \A j \in DOMAIN log : log[j] = "stopped"

\* "The main process will wait until all accumulated messages are printed"
\* (log.h:20, of close_log): when the logger has come to its end, or the main
\* process to the end of final(), everything has been printed that anybody said,
\* but for the listener's last word: keyboard_listener_final does not wait for it.
AllPrinted ==
  logger = "exited" \/ (main = "exited" /\ logger # "killed") =>
    OnlyLastWord

\* getch() returns without restoring the terminal when no key comes, and the next
\* call takes what it left for the user's mode.  Still the listener leaves the
\* terminal as the user had it, if it is not killed in between.
TerminalRestored ==
  listener \in {"gotQ", "send", "stopping", "exited"} => tty = "cooked"

-----------------------------------------------------------------------------
(* The inductive invariant *)

\* The listener may still say something before its last word.
Speaking == {"starting", "getch", "select", "gotQ", "send"}

ExitLast == \A j, l \in DOMAIN log : j < l /\ log[j] = "exit" => log[l] = "stopped"

ExitSent == \E j \in DOMAIN log : log[j] = "exit"

\* Inductive: the byte, and the end of the listener, come after all it says but
\* its last word, and the exit symbol after the byte: nothing but that word
\* can be behind the exit symbol.
IInv ==
  /\ TypeOK /\ AllPrinted /\ TerminalRestored
  /\ bytes > 0 => listener \in {"stopping", "exited", "killed"}
  /\ main \in {"final", "close_log", "wait_log", "exited"} => listener \notin Speaking
  /\ ExitSent => main \in {"wait_log", "exited", "killed"} /\ listener \notin Speaking
  /\ ExitLast
  /\ main \in {"fork_log", "fork_listener"} => listener = "none"
  /\ listener = "none" => main \in {"fork_log", "fork_listener", "failed", "killed"}
  /\ main = "exited" => ~Up(logger)
  /\ logger = "none" => log = <<>>

-----------------------------------------------------------------------------
(* Liveness *)

AllGone == ~Up(main) /\ ~Up(listener) /\ ~Up(logger)

\* Q ends all three processes, from whatever state init() or a killed process
\* has left the others in: none is left waiting for another.
QuitEndsAll == key = "Q" ~> AllGone

\* The main process does not go on without one of its helpers: without the
\* logger its next message kills it, without the listener it stops as if by Q.
NoBlindRun == listener = "killed" \/ logger = "killed" ~> ~Up(main)
=============================================================================
