# A formal model of the SMTP client

The program is a small mail transfer agent in C: it looks for mail files in a
directory, connects to the mail servers of the recipients' domains, sends every
mail over all connections from one thread, and then deletes or sets aside the
files.  This directory holds TLA+ modules that model it, TLC configurations
that check them on small instances, and TLAPS proofs of the invariants, the
action property and the refinements.

Contents: 1 inventory, 2 plan, 3 the modules and the code, 4 the runs,
5 bounds and fairness, 6 the proofs, 7 what the code does otherwise than it
says, 8 what is not modelled.

## 1. Inventory

Three processes: the main one, a key listener and (if FORKED_LOG is defined) a
logger.  All the mail work is done by the main process in one thread.

| Component | State | Operations | Correct when |
|---|---|---|---|
| Main loop (`protocol.c` `smtp_client_loop`, `main.c`) | none of its own | test for Q, count the new files, run a batch, sleep | every file of NEW is dealt with; Q ends it; it does not spin |
| Connection loop (`protocol.c`) | `mails`, `domains`, `connections`, `connectionsCount`; per connection `state`, `m`, `r`, `time_of_last_response` | `conn_init`, `wait_for_response`, timeouts and frees, settling the files | every session is a legal dialogue that transfers whole mails; every batch ends; no file is deleted that was not delivered |
| Session machine (`client-fsm.c`, from `client.def`; the `send_*` functions) | none: it works on a connection | a step on a reply; two internal steps | the command sent is the one that is due |
| MX lookup, connect (`check_dns`, `connect_*`) | none | DNS query, best of the MX records, connect to any address within 500 ms | the best server is chosen; the socket is connected; no more than one socket per server (section 7: there may be more) |
| Maildir (`maildir.c`) | the directories NEW, CUR, NOT_SENT; the parsed mails | read all, drop the local recipients, move, link, delete | no mail is lost; malformed mail is set aside; nothing is leaked |
| Reply classification (`regexp.c`) | compiled patterns | match a reply or a mail line against the patterns, first match wins | the code of a reply is its own |
| Key listener (`key-listener.c`, `utils.c`) | one byte in a socket pair | wait for Q, send the byte; `quit_key_pressed`, `keyboard_listener_final` | Q is noticed; the listener ends with the program |
| Logger (`log.c`) | bytes in a socket pair, one message buffer | send, receive, print, stop | messages are whole, none is lost at the end |
| Options (`opts.c`) | constants after start | read `client.cfg` | |

Interaction: the main loop calls the connection loop for each batch; this one
reads the list of mails through the maildir functions, and per connection calls
`parse_response`, which classifies the reply and steps the session machine,
which calls back the `send_*` functions and sets `was_sent` in the shared mail.
The file operations happen only at the two ends of a batch.  The processes
share nothing but the two socket pairs and the terminal.

What is hard here, and where: several servers that answer, split, delay or drop
interleave in one `poll()` loop; the scan after `poll()` counts with the wrong
bound and the array it scans has entries nobody wrote; the cursors of each
connection walk lists that all connections share; `was_sent` is one bit for all
domains; the timeout races the answer it waits for; `send()` of a long text waits
for the server to read it, and the thread with it; a crash may fall between the
acceptance of a mail and the deletion of its file.  `PROJECT.json`,
"hazards", lists these with their lines and the properties that cover them.

## 2. Plan

All of it is done; the order is that of importance to the mail.

1. `ClientFsm`: the session machine and the walks over the lists.
2. `ConnLoop`: a batch, from the list of domains to the settled files, with
   arbitrary servers, network, clock and crashes; `MCConnLoop`: its instances.
3. `MailFate`: what a batch promises, implemented by `ConnLoop`.
4. `ClientFsmProofs`, `ConnLoopProofs`: the inductive invariant and what
   follows from it.
5. `MailRun`: the directories, reading and filtering, many batches, restarts
   after a crash, the busy loop and the leaked descriptors, over the batch that
   `ConnLoop` implements; `MCMailRun`: its instances; `MailRunProofs`: its
   inductive invariant and what follows.
6. `Shutdown`: main process, key listener and logger on their socket pairs,
   from `init()` to the end of all three; `MCShutdown`, `ShutdownProofs`.
7. `Regexp`, `MailFile`: the patterns and the reading of a mail file with its
   buffer; `MxLookup`: DNS, addresses, `connect()`; `MailFileProofs`,
   `MxLookupProofs`: their invariants, step by step.
8. `BatchStart`: `conn_init`, which composes these two with the filter and the
   collecting of the domains; `MCBatchStart`, `BatchStartProofs`.
9. `Transfer`: that `ConnLoop` does what `MailRun` has for the transfer of a
   batch; `MCTransfer`, `TransferProofs`.

How they fit together: `BatchStart` ends where `ConnLoop` has its list of
domains, and `OthersOnly` and `DomainsOfMails` are what `ConnLoop` assumes of
its batch; `ConnLoop` implements `MailFate`, which is what a batch promises by
itself, and the transfer of `MailRun`, on which that module's promises of whole
runs rest (`Transfer`); `Shutdown` has the turns of `MailRun`'s loop as
one step, which ends if batches do (`BatchEnds`).

## 3. The modules and the code

**`ClientFsm`** has no variables, as the machine has no state.  `NextState` is
the transition table; `FsmStep(c, d, ev)` is `smtp_client_fsm_step` with the
handlers and the `send_*` functions they call, on the connection `c` to domain
`d`: it returns the connection after the step, the commands sent and the mails
marked `was_sent`.  The handlers that call the machine again (RCPTTO_R250,
DATASTR_R250) do so within the step.  Lists are sequences, a pointer is an
index, NULL the index after the last; a mail is reduced to the domains of its
recipients (`Batch[m][k]`), which is all the walks look at.

**`ConnLoop`**: `pc` is the place in the thread.

| pc | code | actions |
|---|---|---|
| collect | first loop of `conn_init`, `domain_add` | `DomainAdd`, `DomainsCollected` |
| connect | second loop, `create_connection` | `CreateConnection`, `CreateConnectionFails`, `ConnectionsCreated` |
| loop | `wait_for_response`, `parse_response` | `PollTimesOut`, `PollFails`, `ServeResponse`, `ServeDisconnect`, `NothingFound`, `GarbageFound`, `AllClosed` |
| send | `send_datastr`, until `send()` returns | `SendReturns` |
| sweep | the pass over the connections | `Sweep` |
| settle | the pass over the mails | `SettleMail`, `BatchFinished` |
| final, crashed | | |

`open` is the list `connections`, in the order of `domains`; `count` is
`connectionsCount`; `conn[d]` has the fields `state`, `m`, `r` of `struct
mx_conn` and keeps its last value when the structure is freed, so that
properties can speak of how it ended.  `Slot(d)` is a connection's place in
`pfds`.  `Found(res)` is the scan with its bound, `Garbage` how many
uninitialised entries `poll()` may have counted.  `dir` is where each file is.

The environment is not in the repository and is as weak as TCP and SMTP leave
it: `ServerAnswers` (anything; if the answer is the good one, the command has
been taken; if it is one the client cannot make out, it may have been),
`ReplyCompletes` (a reply arrives in two parts), `ServerDrops` (with or without
a last word, with or without the replies under way), `SendReturns`, `Tick`,
`Crash`.  A server
answers each command once and in order: this is what SMTP without pipelining
promises, and the sessions rest on it.  Commands that the client has sent
before it closes or dies are still answered, and a mail may thereby be
accepted that the client takes for not sent.

`connect_with_timeout` leaves the sockets blocking (`F_SETFL` with
`!O_NONBLOCK`, which is 0), and `send_datastr` sends a text of any length at
once.  So `ServeResponse` may end in `send` when it has sent a text (`MayWait`):
the client waits there until the server has read what the buffers of the socket
do not hold, or has gone.  Meanwhile the clock runs, the other servers answer and
drop, and nobody reads or times out; the pass that follows finds all ages as old
as the wait was long.  Commands do not wait: they are short, and the server has
read everything before, since it has answered it.  The text is put into
`toServer` when it is sent; a server that takes it has read it, and the return
of `send()` may come after its answer.

Abstractions: the pass over the connections is one action, since nothing of
what others do in between can be seen by it but the clock, and the clock only
moves a timeout from one pass to the next; the age of a connection saturates
above the timeout; recv() takes all that has arrived, of which the machine uses
the first line.

**`MailFate`** knows only which domain has accepted which mail and where the
file is.  `FateSpec` states that `ConnLoop` implements it, with `Delivered`
(the whole mails accepted) and `dir` as its variables.

**`MailRun`** is the main loop with the functions of `maildir.c`, over the whole
life of the mail files.

| pc | code | actions |
|---|---|---|
| check | head of `smtp_client_loop`, `quit_key_pressed`, `new_mail_exist` | `Stop`, `NoNewMail`, `NewMailFound` |
| sleep | `sleep(1)` | `WakeUp` |
| open, read | `conn_init` calls `read_all_mail`, `read_mail_file` | `OpenNew`, `OpenNewFails`, `ReadMail`, `RefuseMail`, `OpenMailFails`, `NothingRead`, `AllRead` |
| filter | `filter_my_mail` | `LocalOnly`, `LocalToo`, `RemoteOnly`, `Filtered` |
| transfer | the rest of `conn_init`, the connections of `conn_loop` | `Accept`, `LearnSent`, `TransferEnds` |
| settle | the end of `conn_loop`, `conn_final` | `SettleMail`, `BatchOver` |
| stopped, dead | the return of the loop; a crash, until `Restart` | |

`where[f]` is the set of directories a file has a link in ("outside" before it
is delivered), `batch` the list of mails, `seen` and `todo` what the loop over
the directory or the list has visited and has yet to visit.  A list is a set
here, since `readdir()` gives the files in an order of its own.  `To[f]` has the
domains of the recipients and is empty for a malformed file; `Unreadable` are
the files that can never be opened.  Each file operation is done, or fails if it
is among `Faults`; `failures` counts the failures.  `leaked` counts the
directories left open by the early return of `read_all_mail`, against
`MaxDescriptors`; a process that dies gives them back.

The transfer is what `ConnLoop` does with a batch, seen from outside: a domain
accepts a mail once in a batch or not at all (`Accept`); the client learns of it
later in the batch (`LearnSent`), or never, when the reply is late or lost; and
what the client has given up (`flight`, with how often) may still be accepted
later, even after the file has been settled or the program restarted.  A name is delivered once: file names are supposed to be unique
(section 8). `link()` on a name that CUR has already (after a crash in the batch
before) fails harmlessly and is the same as one that works.

**`Transfer`** states that `ConnLoop` is a refinement of this.  `Run` is `MailRun`
with expressions of `ConnLoop` for its variables: all places before the settling
are "transfer" (`MainPc`); the list of mails is there until `conn_final` or a
crash (`InHand`); a mail is pending at a domain, or on its way, as long as the
domain has not accepted it (`Due`), in or after the transfer; the mails to settle
are those from `i` on.  Of `MailRun`'s actions those of a transfer are enough
(`TransferNext`).  `failed` is a history variable that counts what
`failures` counts there, a crash or a file that stays in NEW.  `RunSpec` starts
in the middle of a run, at the beginning of a transfer (`AtTransfer`).

**`Regexp`** has which pattern of `regexp.c` matches which kind of line of a
mail file or of a DNS answer; the sessions see the pattern of a reply only.

**`MailFile`** reads one file after the other.  `stage` is the function that
reads; each action is one `fgets()` of it with what the code does with the
piece.  The file is whatever `fgets()` returns: in the head (`Header`) any kind
of line, in the text (`Text`) pieces of any length that fits, of which only the
last matters for `".\r\n"`.  `size` and `room` are `curr_size` and `max_size`,
`pieces` is a history of what was read, for the properties.  A mail is its
recipients' domains.  A file that cannot be opened changes nothing here; what
it does to the directory is in `MailRun`.

**`MxLookup`** is `create_connection` up to the connected socket, for one domain
at a time.

| step | code | actions |
|---|---|---|
| idle | the loop of `conn_init` | `CreateConnection` |
| query, records | `check_dns` | `QueryFails`, `QueryAnswers`, `ReadRecord`, `NoMx`, `BestMx` |
| resolve | `getaddrinfo()` | `NoAddress`, `Addresses` |
| connect, connecting | `connect_to_any_with_timeout`, `connect_with_timeout` | `SocketFails`, `OpenSocket`, `ConnectFails`, `Connect`, `AddressesExhausted` |

An answer is any sequence of records, an MX record its preference and host;
`left` counts the addresses that have not been tried, `sockets` the sockets
open, and a connection made has `up` FALSE if the server has refused, which
`connect_with_timeout` does not tell from a connection.

**`BatchStart`** extends both and adds what is between them, with `phase` for
the place in `conn_init`: read (`FindFile`, `ReadFile`, `NothingRead`,
`AllRead`), filter (`RemoveLocal`, `KeepRemote`, `LocalOnly`, `RemoteToo`,
`Filtered`), collect (`DomainAdd`, `MailCollected`, `DomainsCollected`), connect
(`NextDomain`, `ConnectMx`, `InitDone`).  The loops over the lists are steps of
two cursors, so that taking an element out under the loop is what it is in the
code; `accepted` keeps the mails as they were read.

**`Shutdown`** has the place of each of the three processes, the messages in the
log socket, the bytes in the key socket, and the mode of the terminal.

| process | code | actions |
|---|---|---|
| main | `init()` | `ForkLog`, `ForkListener`, `ReadOptions`, `CompilePatterns`, with the failure of each |
| | `smtp_client_loop` | `BeginTurn`, `Turn`, `EndTurn`, `QuitLoop` |
| | `final()` | `Final`, `CloseLog`, `WaitLog` |
| listener | `keyboard_loop`, `getch` | `SayStarted`, `SetRaw`, `SelectTimesOut`, `ReadKey`, `SayGotQ`, `SendQuit`, `SayStopped` |
| logger | `log_loop` | `PrintMessage`, `StopLog`, `LogBroken` |

A sender waits for room in the socket; one that sends to a process that has
ended is killed by SIGPIPE (`MainBroken`, `ListenerBroken`, `SendQuitBroken`).
`recv()` of no bytes returns 0 when there is a byte or the other end is closed,
and takes nothing (`RecvNothing`): the program uses it to look for Q, to wait
for the listener, to wait for the logger, and, with the wrong test, to find out
whether the main process is there.  Each process may be killed at any time
(`Mortal`), each call of `init()` may fail (`Faults`).

The operators announced as mutants in the modules are plausible mistakes; each
property is shown to fail when one of them takes the place of the definition
after it (`PROJECT.json`, "mutants"). The model does not use them.

## 4. The runs

| Run | Module, configuration | Checks | Shows |
|---|---|---|---|
| staggered | MCConnLoop, ConnLoopStaggered | TypeOK, CommandsInOrder, MessagesWhole, DoneMeansAccepted, SentMeansAccepted, NoMutualWait, ScanStaysInside, IInv, NoRevival | 3 mails, 3 domains; one connection is refused and leaves an entry in `pfds` that nobody wrote, one skips the mail in the middle, one the first two; in the last mail each skips the recipients before or between its own.  1,080,000 states |
| batch_ends | MCTransfer, Transfer | FateSpec, RunSpec, BatchEnds | refinement of MailFate and of the transfer of MailRun, and liveness; 2 mails, one of them for both domains; any timeouts, drops, waits in `send()` and crashes, and file operations that fail.  117,000 states |
| missed_response | MCConnLoop, ConnLoopMissed | AnyResponseIsFound, violated | section 7 |
| partial_delivery | MCConnLoop, ConnLoopPartial | DeletedMeansDelivered, violated | section 7 |
| mail_kept | MCMailRun, MailRunKept | TypeOK, NoMailVanishes, CopiesCostFailures, IInv | 4 files: for local and other recipients, for two domains, local only, malformed; any two failures, crashes included.  1,120,000 states |
| mail_ends | MCMailRun, MailRunEnds | LocalMailKept, QuitStops, NewIsEmptied | liveness and local copies; one of 4 files can never be opened and keeps NEW from being empty; two failures of anything but `link()`.  71,000 states |
| local_copy_lost | MCMailRun, MailRunLink | LocalMailKept, violated | section 7: `link()` fails |
| deaf | MCMailRun, MailRunDeaf | SleepsWhenEmpty, violated | section 7 |
| batch_start | MCBatchStart, BatchStart | TypeOK, TextFits, ReadsWellFormed, BestIsFirst, SocketsAccounted, DomainsOfMails, OthersOnly, IInv | 2 files of 5 pieces at most, 2 domains and the local one, answers of 2 records, 2 addresses.  730,000 states |
| refused | MCBatchStart, BatchStartRefused | SocketMeansConnected, violated | section 7 |
| shared_mx | MCBatchStart, BatchStartSharedMx | OneSocketPerMx, violated | section 7 |
| shutdown | MCShutdown, Shutdown | TypeOK, AllPrinted, TerminalRestored, IInv, QuitEndsAll, NoBlindRun | everything in `init()` may fail, every process may be killed; a log socket with room for 3 messages.  10,000 states |

Deadlock is not checked in any of them: a batch ends, and so does the program.
The states with `pc` in final or crashed stand for the return of `conn_loop` and
the dead process; in `MailRun`, stopped is the return of the loop; in
`BatchStart`, the phases done and failed are the two returns of `conn_init`; in
`Shutdown`, all three processes are gone.

## 5. Bounds and fairness

In `ConnLoop` no counter is cut off: the sets of states are finite because a
batch is, and because the age of a connection saturates.  Two sessions are
enough for their properties, which concern one connection each and
the shared list of mails; the batches are chosen so that each walk has to skip
something before, between and after what it looks for.  The third
connection is refused at once (`ThirdRefuses`): when it is gone the one behind it
changes its slot, `poll()` may count the entry that is left over, so that the scan
reaches the second of two connections when that one answers alone, and when one
more is gone the scan may run into garbage.  That it stays inside with any number of
connections is the theorem `ScanInside`.  In the runs that pass `ConnTimeout` is 0:
every tick expires a connection, and since the clock may stand still as long as it
likes, an answer can still come before or after the timeout.
In batch_ends the mail for both domains can be accepted by
either, by both or by none before it is settled, and the other one shows whose
mark it is; `MaxFailures` is there the number of files and one, for a crash after
every file has failed to be moved.

In `MailRun` the counters are cut off by `MaxFailures`, the number of failures in
a run, and `MaxDescriptors`, which is a limit of the real program, too.  Two
failures are enough for a crash in a batch whose rests then fail to be settled,
and for two copies too many; a third copy needs the same steps again.  Three
descriptors let the program leak two directories before it goes deaf; opening a
mail file takes one more than the directory.

In `BatchStart` the bounds are `MaxFiles`, `MaxPieces` (lines of a file),
`MaxRecords` and `MaxAddresses`.  Five pieces hold a well-formed file with two
recipients, local ones and the same one twice among them, a malformed one of
every kind, and a text that outgrows its buffer once: `BufSize` is 4, with which
a line of one dot just fits and sizes meet the room exactly, from below and from
above.  Two files make a mail leave the list before, behind or between others
that stay; two domains and two addresses let one lookup fail and the next
succeed.  `Worst` is 99 in place of 999999.  None of these bounds is in the
proofs as a number.

In `Shutdown` only the log socket is bounded (`SocketSize`), as it is in the
kernel; three messages are enough for one behind the exit symbol and a sender
that has to wait.  One key at a time is in the terminal.

`FairSpec` of `ConnLoop`, and `FairHSpec` of `Transfer` with its history variable,
assume weak fairness of the thread's next step (the kernel schedules it;
`poll()` returns after five seconds at most), of the clock, and of the return of a
`send()` whose server has gone (`SendIsOver`: TCP ends the wait with an error)
(`Fairness`).  Nothing is asked of the servers, and so a batch need not end:
`BatchEnds` says that it ends or is held up for ever in `send()` by a server that
neither reads its text nor goes away (`HeldUp`).  A server that says nothing, but
reads, cannot hold it up.  `ConnLoop` has no fairness for a particular
connection, since the code has none: the scan always prefers the earlier one.

`FairSpec` of `MailRun` assumes weak fairness of the loop as a whole, in which
the end of a transfer is a step.  That batches end is an assumption on the servers
which the code does nothing to secure: by `BatchEnds` of `ConnLoop` it holds if
every server reads the texts it is sent or goes away.  `QuitStops` and
`NewIsEmptied` rest on it.  It also assumes that somebody starts the program again
after a crash.  `NewIsEmptied` is about the files that can be read, and
holds as long as the program does not go deaf (section 7).  It holds in spite
of failures because `MaxFailures` makes them end.

`FairSpec` of `Shutdown` assumes that the kernel schedules every process (weak
fairness of the main process and the logger), that a batch ends (strong
fairness of `EndTurn`, which competes with the messages of the batch; it is the
same assumption on the servers, on which `QuitEndsAll` and `NoBlindRun` rest), and strong fairness of the listener, which competes with
the main process for room in the log socket: the main process sleeps or polls
between its messages, and the logger makes room meanwhile.  Nobody has to press
Q, and nobody is killed fairly.

## 6. The proofs

**A batch.**  `ConnLoopProofs` holds for every finite batch, every set of
domains and every value of the timeouts, from the assumptions
`BatchAssumption` (a batch is a sequence of mails, each with a recipient) and
`TimeoutAssumption`.

`Invariance` proves `Spec => []IInv`.  The properties are not inductive by
themselves: `CommandsInOrder` speaks of commands at a server, and to know that
the next command will be the due one we must know what a reply, once it is
there, says about the server, and where the client's cursors are when it reads
it.  `IInv` therefore adds, for each open connection (`Session`, `Cursors`):
either the one command under way is the one the state of the machine awaits, or
a reply is there, and if it is the good one the server has taken that command
(`Taken`), or the server has gone; and for the whole (`DomainsOK`, `Phases`,
`Sockets`): a domain has one connection, made once.  `OpenListed` says that a
connection has a place in `pfds`, `UntilSettled` that no file leaves NEW before
its turn.  TLC checks `IInv` in the run staggered.

The argument follows one domain at a time: `DomainInv(d)` is the part of `IInv`
that concerns `d`, `ByDomain` takes the invariant apart, and every action
either leaves a domain alone (`Frame`), or is one of: a connection made
(`CreateKeeps`), an answer (`AnswerKeeps`), a reply completed
(`CompletionKeeps`), a drop (`DropKeeps`), a reply read (`ReadKeeps`, by
`GoodReply` state by state, else `BadReply`), a connection given up or closed
(`InvalidKeeps`, `CloseKeeps`).  `ClientFsmProofs` has what the walks over the
lists return (`SeekFinds`, from the well-foundedness of the naturals) and that
a step of the machine keeps its types (`FsmStepType`).

From `Invariance` follow `TypeCorrect`, `SessionsInOrder`, `OnlyWholeMessages`,
`DoneIsDelivered`, `NothingLost` and `NoDeadlockedSession`, and three results of
other kinds:

- `ScanInside`: among the ready connections one comes first in the list
  (`FirstReady`, because `domains` has no duplicates), its place is no larger
  than the number of open connections, and so a scan that does not find it has
  stopped before the entries that nobody wrote.
- `ClosedForGood` proves the action property `NoRevival`: what the scan finds is
  open, and what is open is at work when `poll()` is called (`Phases`), since the
  sweep before it has freed the rest.
- `ImplementsFate` proves the refinement `FateSpec`.  The initial states map to
  initial states (`FateInit`); an answer adds at most one mail to what a domain
  has, the next one in order, which `InOrder` of the command says
  (`AnswerIsFate`); settling a file deletes it only if `SentMeansAccepted` gives
  an acceptance; no other step changes `Delivered` or `dir`.

**The main loop.**  `MailRunProofs` holds for any files, recipients, numbers of
failures and of descriptors, from `FileAssumption` (the client's own domain is
not among the others; a file's recipients are in some domain) and
`BoundAssumption`.  Its `Invariance` proves the `IInv` of `MailRun`, which TLC
checks in the run mail_kept.  That a mail does not vanish needs `SentAccepted`:
what is marked as sent has been accepted, so that `SettleMail` may delete it.
`CopiesCostFailures` is not inductive, because what counts is not only the
copies made but those that can still be: `Weight(p)` adds to the copies of a
mail at a domain the one to be had in this batch, the one on its way from an
earlier one, and one more if the file may come into another batch without a
failure (`Again`: it is in NEW or will be, and no batch has yet to settle it).
No step raises the weight by more than it raises `failures`: an acceptance
moves one from pending to copies; the beginning of the transfer turns the
possible batch into this one; a file that is settled leaves NEW, unless the
operation fails, which is paid for; and so is a crash, by which all mails of the
batch may come again.  `Phases` and `Outside` say where the files of the batch
are on the way.  `TakenAccepted` makes `LearnSent` safe: a mail no longer pending
at a domain has been accepted there.  `LocalFirst` is what the filter has done for the mails it is
through with; `LocalMailSafe` assumes that `link()` is not among `Faults`.

From this `Invariance` follow `TypeCorrect`, `NothingVanishes`, `CopiesArePaid`
and `LocalMailSafe`.  `TransferInvariance` has the same invariant for runs that
begin with a transfer, as those of `RunSpec` do.

**From one to the other.**  `TransferProofs` proves `ImplementsTransfer`, that
`HSpec`, which is `ConnLoop` with the history variable, implies `RunSpec`, for
every batch, set of domains and timeouts, from the assumptions of `ConnLoop` and
`LocalAssumption` (the client's own domain is not among the others, as
`filter_my_mail` leaves it).  The invariant is `IInv` of `ConnLoop` with `FailedOK`,
which bounds the history variable by the mails settled so far.  `StepKinds`
sorts the steps: an answer is an acceptance, in time or late, or nothing
(`AnswerMaps`, by `AnswerIsFate`); a reply read marks one mail at most
(`MarksOneMail`), and one that some domain has, by `SentMeansAccepted`
(`ResponseMaps`); the end of the loop, the settling of a mail, the end of the
batch and a crash are the actions of these names (`AllClosedMaps`, `SettleMaps`,
`FinishedMaps`, `DieMaps`); all others, timeouts and sweeps among them, are
nothing to `MailRun` (`QuietTransfer`, `QuietElsewhere`).  `RunAssumptions` shows
that what `MailRun` assumes of its constants holds of those it is given.

**The start of a batch.**  `BatchStartProofs` holds for any domains, hosts,
preferences, buffer size and bounds, from `FileAssumption` (a line of one dot
fits into the buffer), `MxAssumption` (preferences are below `Worst`) and
`BatchAssumption` (a recipient's domain is local or one of the others).  The
invariant `IInv` of `BatchStart` has three parts, which are proved apart.

- `FileInv` (`MailFileProofs`): what each of the three readers knows about the
  pieces read so far.  `ReadsWellFormed` is about a whole file, when the readers
  are through; to get there, `FromKnown`, `InRcpts`, `RcptsRead` and `ToKnown` say
  stage by stage where the head has ended and that no later line can make up
  for a bad one (`HeadEnds`).  For `TextFits` one must know that `room` is never
  less than a piece, since it is doubled once only.
- `MxInv` (`MxLookupProofs`): `BestIsFirst` is inductive over the records
  (`ReadRecordKeeps`), `SocketsAccounted` over the steps.
- The loops: what they have done as far as their cursors.  The filter has
  taken off no remote recipient (`RemoteKept`) and left no local one behind it
  (`LocalGone`); `domains` has the domains of the recipients visited, each once
  (`VisitedDomains`); the connections are to domains that are through
  (`Asked`).  What is to come out in the end is the same after every removal
  (`ForOthersKept`).  `Removed` and `RestStays` say what taking an element out of a list
  does to the others, `RcptRemoved` and `MailRemoved` what it does to the
  domains of the mails.

From its `Invariance` follow `TypeCorrect`, `TextInside`, `OnlyWellFormed`,
`BestServer`, `NoSocketLost`, `WalksEnd` and `FilterExact`.

`FilterExact` compares what the two loops leave with `ForOthers`, which is
recursive.  `Rest` is a recursive function and not an operator, and what is needed
of it are three facts, proved over the places of a list (`Climb`: a set of places
that has 0 and goes on from each to the next has all of them, from the
well-foundedness of the naturals): what it is at each place (`RestSteps`), that a
list without an element of `S` stays as it is (`NothingPassedOver`), and that
taking out an element of `S` changes nothing of what comes of the list
(`PassedOver`).  A removal by the code is one of the latter, in a mail
(`ForOthersRcpt`) or in the list of mails (`ForOthersMail`); behind the last
step nothing is left to be passed over (`ForOthersAll`).

**The three processes.**  `ShutdownProofs` holds for any size of the log socket
and any `Faults` and `Mortal`.  `IInv` orders what the processes do by the
messages: the byte for Q comes after all the listener says but its last word, the
end of the main loop after the byte or the end of the listener, the exit symbol
after that, so that nothing but the last word can be behind the exit symbol
(`ExitLast`).  From `Invariance` follow `TypeCorrect`, `NothingUnprinted` and
`TerminalSafe`.

Model-checked only: `BatchEnds`, `NewIsEmptied`, `QuitStops`, `QuitEndsAll` and
`NoBlindRun`, since liveness is beyond the prover.  That every behaviour of
`ConnLoop` has its history, so that `HSpec` leaves none out, is plain from
`HNext`, which only adds a value for `failed'`, and not stated as a theorem.

## 7. What the code does otherwise than it says

*missed_response.*  "Waiting for response from any SMTP server; if there was
any, returns 1" (protocol.c:432).  The scan runs to `i < res`, the number of
ready sockets: if the second of two connections answers alone, `res` is 1 and
only the first entry is looked at.  The answer is found when the earlier
connections are ready or gone, or not before the timeout.  `BatchEnds` still
holds, and so does `ScanStaysInside`: while a connection is ready, the scan
does not get to the uninitialised entries without finding it first.

*partial_delivery.*  "Mail '%s' was successfully sent. Deleting file from NEW
directory." (protocol.c:389).  `was_sent` is set by the first domain that
accepts (client-fsm.c:275); the mail is deleted though another domain has not
got it.  What does hold is `SentMeansAccepted`: some domain has.

*local_copy_lost.*  "Mail '%s' has local recipient, copying to 'cur' dir."
(maildir.c:267).  The local recipients are off the list by then; when `link()`
fails (maildir.c:331), that is logged, the batch goes on, and the file is settled all the
same: deleted if the mail was sent to the others, else moved to NOT_SENT, and CUR
has no copy.  `LocalMailKept` holds whenever `link()` works
(`LocalMailSafe`).

*deaf.*  "Returns count of mail files in MAILDIR/NEW/ directory"
(maildir.c:52), and "No new mail. Sleeping." (protocol.c:40).  When no file of
NEW could be read, `read_all_mail` returns without `closedir()` (maildir.c:98)
and the loop tries again at once.  When the descriptors are used up,
`new_mail_exist` cannot open NEW either and reports that there is no mail.

*refused.*  "Tries to connect to any possible IPs of specified host; returns 0 on
failure, or socket on success" (protocol.c:200).  After a non-blocking
`connect()`, `poll()` reports a refused socket as it does a connected one, and
nothing asks which (protocol.c:189): the first address that refuses counts as a
success, and the others are not tried.  The session ends with its first
`recv()`, which `ConnLoop` has as a connection that is closed from the start.

*shared_mx.*  The report asks for at most one socket per remote MX, or per
remote IP ("На один удалённый MX надо создавать не более одного сокета",
report.tex:34).  `conn_init` makes a connection for every recipient domain
(protocol.c:86-91), and none looks at the others: two domains that are served by the
same host have two sockets to it, even if it has one address.

*The wait in send().*  It has no run of its own, as `BatchEnds` has it as its second
disjunct; without that disjunct TLC finds a batch that never ends.
`connect_with_timeout` leaves the socket blocking (protocol.c:194), and
`send_datastr` sends the whole text at once (protocol.c:544).  A server that takes
DATA and then neither reads nor closes stops the only thread.  The timeout of a
connection (protocol.c:365, `timeout` in client.cfg) is looked at in the pass over
the connections alone, and is never reached; Q is not seen either.  If the server
reads in the end, the pass that follows may time out all the other connections,
since their answers have not been read meanwhile.  The report gives `poll()` as
the means against blocking reads and writes (report.tex:49-51).

Without a run of their own:

- `mx_port` is formatted from the options but port "25" is connected to
  (protocol.c:249-251).  The model has no ports.
- `re_match_any` returns -1, not "0 if there are aren't any" (regexp.c:117), on
  which its caller relies.
- In `read_mail_data` the NUL behind a text that fills its buffer exactly is
  written one byte behind it (maildir.c:222).  These are the states of `MailFile`
  with `size` = `room`, and they are reachable; `TextFits` is about the text
  without its NUL, since nothing in the repository says more.
- "Waits till listener will stop its work" (key-listener.c:83).
  `keyboard_listener_final` receives no bytes, which returns at once as the byte
  for Q is still in the socket; the main process does not wait (`Final`).
  The listener's last message may therefore come behind the exit symbol and be
  lost: `AllPrinted` makes an exception of it.
- The listener's test for a dead main process can never be true
  (key-listener.c:33), so that it stays until Q is pressed.  `QuitEndsAll` is about
  what happens after Q, and does not see this.

## 8. What is not modelled

The texts of mails and replies beyond what the properties tell apart: what a
pattern does to a text is left to pcre.  A text is one value, of which the server
is supposed to find the end where the client has put it.  That is not so for a
text with a line of one dot before its last line: the client sends it as it
stands (nothing doubles a leading dot, maildir.c:214), the server ends the mail
there and takes what follows for commands.  `CommandsInOrder` and `MessagesWhole`
say nothing of such mails.

File names are supposed to be unique over the life of the directories, as those of
a maildir are by convention; the code does not see to it.  `rename(2)` in `move_mail`
(maildir.c:315) replaces a file of the same name in NOT_SENT without a word, and
the older mail is gone.  `NoMailVanishes` holds under this assumption: in `MailRun`
a name stands for one mail.

The values of the options.  The
vendored list macros: lists are sequences.  Log messages are values: one longer
than the 500 bytes of the buffer in `log_loop` (log.c:76) would overrun it, as
`MAX_LOG_MESSAGE_SIZE` is 1000.  A standard input that is no terminal, with which
`getch()` returns at once and the listener never sleeps.  The TIMEOUT event of
the machine is raised nowhere in the code.  In `ConnLoop` and `MailRun`, a process
killed by SIGPIPE (nothing ignores it) is one of the crashes.
