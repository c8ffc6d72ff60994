------------------------------ MODULE MailFile ------------------------------
(***************************************************************************)
(* One mail file after the other read into the list of mails: what         *)
(* read_mail_file of maildir.c does with each line, and with the buffer    *)
(* for the text.  The three parts of a file are read in turn, whatever     *)
(* became of the part before.                                              *)
(*                                                                         *)
(* The file comes from outside: fgets() gives any pieces.  A piece is a    *)
(* line, or a part of one that does not fit into the buffer fgets() has.   *)
(***************************************************************************)
EXTENDS Integers, Sequences, Regexp

CONSTANTS
  Name,      \* the domains of recipients, as they are written
  NoName,    \* of a piece that is no RCPT line
  BufSize,   \* sizeof(buf), and the room there is for the text at first
  MaxPieces  \* bound of the pieces of a file

\* A line of one dot fits in.
ASSUME FileAssumption ==
  /\ NoName \notin Name
  /\ BufSize \in Nat /\ BufSize > 3
  /\ MaxPieces \in Nat

VARIABLES
  stage,  \* the function that reads
  ended,  \* fgets() has found the end of the file
  from,   \* MAIL FROM is as it should be
  to,     \* the count of recipients, 0 if something is wrong
  data,   \* the text is as it should be
  rcpts,  \* the domains of the recipients
  size,   \* curr_size
  room,   \* max_size
  last,   \* the kind of what is in buf
  pieces, \* history: what fgets() has returned
  mails   \* the list of mails, as lists of recipients' domains

resultVars == <<from, to, data, rcpts>>
textVars == <<size, room, last>>
bufferVars == <<stage, ended, resultVars, textVars, pieces>>
fileVars == <<bufferVars, mails>>

-----------------------------------------------------------------------------
(* The file *)

Header == [is : {"mail_from", "data", "dot", "text"}, name : {NoName}, len : {1}]
          \cup [is : {"rcpt_to"}, name : Name, len : {1}]

\* In the text only the size of a piece counts, and whether it is ".\r\n".
Text == [is : {"text"}, name : {NoName}, len : 1 .. BufSize - 1]
        \cup [is : {"dot"}, name : {NoName}, len : {3}]

Piece == Header \cup Text

Gets(p) ==
  /\ ~ended /\ Len(pieces) < MaxPieces
  /\ pieces' = Append(pieces, p)
  /\ UNCHANGED <<ended, mails>>

GetsNothing == ended' = TRUE /\ UNCHANGED <<pieces, mails>>

-----------------------------------------------------------------------------
FileInit ==
  /\ stage = "closed" /\ ended = FALSE
  /\ from = FALSE /\ to = 0 /\ data = FALSE /\ rcpts = <<>>
  /\ size = 0 /\ room = BufSize /\ last = "text"
  /\ pieces = <<>> /\ mails = <<>>

OpenFile ==
  /\ stage = "closed"
  /\ stage' = "from"
  /\ UNCHANGED <<ended, resultVars, textVars, pieces, mails>>

-----------------------------------------------------------------------------
(* read_mail_from *)

ReadFrom ==
  /\ stage = "from"
  /\ \E p \in Header : Gets(p) /\ from' = ReMatch("RE_mail_from", p.is)
  /\ stage' = "to"
  /\ UNCHANGED <<to, data, rcpts, textVars>>

NoFrom ==
  /\ stage = "from"
  /\ GetsNothing
  /\ stage' = "to"
  /\ UNCHANGED <<resultVars, textVars>>

-----------------------------------------------------------------------------
(* read_mail_to *)

ReadRcpt ==
  /\ stage = "to"
  /\ \E p \in Header :
       /\ Gets(p) /\ ReMatch("RE_rcpt_to", p.is)
       /\ rcpts' = Append(rcpts, p.name)
  /\ UNCHANGED <<stage, from, to, data, textVars>>

\* mutant: a mail for nobody is as good as any
SomeCount == Len(rcpts) + 1

Count == Len(rcpts)

ReadData ==
  /\ stage = "to"
  /\ \E p \in Header : Gets(p) /\ ReMatch("RE_data", p.is)
  /\ stage' = "data"
  /\ to' = Count
  /\ UNCHANGED <<from, data, rcpts, textVars>>

\* What is neither ends the list; so does the end of the file.
ReadOther ==
  /\ stage = "to"
  /\ \/ \E p \in Header :
          Gets(p) /\ ~ReMatch("RE_data", p.is) /\ ~ReMatch("RE_rcpt_to", p.is)
     \/ GetsNothing
  /\ stage' = "data"
  /\ UNCHANGED <<resultVars, textVars>>

-----------------------------------------------------------------------------
(* read_mail_data *)

\* mutant: the room is looked at before the piece is
Overfull(len) == size > room

TooSmall(len) == size + len > room

\* strcpy() writes the piece and a NUL behind it.
ReadText ==
  /\ stage = "data"
  /\ \E p \in Text :
       /\ Gets(p)
       /\ room' = IF TooSmall(p.len) THEN 2 * room ELSE room
       /\ size' = size + p.len
       /\ last' = p.is
  /\ UNCHANGED <<stage, resultVars>>

EndOfText ==
  /\ stage = "data"
  /\ GetsNothing
  /\ stage' = "close"
  /\ data' = (size # 0 /\ last = "dot")
  /\ UNCHANGED <<from, to, rcpts, textVars>>

-----------------------------------------------------------------------------
(* read_mail_file *)

Accepted == from /\ to > 0 /\ data

\* A mail joins the list, or the file is moved to NOT_SENT (MailRun).
CloseFile ==
  /\ stage = "close"
  /\ stage' = "closed" /\ ended' = FALSE
  /\ mails' = IF Accepted THEN Append(mails, rcpts) ELSE mails
  /\ from' = FALSE /\ to' = 0 /\ data' = FALSE /\ rcpts' = <<>>
  /\ size' = 0 /\ room' = BufSize /\ last' = "text"
  /\ pieces' = <<>>

ReadMailFile ==
  \/ ReadFrom \/ NoFrom \/ ReadRcpt \/ ReadData \/ ReadOther
  \/ ReadText \/ EndOfText \/ CloseFile

FileNext == OpenFile \/ ReadMailFile

FileSpec == FileInit /\ [][FileNext]_fileVars

-----------------------------------------------------------------------------
(* Properties *)

\* The values the variables range over.
FileTypeOK ==
  /\ stage \in {"closed", "from", "to", "data", "close"}
  /\ ended \in BOOLEAN /\ from \in BOOLEAN /\ data \in BOOLEAN
  /\ rcpts \in Seq(Name) /\ to \in 0 .. Len(rcpts)
  /\ size \in Nat /\ room \in Nat
  /\ last \in {"text", "dot"}
  /\ pieces \in Seq(Piece) /\ Len(pieces) <= MaxPieces
  /\ mails \in Seq(Seq(Name))

\* read_mail_data doubles the room once, and only when a piece goes beyond it:
\* still the text stays within, and the NUL of strcpy() at most one byte behind.
TextFits == size <= room

\* The lines from the second on are RCPT TO, up to DATA in line k.
HeadUpTo(ps, k) == (\A j \in 2 .. k - 1 : ps[j].is = "rcpt_to") /\ ps[k].is = "data"

\* A file as it should be: MAIL FROM, a RCPT TO or more, DATA, and a text that
\* ends with ".\r\n".
WellFormed(ps) ==
  \E k \in 3 .. Len(ps) - 1 :
    ps[1].is = "mail_from" /\ HeadUpTo(ps, k) /\ ps[Len(ps)].is = "dot"

\* The three functions go on after each other's failures, from wherever these
\* have left the file.  Still a file is accepted exactly if it is well formed,
\* and then no recipient is lost, invented or out of order.
ReadsWellFormed ==
  stage = "close" =>
    /\ Accepted <=> WellFormed(pieces)
    /\ Accepted =>
         /\ Len(rcpts) = to
         /\ \A j \in 1 .. to : rcpts[j] = pieces[j + 1].name

-----------------------------------------------------------------------------
(* The inductive invariant *)

NothingYet ==
  /\ pieces = <<>> /\ rcpts = <<>> /\ to = 0 /\ size = 0
  /\ from = FALSE /\ data = FALSE

\* After read_mail_from: whether the first line was good
FromKnown == from <=> Len(pieces) > 0 /\ pieces[1].is = "mail_from"

\* The recipients are those of the lines from the second on.
RcptsRead ==
  \A j \in DOMAIN rcpts :
    /\ j + 1 \in DOMAIN pieces
    /\ pieces[j + 1].is = "rcpt_to" /\ pieces[j + 1].name = rcpts[j]

\* In read_mail_to: all lines but the first are recipients.
InRcpts ==
  /\ IF pieces = <<>> THEN ended /\ rcpts = <<>> ELSE Len(pieces) = Len(rcpts) + 1
  /\ to = 0 /\ size = 0 /\ data = FALSE

\* After read_mail_to: a count of recipients stands for a good head.
ToKnown ==
  IF to > 0
    THEN /\ Len(rcpts) = to /\ to + 2 \in DOMAIN pieces
         /\ pieces[to + 2].is = "data"
    ELSE \A k \in 3 .. Len(pieces) : ~HeadUpTo(pieces, k)

\* In the text, or after it: what was read last
TextKnown ==
  /\ to > 0 => (size > 0 <=> Len(pieces) > to + 2)
  /\ size > 0 => Len(pieces) > 0 /\ pieces[Len(pieces)].is = last

Stages ==
  /\ stage \in {"closed", "from"} => NothingYet /\ ~ended
  /\ stage \in {"to", "data", "close"} => FromKnown /\ RcptsRead
  /\ stage = "to" => InRcpts
  /\ stage \in {"data", "close"} => ToKnown /\ TextKnown
  /\ stage = "close" => (data <=> size > 0 /\ last = "dot")

\* Inductive: what each function has found out of the lines it has read, and
\* that the room is at least a piece's.
FileInv ==
  /\ FileTypeOK /\ TextFits /\ ReadsWellFormed
  /\ Stages
  /\ room >= BufSize
=============================================================================
