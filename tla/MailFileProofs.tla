--------------------------- MODULE MailFileProofs ---------------------------
(* The inductive invariant of MailFile, action by action. *)
EXTENDS MailFile, TLAPS

\* Which patterns match which lines
LEMMA Matches ==
  ASSUME NEW kind \in LineKind
  PROVE  /\ ReMatch("RE_mail_from", kind) <=> kind = "mail_from"
         /\ ReMatch("RE_rcpt_to", kind) <=> kind = "rcpt_to"
         /\ ReMatch("RE_data", kind) <=> kind = "data"
BY DEF ReMatch, Patterns, LineKind

\* What fgets() returns in the head of a file
LEMMA HeaderLines ==
  ASSUME NEW p \in Header
  PROVE  /\ p \in Piece /\ p.is \in LineKind
         /\ p.is = "rcpt_to" => p.name \in Name
BY DEF Header, Piece, LineKind

\* What fgets() returns in the text
LEMMA TextLines ==
  ASSUME NEW p \in Text
  PROVE  /\ p \in Piece /\ p.is \in {"text", "dot"}
         /\ p.len \in 1 .. BufSize - 1
BY FileAssumption DEF Text, Piece

\* A piece more is behind the others.
LEMMA Appended ==
  ASSUME NEW S, NEW s \in Seq(S), NEW e \in S
  PROVE  /\ Append(s, e) \in Seq(S)
         /\ Len(Append(s, e)) = Len(s) + 1
         /\ \A k \in 1 .. Len(s) : Append(s, e)[k] = s[k]
         /\ Append(s, e)[Len(s) + 1] = e
OBVIOUS

-----------------------------------------------------------------------------
\* At first nothing is read.
LEMMA FileInitInv == FileInit => FileInv
<1> SUFFICES ASSUME FileInit PROVE FileInv
  OBVIOUS
<1> USE FileAssumption DEF FileInit
<1>1. FileTypeOK
  <2>1. <<>> \in Seq(Name) /\ <<>> \in Seq(Piece) /\ <<>> \in Seq(Seq(Name)) /\ Len(<<>>) = 0
    OBVIOUS
  <2>2. size \in Nat /\ room \in Nat /\ to \in 0 .. Len(rcpts) /\ Len(pieces) <= MaxPieces
    BY <2>1
  <2>. QED BY <2>1, <2>2 DEF FileTypeOK
<1>2. TextFits /\ ReadsWellFormed /\ room >= BufSize
  BY DEF TextFits, ReadsWellFormed
<1>3. Stages
  BY DEF Stages, NothingYet
<1>. QED BY <1>1, <1>2, <1>3 DEF FileInv

\* Nothing but the list of mails and other modules' variables changes.
LEMMA FileFrame ==
  ASSUME FileInv, UNCHANGED bufferVars, mails' \in Seq(Seq(Name))
  PROVE  FileInv'
BY DEF FileInv, bufferVars, resultVars, textVars, FileTypeOK, TextFits, ReadsWellFormed,
       Accepted, WellFormed, HeadUpTo, Stages, NothingYet, FromKnown, RcptsRead,
       InRcpts, ToKnown, TextKnown

\* OpenFile: nothing is read yet.
LEMMA OpenFileKeeps ==
  ASSUME FileInv, OpenFile
  PROVE  FileInv'
BY DEF FileInv, OpenFile, resultVars, textVars, FileTypeOK, TextFits, ReadsWellFormed,
       Stages, NothingYet

\* read_mail_from: the first line is good or not, or there is none.
LEMMA ReadFromKeeps ==
  ASSUME FileInv, ReadFrom \/ NoFrom
  PROVE  FileInv'
<1> USE DEF FileInv, FileTypeOK
<1>0. stage = "from" /\ NothingYet /\ ~ended
  BY DEF ReadFrom, NoFrom, Stages
<1>1. CASE ReadFrom
  <2>1. PICK p \in Header : Gets(p) /\ from' = ReMatch("RE_mail_from", p.is)
    BY <1>1 DEF ReadFrom
  <2>2. /\ stage' = "to" /\ pieces' = Append(pieces, p) /\ Len(pieces) < MaxPieces
        /\ UNCHANGED <<ended, mails, to, data, rcpts, size, room, last>>
    BY <1>1, <2>1 DEF ReadFrom, Gets, textVars
  <2>3. /\ pieces' \in Seq(Piece) /\ Len(pieces') = 1 /\ pieces'[1] = p
        /\ p.is \in LineKind
    BY <1>0, <2>2, Appended, HeaderLines DEF NothingYet
  <2>4. from' \in BOOLEAN /\ (from' <=> p.is = "mail_from")
    <3>1. ReMatch("RE_mail_from", p.is) \in BOOLEAN
      BY DEF ReMatch
    <3>2. ReMatch("RE_mail_from", p.is) <=> p.is = "mail_from"
      BY <2>3, Matches
    <3>. QED BY <2>1, <3>1, <3>2, Zenon
  <2>5. FromKnown' /\ RcptsRead' /\ InRcpts'
    BY <1>0, <2>2, <2>3, <2>4 DEF FromKnown, RcptsRead, InRcpts, NothingYet
  <2>6. FileTypeOK'
    BY <1>0, <2>2, <2>3, <2>4, FileAssumption DEF NothingYet
  <2>. QED BY <2>2, <2>5, <2>6 DEF Stages, TextFits, ReadsWellFormed
<1>2. CASE NoFrom
  <2>1. /\ stage' = "to" /\ ended' = TRUE
        /\ UNCHANGED <<pieces, mails, from, to, data, rcpts, size, room, last>>
    BY <1>2 DEF NoFrom, GetsNothing, resultVars, textVars
  <2>2. FromKnown' /\ RcptsRead' /\ InRcpts'
    BY <1>0, <2>1 DEF FromKnown, RcptsRead, InRcpts, NothingYet
  <2>3. FileTypeOK'
    BY <1>0, <2>1 DEF NothingYet
  <2>. QED BY <2>1, <2>2, <2>3 DEF Stages, TextFits, ReadsWellFormed
<1>. QED BY <1>1, <1>2

\* The head has the recipients' lines in it and then something else.
LEMMA HeadEnds ==
  ASSUME FileInv, stage = "to", NEW p \in Header,
         pieces' = Append(pieces, p), p.is # "rcpt_to"
  PROVE  \A k \in 3 .. Len(pieces') :
           HeadUpTo(pieces', k) <=> k = Len(pieces') /\ p.is = "data"
<1> USE DEF FileInv, FileTypeOK
<1>1. InRcpts /\ RcptsRead
  BY DEF Stages
<1>2. /\ Len(pieces') = Len(pieces) + 1 /\ pieces'[Len(pieces) + 1] = p
      /\ \A k \in 1 .. Len(pieces) : pieces'[k] = pieces[k]
  BY Appended, HeaderLines
<1>3. \A j \in 2 .. Len(pieces) : pieces'[j].is = "rcpt_to"
  <2> SUFFICES ASSUME NEW j \in 2 .. Len(pieces) PROVE pieces[j].is = "rcpt_to"
    BY <1>2
  <2>1. Len(pieces) = Len(rcpts) + 1
    BY <1>1 DEF InRcpts
  <2>2. j - 1 \in DOMAIN rcpts
    BY <2>1
  <2>. QED BY <1>1, <2>2 DEF RcptsRead
<1>4. ASSUME NEW k \in 3 .. Len(pieces')
      PROVE  HeadUpTo(pieces', k) <=> k = Len(pieces') /\ p.is = "data"
  <2>1. CASE k = Len(pieces')
    BY <1>2, <1>3, <2>1 DEF HeadUpTo
  <2>2. CASE k # Len(pieces')
    BY <1>2, <1>3, <2>2 DEF HeadUpTo
  <2>. QED BY <2>1, <2>2
<1>. QED BY <1>4

\* read_mail_to: a recipient
LEMMA ReadRcptKeeps ==
  ASSUME FileInv, ReadRcpt
  PROVE  FileInv'
<1> USE DEF FileInv, FileTypeOK
<1>0. stage = "to" /\ FromKnown /\ RcptsRead /\ InRcpts
  BY DEF ReadRcpt, Stages
<1>1. PICK p \in Header : /\ Gets(p) /\ ReMatch("RE_rcpt_to", p.is)
                          /\ rcpts' = Append(rcpts, p.name)
  BY DEF ReadRcpt
<1>2. /\ ~ended /\ pieces' = Append(pieces, p) /\ Len(pieces) < MaxPieces
      /\ UNCHANGED <<stage, ended, mails, from, to, data, size, room, last>>
  BY <1>1 DEF ReadRcpt, Gets, textVars
<1>3. p \in Piece /\ p.is = "rcpt_to" /\ p.name \in Name
  BY <1>1, HeaderLines, Matches
<1>4. /\ pieces' \in Seq(Piece) /\ Len(pieces') = Len(pieces) + 1
      /\ pieces'[Len(pieces) + 1] = p
      /\ \A k \in 1 .. Len(pieces) : pieces'[k] = pieces[k]
  BY <1>2, <1>3, Appended
<1>5. /\ rcpts' \in Seq(Name) /\ Len(rcpts') = Len(rcpts) + 1
      /\ rcpts'[Len(rcpts) + 1] = p.name
      /\ \A k \in 1 .. Len(rcpts) : rcpts'[k] = rcpts[k]
  BY <1>1, <1>3, Appended
<1>6. Len(pieces) > 0 /\ Len(pieces) = Len(rcpts) + 1
  BY <1>0, <1>2 DEF InRcpts
<1>7. FromKnown'
  BY <1>0, <1>2, <1>4, <1>6 DEF FromKnown
<1>8. RcptsRead'
  <2> SUFFICES ASSUME NEW j \in 1 .. Len(rcpts) + 1
               PROVE  /\ j + 1 \in 1 .. Len(pieces) + 1
                      /\ pieces'[j + 1].is = "rcpt_to"
                      /\ pieces'[j + 1].name = rcpts'[j]
    BY <1>4, <1>5 DEF RcptsRead
  <2>1. CASE j = Len(rcpts) + 1
    BY <1>3, <1>4, <1>5, <1>6, <2>1
  <2>2. CASE j # Len(rcpts) + 1
    <3>1. j \in DOMAIN rcpts /\ j + 1 \in 1 .. Len(pieces)
      BY <1>6, <2>2
    <3>2. pieces[j + 1].is = "rcpt_to" /\ pieces[j + 1].name = rcpts[j]
      BY <1>0, <3>1 DEF RcptsRead
    <3>3. rcpts'[j] = rcpts[j] /\ pieces'[j + 1] = pieces[j + 1]
      BY <1>4, <1>5, <3>1
    <3>. QED BY <3>1, <3>2, <3>3
  <2>. QED BY <2>1, <2>2
<1>9. InRcpts'
  <2>1. pieces' # <<>> /\ Len(pieces') = Len(rcpts') + 1
    BY <1>4, <1>5, <1>6
  <2>2. to' = 0 /\ size' = 0 /\ data' = FALSE
    BY <1>0, <1>2 DEF InRcpts
  <2>. QED BY <2>1, <2>2 DEF InRcpts
<1>10. FileTypeOK'
  BY <1>0, <1>2, <1>4, <1>5, FileAssumption DEF InRcpts
<1>. QED BY <1>0, <1>2, <1>7, <1>8, <1>9, <1>10 DEF Stages, TextFits, ReadsWellFormed

\* read_mail_to: the end of the recipients, good or not
LEMMA ReadDataKeeps ==
  ASSUME FileInv, ReadData \/ ReadOther
  PROVE  FileInv'
<1> USE DEF FileInv, FileTypeOK
<1>0. stage = "to" /\ FromKnown /\ RcptsRead /\ InRcpts
  BY DEF ReadData, ReadOther, Stages
<1>1. /\ stage' = "data" /\ UNCHANGED <<mails, from, data, rcpts, size, room, last>>
      /\ to' \in {0, Len(rcpts)}
  BY <1>0 DEF ReadData, ReadOther, Gets, GetsNothing, Count, resultVars, textVars, InRcpts
<1>2. ASSUME NEW p \in Header, Gets(p), ~ReMatch("RE_rcpt_to", p.is),
             to' = IF ReMatch("RE_data", p.is) THEN Len(rcpts) ELSE 0
      PROVE  FileInv'
  <2>1. ~ended /\ ended' = ended /\ pieces' = Append(pieces, p) /\ Len(pieces) < MaxPieces
    BY <1>2 DEF Gets
  <2>2. p \in Piece /\ p.is # "rcpt_to" /\ (ReMatch("RE_data", p.is) <=> p.is = "data")
    BY <1>2, HeaderLines, Matches
  <2>3. /\ pieces' \in Seq(Piece) /\ Len(pieces') = Len(pieces) + 1
        /\ pieces'[Len(pieces) + 1] = p
        /\ \A k \in 1 .. Len(pieces) : pieces'[k] = pieces[k]
    BY <2>1, <2>2, Appended
  <2>4. Len(pieces) > 0 /\ Len(pieces) = Len(rcpts) + 1
    BY <1>0, <2>1 DEF InRcpts
  <2>5. FromKnown'
    BY <1>0, <1>1, <2>3, <2>4 DEF FromKnown
  <2>6. RcptsRead'
    <3> SUFFICES ASSUME NEW j \in DOMAIN rcpts
                 PROVE  /\ j + 1 \in DOMAIN pieces' /\ pieces'[j + 1].is = "rcpt_to"
                        /\ pieces'[j + 1].name = rcpts[j]
      BY <1>1 DEF RcptsRead
    <3>1. j + 1 \in DOMAIN pieces /\ pieces[j + 1].is = "rcpt_to" /\ pieces[j + 1].name = rcpts[j]
      BY <1>0 DEF RcptsRead
    <3>2. DOMAIN pieces = 1 .. Len(pieces) /\ DOMAIN pieces' = 1 .. Len(pieces')
      BY <2>3
    <3>3. pieces'[j + 1] = pieces[j + 1] /\ j + 1 \in DOMAIN pieces'
      BY <2>3, <3>1, <3>2
    <3>. QED BY <3>1, <3>3
  <2>7. ToKnown'
    <3>1. CASE to' > 0
      <4>1. p.is = "data" /\ to' = Len(rcpts)
        BY <1>2, <2>2, <3>1
      <4>. QED BY <1>1, <2>3, <2>4, <3>1, <4>1 DEF ToKnown
    <3>2. CASE ~(to' > 0)
      <4>1. p.is # "data" \/ Len(rcpts) = 0
        BY <1>2, <2>2, <3>2
      <4>2. \A k \in 3 .. Len(pieces') : ~HeadUpTo(pieces', k)
        BY <1>0, <2>1, <2>2, <2>3, <2>4, <4>1, HeadEnds
      <4>. QED BY <3>2, <4>2 DEF ToKnown
    <3>. QED BY <3>1, <3>2
  <2>8. TextKnown'
    <3>1. to' > 0 => Len(pieces') = to' + 2
      BY <1>1, <2>3, <2>4
    <3>2. size' = 0
      BY <1>0, <1>1 DEF InRcpts
    <3>. QED BY <3>1, <3>2 DEF TextKnown
  <2>9. FileTypeOK'
    BY <1>1, <2>1, <2>3, FileAssumption
  <2>. QED BY <1>1, <2>5, <2>6, <2>7, <2>8, <2>9 DEF Stages, TextFits, ReadsWellFormed
<1>3. CASE ReadData
  <2>1. PICK p \in Header : Gets(p) /\ ReMatch("RE_data", p.is)
    BY <1>3 DEF ReadData
  <2>2. ~ReMatch("RE_rcpt_to", p.is)
    BY <2>1, HeaderLines, Matches
  <2>3. to' = Len(rcpts)
    BY <1>3 DEF ReadData, Count
  <2>. QED BY <1>2, <2>1, <2>2, <2>3
<1>4. CASE ReadOther /\ \E p \in Header : /\ Gets(p) /\ ~ReMatch("RE_data", p.is)
                                          /\ ~ReMatch("RE_rcpt_to", p.is)
  <2>1. to' = 0
    BY <1>0, <1>4 DEF ReadOther, resultVars, InRcpts
  <2>. QED BY <1>2, <1>4, <2>1
<1>5. CASE ReadOther /\ GetsNothing
  <2>1. to' = 0 /\ ended' = TRUE /\ UNCHANGED pieces
    BY <1>0, <1>5 DEF ReadOther, GetsNothing, resultVars, InRcpts
  <2>2. FromKnown' /\ RcptsRead'
    BY <1>0, <1>1, <2>1 DEF FromKnown, RcptsRead
  <2>3. \A k \in 3 .. Len(pieces) : ~HeadUpTo(pieces, k)
    <3> SUFFICES ASSUME NEW k \in 3 .. Len(pieces) PROVE pieces[k].is # "data"
      BY DEF HeadUpTo
    <3>1. Len(pieces) = Len(rcpts) + 1
      BY <1>0 DEF InRcpts
    <3>2. k - 1 \in DOMAIN rcpts
      BY <3>1
    <3>3. pieces[k].is = "rcpt_to"
      BY <1>0, <3>2 DEF RcptsRead
    <3>. QED BY <3>3
  <2>4. ToKnown' /\ TextKnown'
    BY <1>0, <1>1, <2>1, <2>3 DEF ToKnown, TextKnown, HeadUpTo, InRcpts
  <2>5. FileTypeOK'
    BY <1>1, <2>1
  <2>. QED BY <1>1, <2>2, <2>4, <2>5 DEF Stages, TextFits, ReadsWellFormed
<1>. QED BY <1>3, <1>4, <1>5 DEF ReadOther

\* read_mail_data: a piece of the text, with room for it
LEMMA ReadTextKeeps ==
  ASSUME FileInv, ReadText
  PROVE  FileInv'
<1> USE DEF FileInv, FileTypeOK
<1>0. stage = "data" /\ FromKnown /\ RcptsRead /\ ToKnown /\ TextKnown
  BY DEF ReadText, Stages
<1>1. PICK p \in Text : /\ Gets(p)
                        /\ room' = IF TooSmall(p.len) THEN 2 * room ELSE room
                        /\ size' = size + p.len
                        /\ last' = p.is
  BY DEF ReadText
<1>2. /\ ~ended /\ pieces' = Append(pieces, p) /\ Len(pieces) < MaxPieces
      /\ UNCHANGED <<stage, ended, mails, from, to, data, rcpts>>
  BY <1>1 DEF ReadText, Gets, resultVars
<1>3. p \in Piece /\ p.is \in {"text", "dot"} /\ p.len \in 1 .. BufSize - 1
  BY TextLines
<1>4. /\ pieces' \in Seq(Piece) /\ Len(pieces') = Len(pieces) + 1
      /\ pieces'[Len(pieces) + 1] = p
      /\ \A k \in 1 .. Len(pieces) : pieces'[k] = pieces[k]
  BY <1>2, <1>3, Appended
<1>5. size' \in Nat /\ room' \in Nat /\ size' > 0
  BY <1>1, <1>3, FileAssumption
<1>6. size' <= room' /\ room' >= BufSize
  <2>1. CASE TooSmall(p.len)
    BY <1>1, <1>3, <2>1, FileAssumption DEF TextFits
  <2>2. CASE ~TooSmall(p.len)
    BY <1>1, <1>3, <2>2, FileAssumption DEF TooSmall
  <2>. QED BY <2>1, <2>2
<1>7. FromKnown'
  <2>1. CASE pieces = <<>>
    BY <1>0, <1>2, <1>3, <1>4, <2>1 DEF FromKnown
  <2>2. CASE pieces # <<>>
    BY <1>0, <1>2, <1>4, <2>2 DEF FromKnown
  <2>. QED BY <2>1, <2>2
<1>8. RcptsRead'
  BY <1>0, <1>2, <1>4 DEF RcptsRead
<1>9. ToKnown'
  <2>1. CASE to > 0
    BY <1>0, <1>2, <1>4, <2>1 DEF ToKnown
  <2>2. CASE ~(to > 0)
    <3> SUFFICES ASSUME NEW k \in 3 .. Len(pieces'), HeadUpTo(pieces', k) PROVE FALSE
      BY <1>2, <2>2 DEF ToKnown
    <3>1. k # Len(pieces) + 1
      BY <1>3, <1>4 DEF HeadUpTo
    <3>2. k \in 3 .. Len(pieces)
      BY <1>4, <3>1
    <3>3. pieces'[k] = pieces[k] /\ \A j \in 2 .. k - 1 : pieces'[j] = pieces[j]
      <4>1. k \in 1 .. Len(pieces) /\ 2 .. k - 1 \subseteq 1 .. Len(pieces)
        BY <3>2
      <4>. QED BY <1>4, <4>1
    <3>4. HeadUpTo(pieces, k)
      BY <3>3 DEF HeadUpTo
    <3>. QED BY <1>0, <2>2, <3>2, <3>4 DEF ToKnown
  <2>. QED BY <2>1, <2>2
<1>10. TextKnown'
  <2>1. to > 0 => Len(pieces') > to + 2
    BY <1>0, <1>4 DEF ToKnown
  <2>. QED BY <1>1, <1>2, <1>4, <1>5, <2>1 DEF TextKnown
<1>11. FileTypeOK'
  BY <1>1, <1>2, <1>3, <1>4, <1>5, FileAssumption
<1>. QED BY <1>0, <1>2, <1>6, <1>7, <1>8, <1>9, <1>10, <1>11
     DEF Stages, TextFits, ReadsWellFormed

\* read_mail_data: the end of the file
LEMMA EndOfTextKeeps ==
  ASSUME FileInv, EndOfText
  PROVE  FileInv'
<1> USE DEF FileInv, FileTypeOK
<1>0. stage = "data" /\ FromKnown /\ RcptsRead /\ ToKnown /\ TextKnown
  BY DEF EndOfText, Stages
<1>1. /\ stage' = "close" /\ ended' = TRUE
      /\ data' = (size # 0 /\ last = "dot")
      /\ UNCHANGED <<pieces, mails, from, to, rcpts, size, room, last>>
  BY DEF EndOfText, GetsNothing, textVars
<1>2. FromKnown' /\ RcptsRead' /\ ToKnown' /\ TextKnown'
  BY <1>0, <1>1 DEF FromKnown, RcptsRead, ToKnown, TextKnown, HeadUpTo
<1>3. data' \in BOOLEAN /\ (data' <=> size > 0 /\ last = "dot")
  <2>1. size # 0 <=> size > 0
    OBVIOUS
  <2>. QED BY <1>1, <2>1, Zenon
<1>4. Accepted' => WellFormed(pieces)
  <2> SUFFICES ASSUME Accepted' PROVE WellFormed(pieces)
    OBVIOUS
  <2>1. from /\ to > 0 /\ size > 0 /\ last = "dot"
    BY <1>1, <1>3 DEF Accepted
  <2>2. /\ to + 2 \in 3 .. Len(pieces) - 1
        /\ pieces[1].is = "mail_from"
        /\ pieces[Len(pieces)].is = "dot"
    BY <1>0, <2>1 DEF TextKnown, FromKnown
  <2>3. HeadUpTo(pieces, to + 2)
    <3>1. Len(rcpts) = to /\ pieces[to + 2].is = "data"
      BY <1>0, <2>1 DEF ToKnown
    <3>2. ASSUME NEW j \in 2 .. to + 1 PROVE pieces[j].is = "rcpt_to"
      <4>1. j - 1 \in DOMAIN rcpts
        BY <3>1
      <4>. QED BY <1>0, <4>1 DEF RcptsRead
    <3>. QED BY <3>1, <3>2 DEF HeadUpTo
  <2>. QED BY <2>2, <2>3 DEF WellFormed
<1>5. WellFormed(pieces) => Accepted'
  <2> SUFFICES ASSUME WellFormed(pieces) PROVE Accepted'
    OBVIOUS
  <2>1. PICK k \in 3 .. Len(pieces) - 1 :
          /\ pieces[1].is = "mail_from" /\ HeadUpTo(pieces, k)
          /\ pieces[Len(pieces)].is = "dot"
    BY DEF WellFormed
  <2>2. from /\ to > 0
    BY <1>0, <2>1 DEF FromKnown, ToKnown
  <2>3. k = to + 2
    <3>1. Len(rcpts) = to /\ to + 2 \in DOMAIN pieces /\ pieces[to + 2].is = "data"
      BY <1>0, <2>2 DEF ToKnown
    <3>2. ~(k < to + 2)
      <4> SUFFICES ASSUME k < to + 2 PROVE FALSE
        OBVIOUS
      <4>1. k - 1 \in DOMAIN rcpts
        BY <3>1
      <4>2. pieces[k].is = "rcpt_to"
        BY <1>0, <4>1 DEF RcptsRead
      <4>. QED BY <2>1, <4>2 DEF HeadUpTo
    <3>3. ~(k > to + 2)
      BY <2>1, <2>2, <3>1 DEF HeadUpTo
    <3>. QED BY <3>2, <3>3
  <2>4. size > 0 /\ last = "dot"
    BY <1>0, <2>1, <2>2, <2>3 DEF TextKnown
  <2>. QED BY <1>1, <1>3, <2>2, <2>4 DEF Accepted
<1>6. Accepted' =>
        /\ Len(rcpts) = to
        /\ \A j \in 1 .. to : rcpts[j] = pieces[j + 1].name
  <2>1. ASSUME to > 0
        PROVE  Len(rcpts) = to /\ \A j \in 1 .. to : rcpts[j] = pieces[j + 1].name
    <3>1. Len(rcpts) = to /\ DOMAIN rcpts = 1 .. to
      BY <1>0, <2>1 DEF ToKnown
    <3>. QED BY <1>0, <3>1 DEF RcptsRead
  <2>2. Accepted' => to > 0
    BY <1>1 DEF Accepted
  <2>. QED BY <1>1, <2>1, <2>2
<1>7. ReadsWellFormed'
  BY <1>1, <1>4, <1>5, <1>6 DEF ReadsWellFormed, WellFormed, HeadUpTo
<1>8. FileTypeOK'
  BY <1>1, <1>3
<1>. QED BY <1>1, <1>2, <1>3, <1>7, <1>8 DEF Stages, TextFits

\* read_mail_file: everything is as before the file.
LEMMA CloseFileKeeps ==
  ASSUME FileInv, CloseFile
  PROVE  FileInv'
<1> USE DEF FileInv, FileTypeOK
<1>1. mails' \in Seq(Seq(Name))
  BY Appended DEF CloseFile
<1>2. FileTypeOK'
  <2>1. /\ stage' = "closed" /\ ended' = FALSE /\ from' = FALSE /\ to' = 0
        /\ data' = FALSE /\ rcpts' = <<>> /\ size' = 0 /\ room' = BufSize
        /\ last' = "text" /\ pieces' = <<>>
    BY DEF CloseFile
  <2>2. <<>> \in Seq(Name) /\ <<>> \in Seq(Piece) /\ Len(<<>>) = 0
    OBVIOUS
  <2>3. to' \in 0 .. Len(rcpts') /\ size' \in Nat /\ room' \in Nat /\ Len(pieces') <= MaxPieces
    BY <2>1, <2>2, FileAssumption
  <2>. QED BY <1>1, <2>1, <2>2, <2>3
<1>. QED BY <1>2, FileAssumption
     DEF CloseFile, Stages, NothingYet, TextFits, ReadsWellFormed

\* Each step of read_mail_file keeps the invariant.
LEMMA ReadMailFileKeeps ==
  ASSUME FileInv, ReadMailFile
  PROVE  FileInv'
BY ReadFromKeeps, ReadRcptKeeps, ReadDataKeeps, ReadTextKeeps, EndOfTextKeeps,
   CloseFileKeeps DEF ReadMailFile
=============================================================================
