----------------------------- MODULE BatchStart -----------------------------
(***************************************************************************)
(* conn_init of protocol.c: the mail files are read (MailFile), the local  *)
(* recipients taken off the mails, the domains of the others collected,    *)
(* and for each of these a server is looked up and connected (MxLookup).   *)
(* What becomes of the files is in MailRun, the transfer in ConnLoop.      *)
(***************************************************************************)
EXTENDS MailFile, MxLookup, SequencesExt

CONSTANTS
  Local,    \* opts_my_domain()
  MaxFiles  \* bound of the files in NEW

ASSUME BatchAssumption ==
  /\ Name = Domain \cup {Local} /\ Local \notin Domain
  /\ MaxFiles \in Nat

VARIABLES
  phase,    \* where conn_init is
  files,    \* how many files were found
  m, r,     \* the cursors of the loop it is in
  accepted, \* history: the mails as they were read
  domains,  \* the set of domains, in order
  asked     \* how many of them create_connection was called for

cursors == <<m, r>>
domainVars == <<domains, asked>>
vars == <<phase, files, cursors, accepted, domainVars, fileVars, mxVars>>

-----------------------------------------------------------------------------
Init ==
  /\ FileInit /\ MxInit
  /\ phase = "read" /\ files = 0
  /\ m = 1 /\ r = 1
  /\ accepted = <<>> /\ domains = <<>> /\ asked = 0

MoreMails == m <= Len(mails)
MoreRcpts == r <= Len(mails[m])
FirstMail == m' = 1 /\ r' = 1
NextMail == m' = m + 1 /\ r' = 1
NextRcpt == r' = r + 1 /\ UNCHANGED m

-----------------------------------------------------------------------------
(* read_all_mail *)

FindFile ==
  /\ phase = "read" /\ files < MaxFiles
  /\ OpenFile
  /\ files' = files + 1
  /\ UNCHANGED <<phase, cursors, accepted, domainVars, mxVars>>

ReadFile ==
  /\ phase = "read"
  /\ ReadMailFile
  /\ UNCHANGED <<phase, files, cursors, accepted, domainVars, mxVars>>

NothingRead ==
  /\ phase = "read" /\ stage = "closed"
  /\ mails = <<>>
  /\ phase' = "failed"
  /\ UNCHANGED <<files, cursors, accepted, domainVars, fileVars, mxVars>>

AllRead ==
  /\ phase = "read" /\ stage = "closed"
  /\ mails # <<>>
  /\ phase' = "filter"
  /\ accepted' = mails
  /\ UNCHANGED <<files, cursors, domainVars, fileVars, mxVars>>

-----------------------------------------------------------------------------
(* filter_my_mail *)

FilterStep ==
  /\ phase = "filter" /\ MoreMails
  /\ UNCHANGED <<phase, files, accepted, domainVars, bufferVars, mxVars>>

\* mutant: the loop goes on from the place of what was removed
SkipsOne == NextRcpt

\* TAILQ_FOREACH_SAFE knows what came after it.
AfterRemoval == UNCHANGED cursors

RemoveLocal ==
  /\ FilterStep /\ MoreRcpts /\ mails[m][r] = Local
  /\ mails' = [mails EXCEPT ![m] = RemoveAt(@, r)]
  /\ AfterRemoval

KeepRemote ==
  /\ FilterStep /\ MoreRcpts /\ mails[m][r] # Local
  /\ NextRcpt
  /\ UNCHANGED mails

\* mutant: a mail for nobody stays in the list
LocalStays ==
  /\ FilterStep /\ ~MoreRcpts /\ mails[m] = <<>>
  /\ NextMail
  /\ UNCHANGED mails

\* No recipient is left: the mail leaves the list.
LocalOnly ==
  /\ FilterStep /\ ~MoreRcpts /\ mails[m] = <<>>
  /\ mails' = RemoveAt(mails, m)
  /\ r' = 1 /\ UNCHANGED m

RemoteToo ==
  /\ FilterStep /\ ~MoreRcpts /\ mails[m] # <<>>
  /\ NextMail
  /\ UNCHANGED mails

Filtered ==
  /\ phase = "filter" /\ ~MoreMails
  /\ phase' = "collect"
  /\ FirstMail
  /\ UNCHANGED <<files, accepted, domainVars, fileVars, mxVars>>

-----------------------------------------------------------------------------
(* conn_init *)

CollectStep ==
  /\ phase = "collect" /\ MoreMails
  /\ UNCHANGED <<phase, files, accepted, asked, fileVars, mxVars>>

\* mutant: only the domain added last is compared
AsTheLast(d) == domains # <<>> /\ Last(domains) = d

Exists(d) == Contains(domains, d)

DomainAdd ==
  /\ CollectStep /\ MoreRcpts
  /\ LET d == mails[m][r]
     IN  domains' = IF d = Local \/ Exists(d) THEN domains ELSE Append(domains, d)
  /\ NextRcpt

MailCollected ==
  /\ CollectStep /\ ~MoreRcpts
  /\ NextMail
  /\ UNCHANGED domains

DomainsCollected ==
  /\ phase = "collect" /\ ~MoreMails
  /\ phase' = "connect"
  /\ UNCHANGED <<files, cursors, accepted, domainVars, fileVars, mxVars>>

NextDomain ==
  /\ phase = "connect" /\ asked < Len(domains)
  /\ CreateConnection(domains[asked + 1])
  /\ asked' = asked + 1
  /\ UNCHANGED <<phase, files, cursors, accepted, domains, fileVars>>

ConnectMx ==
  /\ phase = "connect"
  /\ LookUp
  /\ UNCHANGED <<phase, files, cursors, accepted, domainVars, fileVars>>

InitDone ==
  /\ phase = "connect" /\ asked = Len(domains) /\ step = "idle"
  /\ phase' = "done"
  /\ UNCHANGED <<files, cursors, accepted, domainVars, fileVars, mxVars>>

-----------------------------------------------------------------------------
ReadAllMail == FindFile \/ ReadFile \/ NothingRead \/ AllRead
FilterMyMail == RemoveLocal \/ KeepRemote \/ LocalOnly \/ RemoteToo \/ Filtered
CollectDomains == DomainAdd \/ MailCollected \/ DomainsCollected
CreateConnections == NextDomain \/ ConnectMx \/ InitDone

Next == ReadAllMail \/ FilterMyMail \/ CollectDomains \/ CreateConnections

Spec == Init /\ [][Next]_vars

-----------------------------------------------------------------------------
(* Properties *)

\* The values the variables range over.
TypeOK ==
  /\ FileTypeOK /\ MxTypeOK
  /\ phase \in {"read", "filter", "collect", "connect", "done", "failed"}
  /\ files \in 0 .. MaxFiles
  /\ m \in Nat \ {0} /\ r \in Nat \ {0}
  /\ accepted \in Seq(Seq(Name))
  /\ domains \in Seq(Domain)
  /\ asked \in 0 .. Len(domains)

RcptDomains(ms) ==
  {d \in Name : \E k \in DOMAIN ms : \E j \in DOMAIN ms[k] : ms[k][j] = d}

\* create_connection walks the mails and then the recipients of one, without a
\* look at the end of either list: when it runs, for the domain it runs for,
\* there is a mail with a recipient there.  Besides, a server is sought for
\* every domain somebody was to get mail at, once, and for no other.
DomainsOfMails ==
  phase \in {"connect", "done"} =>
    /\ ToSet(domains) = RcptDomains(accepted) \ {Local}
    /\ ToSet(domains) = RcptDomains(mails)
    /\ IsInjective(domains)

\* What has come of a list at each of its places, when the elements of S are
\* passed over
Rest(s, S) ==
  LET rest[j \in 0 .. Len(s)] ==
        IF j = 0 THEN <<>>
        ELSE IF s[j] \in S THEN rest[j - 1] ELSE Append(rest[j - 1], s[j])
  IN  rest

Without(s, S) == Rest(s, S)[Len(s)]

Others(mail) == Without(mail, {Local})

ForOthers(ms) == Without([k \in DOMAIN ms |-> Others(ms[k])], {<<>>})

\* filter_my_mail takes out of two lists while it walks them: what is left are
\* the mails as they were read, in order, with the recipients elsewhere, in
\* order, and none that is for nobody.  This is what the transfer takes for
\* granted (BatchAssumption of ClientFsm).
OthersOnly ==
  phase \in {"collect", "connect", "done"} => mails = ForOthers(accepted)

-----------------------------------------------------------------------------
(* The inductive invariant *)

\* The loops are within the lists.
CursorsOK ==
  /\ m \in 1 .. Len(mails) + 1
  /\ m <= Len(mails) => r \in 1 .. Len(mails[m]) + 1

\* The loop over the recipients has been at mail k, recipient j.
Visited(k, j) == k < m \/ (k = m /\ j < r)

\* filter_my_mail takes off nothing but local recipients ...
RemoteKept == RcptDomains(mails) \ {Local} = RcptDomains(accepted) \ {Local}

\* ... and leaves none where it has been.
LocalGone ==
  \A k \in DOMAIN mails : \A j \in DOMAIN mails[k] : Visited(k, j) => mails[k][j] # Local

NoLocal == \A k \in DOMAIN mails : \A j \in DOMAIN mails[k] : mails[k][j] # Local

\* What is to come out is the same after every removal, and no mail for nobody
\* is left where the loop has been.
ForOthersKept ==
  /\ ForOthers(mails) = ForOthers(accepted)
  /\ \A k \in DOMAIN mails : k < m => mails[k] # <<>>

VisitedDomains ==
  {d \in Name : \E k \in DOMAIN mails : \E j \in DOMAIN mails[k] :
                  Visited(k, j) /\ mails[k][j] = d}

\* The domains that are through with create_connection
Through == IF step = "idle" THEN asked ELSE asked - 1

\* No domain has two connections, as ConnLoop takes it.  A server may have:
\* see OneSocketPerMx.
OnePerDomain ==
  \A k \in DOMAIN conns : \A j \in 1 .. k - 1 : conns[j].dom # conns[k].dom

Phases ==
  /\ phase # "connect" => step = "idle"
  /\ phase \in {"read", "failed"} => m = 1 /\ r = 1
  /\ phase \in {"read", "filter", "failed"} => domains = <<>>
  /\ phase = "filter" => CursorsOK /\ RemoteKept /\ LocalGone /\ ForOthersKept
  /\ phase = "collect" =>
       /\ CursorsOK /\ RemoteKept /\ NoLocal
       /\ ToSet(domains) = VisitedDomains /\ IsInjective(domains)
  /\ phase \notin {"connect", "done"} => asked = 0

Asked ==
  /\ step # "idle" => asked > 0 /\ dom = domains[asked]
  /\ \A k \in DOMAIN conns : \E j \in 1 .. Through : domains[j] = conns[k].dom

\* Inductive: what the loops have done as far as their cursors, and that no
\* connection is to a domain not yet through.
IInv ==
  /\ TypeOK /\ FileInv /\ MxInv
  /\ DomainsOfMails /\ OthersOnly
  /\ Phases /\ Asked /\ OnePerDomain
=============================================================================
