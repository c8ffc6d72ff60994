------------------------------- MODULE Regexp -------------------------------
(***************************************************************************)
(* The patterns of regexp.c, for the lines of mail files and the records   *)
(* of DNS answers.  A line is reduced to its kind.  All patterns but those *)
(* for MX records are anchored at the beginning and take the end of the    *)
(* line, so that a piece of a longer line is no match: it is "text".  Of   *)
(* a reply the sessions see the pattern only (ReplyCode of ClientFsm).     *)
(***************************************************************************)

\* "dot" is the line of one dot, "rr" any DNS record that is no MX record.
LineKind == {"mail_from", "rcpt_to", "data", "dot", "text", "mx", "rr"}

\* The patterns that match a line of a kind
Patterns(kind) ==
  CASE kind = "mail_from" -> {"RE_mail_from"}
    [] kind = "rcpt_to"   -> {"RE_rcpt_to", "RE_rcpt_domain"}
    [] kind = "data"      -> {"RE_data"}
    [] kind = "mx"        -> {"RE_mx_dns", "RE_mx_dns_prio"}
    [] OTHER              -> {}

\* re_match and the functions that fill in a substring
ReMatch(re, kind) == re \in Patterns(kind)
=============================================================================
