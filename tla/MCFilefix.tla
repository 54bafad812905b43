----------------------------- MODULE MCFilefix ------------------------------
(* Filefix with two groups, two levels, and mails of each kind. *)
EXTENDS Filefix

CONSTANTS g1, g2

Plain(text) == [text |-> text, indented |-> FALSE]
Indented(text) == [text |-> text, indented |-> TRUE]

FromLink(lines) ==
  [from |-> "link", dest |-> "our", robot |-> TRUE, password |-> TRUE, lines |-> lines]

MCMails ==
  LET on == FromLink(<<Plain("plusArea"), Plain("percent"), Plain("resend")>>)
      off == FromLink(<<Plain("minusArea"), Indented("area"), Plain("pause")>>)
      ask == FromLink(<<Plain("query"), Plain("resume"), Plain("info")>>)
  IN  {on, off, ask,
       [ask EXCEPT !.password = FALSE],
       [on EXCEPT !.from = "unknown", !.dest = "away"],
       [off EXCEPT !.dest = "aka"],
       [off EXCEPT !.robot = FALSE]}

Robot(b, k, s, m) ==
  [sysop |-> FALSE, base |-> b, kill |-> k, stripFirst |-> s, manual |-> m]

MCSetups ==
  {[Robot("msg", FALSE, FALSE, FALSE) EXCEPT !.sysop = TRUE],
   Robot("msg", FALSE, FALSE, FALSE),
   Robot("msg", TRUE, TRUE, TRUE),
   Robot("squish", TRUE, FALSE, FALSE)}
=============================================================================
