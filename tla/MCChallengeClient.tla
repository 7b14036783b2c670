--------------------------- MODULE MCChallengeClient ---------------------------
(* The challenge scenario against a server that answers anything: one      *)
(* answer for every way the client treats an answer.                       *)
EXTENDS ChallengeClient

CONSTANTS s1, s2

Msg(code, parses, state, text) ==
    [kind |-> "message", code |-> code, parses |-> parses, state |-> state, text |-> text]

WellBehaved ==
    { [kind |-> "timeout"], [kind |-> "neterr"],
      Msg(2, TRUE, NoState, ""), Msg(3, TRUE, NoState, ""), Msg(3, TRUE, s2, "late"),
      Msg(11, TRUE, s1, ""), Msg(11, TRUE, s2, ""), Msg(11, FALSE, s1, ""),
      Msg(11, TRUE, NoState, ""), Msg(11, TRUE, EmptyState, "") }

WithEmptyDatagram == WellBehaved \cup {[kind |-> "empty"]}

OneCheck == <<"foreign">>
TwoChecks == <<"foreign", "truncate">>
===============================================================================
