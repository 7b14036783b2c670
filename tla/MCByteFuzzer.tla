----------------------------- MODULE MCByteFuzzer -----------------------------
(* An instance of ByteFuzzer for TLC. *)
EXTENDS ByteFuzzer

Str == [type |-> 5, kind |-> "str", size |-> 3, bad |-> FALSE, len |-> -1]
Specs ==
    { <<>>, <<Str>>, <<[Str EXCEPT !.len = 45], Str>>, <<[Str EXCEPT !.len = -7], Str>>,
      <<[Str EXCEPT !.len = 1], Str>>, <<[Str EXCEPT !.size = 39], Str>>,
      <<[Str EXCEPT !.kind = "int"], [Str EXCEPT !.kind = "hex", !.size = 0]>>,
      <<Str, [Str EXCEPT !.kind = "pwd", !.size = 17, !.len = 6]>>,
      <<[Str EXCEPT !.kind = "pwd", !.size = 129]>>,
      <<[Str EXCEPT !.type = -1]>>, <<[Str EXCEPT !.bad = TRUE]>>, <<[Str EXCEPT !.kind = "odd"]>> }

Pap == [mode |-> "pap", expect |-> "accept", code |-> 1, id |-> -1, attrs |-> <<>>,
        username |-> 3, password |-> 5, secret |-> 6, fuzzBase |-> "pap", iterations |-> 2]
MCCommands ==
    { [Pap EXCEPT !.expect = e] : e \in {"accept", "any", "Access-Request"} }
    \cup { [Pap EXCEPT !.mode = "raw", !.attrs = s, !.id = 41] : s \in Specs }
    \cup { [Pap EXCEPT !.mode = "fuzz", !.iterations = n] : n \in {-1, 2} }
    \cup { [Pap EXCEPT !.mode = "fuzz", !.fuzzBase = "attrs", !.attrs = s] : s \in Specs }
    \cup { [Pap EXCEPT !.mode = "fuzz", !.fuzzBase = "odd"], [Pap EXCEPT !.mode = "odd"],
           [Pap EXCEPT !.mode = "raw", !.code = -1], [Pap EXCEPT !.password = 129],
           [Pap EXCEPT !.mode = "fuzz", !.secret = 0] }

MCResponses == [kind : {"error", "empty"}] \cup [kind : {"packet"}, code : {1, 2, 3, 11, 12}]
===============================================================================
