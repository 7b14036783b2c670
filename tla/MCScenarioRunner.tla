--------------------------- MODULE MCScenarioRunner ---------------------------
(* An instance of ScenarioRunner for TLC. *)
EXTENDS ScenarioRunner

Raw == [name |-> "", type |-> "raw", addr |-> "", timeout |-> "", response |-> "",
        code |-> "", hex |-> "good", flaws |-> {}]
Packet == [Raw EXCEPT !.type = "packet", !.hex = ""]
Fuzz == [Packet EXCEPT !.type = "fuzz"]
Challenge == [Packet EXCEPT !.type = "challenge"]

(* Scenarios that pass validate, and one for each thing it refuses. *)
Sound ==
    { [Raw EXCEPT !.response = "Timeout", !.addr = "B"], [Raw EXCEPT !.response = "Reject"],
      [Packet EXCEPT !.name = "plain"], [Packet EXCEPT !.response = "Access-Accept"],
      Fuzz, Challenge }
Late ==
    { [Raw EXCEPT !.hex = "bad"], [Raw EXCEPT !.flaws = {"too long"}, !.response = "Timeout"],
      [Packet EXCEPT !.timeout = "bad"], [Packet EXCEPT !.timeout = "none"],
      [Packet EXCEPT !.timeout = "none", !.response = "Timeout"],
      [Packet EXCEPT !.timeout = "none", !.response = "Timeout", !.flaws = {"too long"}],
      [Packet EXCEPT !.code = "unknown"], [Packet EXCEPT !.flaws = {"second auto MAC"}],
      [Packet EXCEPT !.addr = "nowhere", !.response = "Timeout"],
      [Fuzz EXCEPT !.flaws = {"bad hex value"}], [Fuzz EXCEPT !.flaws = {"bad fuzzlist"}],
      [Fuzz EXCEPT !.flaws = {"too long"}],
      [Challenge EXCEPT !.timeout = "none"], [Challenge EXCEPT !.flaws = {"second auto MAC"}] }
Refused ==
    { [Raw EXCEPT !.hex = ""], [Raw EXCEPT !.type = ""], [Raw EXCEPT !.type = "ping"],
      [Packet EXCEPT !.response = "unknown"], [Packet EXCEPT !.name = "plain"] }
    \cup { [Packet EXCEPT !.flaws = {f}] : f \in SeedFlaws }
    \cup { [Fuzz EXCEPT !.flaws = {f}] : f \in SeedFlaws \cup FuzzFlaws }
    \cup { [Challenge EXCEPT !.flaws = {f}] : f \in SeedFlaws \cup ChallengeFlaws }

File(addresses, list) == [addr : addresses, timeout : {""}, scenarios : list]
MCConfigs ==
    File({"A"}, {<<>>} \cup {<<s, t>> : s \in Sound, t \in Refused})
    \cup File({"", "A"}, {<<s, t>> : s \in Sound, t \in Late})
    \cup File({"A"}, {<<s, t, u>> : s, t \in Sound, u \in Sound})
MCReactions == {2, 3, Empty, Dropped, Crashed}
MCUnreadable == [addr |-> "", timeout |-> "", scenarios |-> <<Raw, Raw, Raw, Raw>>]
===============================================================================
