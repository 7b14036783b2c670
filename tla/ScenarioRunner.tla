----------------------------- MODULE ScenarioRunner -----------------------------
(***************************************************************************)
(* A run of the v2 RADIUS client over a YAML file of scenarios: main,      *)
(* loadConfig and validate (src/RADIUS/client/v2/main.go, config.go),      *)
(* runScenarios and runScenario (scenario.go), and the two types that send *)
(* one packet, "raw" (raw.go) and "packet" (packet.go).                    *)
(*                                                                         *)
(* The packets travel over UDP to servers that may drop them, answer them, *)
(* or go down; packets and answers may be lost or late.  A scenario has a  *)
(* socket of its own.  Scenarios of the types "fuzz" and "challenge" have  *)
(* modules of their own, FuzzScenario and ChallengeClient; here they run   *)
(* in one step, to one of the ends those modules have.                     *)
(***************************************************************************)
EXTENDS Integers, Sequences, FiniteSets

CONSTANTS
    Configs,        \* the files that may be given
    Unreadable,     \* a file that cannot be read, or is not YAML
    Overrides,      \* what -addr may be, "" when it is not given
    Unresolvable,   \* addresses that cannot be dialled
    Reactions       \* what a live server may do with a packet

(* What is wrong with a scenario apart from its other fields. *)
SeedFlaws == {"no attrs", "bad id", "bad authenticator", "untyped attr", "bad length"}
FuzzFlaws == {"no iterations", "negative healthcheck_every", "unknown strategy", "unknown target",
              "absent target", "timeout baseline", "unknown baseline", "no fuzzlist"}
ChallengeFlaws == {"no range", "bad range", "no max_attempts", "bad order", "bad delay",
                   "unknown check"}
(* Of no interest to validate: buildPacketFromSpec refuses the first, and  *)
(* loadFuzzList a list that can be found and not read, or that is blank; a *)
(* datagram can be longer than the socket takes.                           *)
EncodeFlaws == {"unknown attr", "bad hex value", "second auto MAC"}
LateFlaws == EncodeFlaws \cup {"bad fuzzlist", "too long"}

(* resolveRadiusCode; tokens outside of this function are not codes.       *)
CodeOf == [t \in {"Access-Request", "Access-Accept", "Accept", "Access-Reject", "Reject",
                  "Access-Challenge", "Challenge", "2", "3"} |->
            CASE t = "Access-Request" -> 1
              [] t \in {"Access-Accept", "Accept", "2"} -> 2
              [] t \in {"Access-Reject", "Reject", "3"} -> 3
              [] t \in {"Access-Challenge", "Challenge"} -> 11]
Resolves(token) == token = "" \/ token \in DOMAIN CodeOf

Timeout == {"", "long", "none", "bad"}     \* "none" is zero or negative
Scenario == [name : STRING, type : STRING, addr : STRING, timeout : Timeout,
             response : STRING, code : STRING,
             hex : {"", "good", "bad"},
             flaws : SUBSET (SeedFlaws \cup FuzzFlaws \cup ChallengeFlaws \cup LateFlaws)]

Config == [addr : STRING, timeout : Timeout, scenarios : Seq(Scenario)]

Empty == -1         \* a datagram without a byte
Dropped == -2
Crashed == -3
Unserved == -4      \* history: no server has taken the packet

ASSUME RunnerAssumption ==
    /\ Configs \subseteq Config
    /\ Unreadable \notin Configs
    /\ Reactions \subseteq (0 .. 255) \cup {Empty, Dropped, Crashed}

VARIABLES
    cfg, addrOverride,
    rpc,        \* "load", "scenario", "await" or "ended"
    k,          \* the scenario that is run
    inflight,   \* packets under way
    replies,    \* answers under way
    up,         \* the addresses with a live server
    verdicts,   \* for each scenario that was run, whether it was logged OK
    failed,     \* how many have failed
    exit,       \* status of the process, -1 while it runs
    sent,       \* history: the scenarios that have sent a packet
    reacted,    \* history: what the server has done with the packet of each
    mishap      \* history: the scenarios whose packet or answer was lost or late

net == <<inflight, replies, up>>
history == <<sent, reacted, mishap>>
vars == <<cfg, addrOverride, rpc, k, net, verdicts, failed, exit, history>>

-------------------------------------------------------------------------------
(* loadConfig and validate *)

IsTimeout(response) == response = "Timeout"

Checked(type) ==
    CASE type = "packet" -> SeedFlaws
      [] type = "fuzz" -> SeedFlaws \cup FuzzFlaws
      [] type = "challenge" -> SeedFlaws \cup ChallengeFlaws
      [] OTHER -> {}

ValidScenario(sc) ==
    /\ Resolves(sc.response) \/ IsTimeout(sc.response)
    /\ sc.type \in {"raw", "packet", "fuzz", "challenge"}
    /\ sc.type = "raw" => sc.hex # ""
    /\ sc.flaws \cap Checked(sc.type) = {}

validate(c) ==
    /\ c.scenarios # <<>>
    /\ \A m, n \in DOMAIN c.scenarios :
         m # n /\ c.scenarios[m].name # "" => c.scenarios[m].name # c.scenarios[n].name
    /\ \A n \in DOMAIN c.scenarios : ValidScenario(c.scenarios[n])

Init ==
    /\ cfg \in Configs \cup {Unreadable} /\ addrOverride \in Overrides
    /\ rpc = "load" /\ k = 1 /\ verdicts = <<>> /\ failed = 0 /\ exit = -1
    /\ inflight = {} /\ replies = {}
    /\ up = {"A", "B"}
    /\ sent = {} /\ reacted = <<>> /\ mishap = {}

Exit(status) == rpc' = "ended" /\ exit' = status

(* log.Fatalf before anything is sent, or on to the first scenario *)
Load ==
    /\ rpc = "load"
    /\ IF cfg = Unreadable THEN Exit(1)
       ELSE IF ~validate(cfg) THEN Exit(1)
       ELSE rpc' = "scenario" /\ UNCHANGED exit
    /\ reacted' = IF cfg = Unreadable THEN <<>> ELSE [n \in DOMAIN cfg.scenarios |-> Unserved]
    /\ UNCHANGED <<cfg, addrOverride, k, net, verdicts, failed, sent, mishap>>

-------------------------------------------------------------------------------
(* runScenarios, runScenario *)

sc == cfg.scenarios[k]
firstNonEmpty(a, b) == IF a # "" THEN a ELSE b

(* resolveScenario: the settings of this scenario, or an error.  The       *)
(* address is asked for before -addr takes its place.                      *)
addr == firstNonEmpty(sc.addr, cfg.addr)
timeout == firstNonEmpty(sc.timeout, cfg.timeout)
resolved == timeout # "bad" /\ addr # ""
target == IF addrOverride # "" THEN addrOverride ELSE addr

JudgeStopping(ok) ==                                             \* faulty
    /\ verdicts' = Append(verdicts, ok)
    /\ failed' = IF ok THEN failed ELSE failed + 1
    /\ IF ok THEN rpc' = "scenario" /\ k' = k + 1 /\ UNCHANGED exit
       ELSE Exit(1) /\ UNCHANGED k
    /\ UNCHANGED <<cfg, addrOverride>>
Judge(ok) ==
    /\ verdicts' = Append(verdicts, ok)
    /\ failed' = IF ok THEN failed ELSE failed + 1
    /\ rpc' = "scenario" /\ k' = k + 1
    /\ UNCHANGED <<cfg, addrOverride, exit>>

AtScenario(types) == rpc = "scenario" /\ k <= Len(cfg.scenarios) /\ sc.type \in types

(* The bytes to send: hex.DecodeString for raw, resolveRadiusCode and      *)
(* buildPacketFromSpec for the others.  An id and a length out of range    *)
(* would be truncated to a byte.                                           *)
encodes ==
    IF sc.type = "raw" THEN sc.hex = "good"
    ELSE Resolves(sc.code)
         /\ sc.flaws \cap (EncodeFlaws \cup {"bad authenticator", "untyped attr"}) = {}

loads == sc.type = "fuzz" => sc.flaws \cap {"no fuzzlist", "bad fuzzlist"} = {}

(* What keeps sendRawUDP from sending the bytes: a timeout of none has     *)
(* passed before they are written.                                         *)
sendError ==
    IF target \in Unresolvable THEN "address"
    ELSE IF timeout = "none" THEN "timeout"
    ELSE IF "too long" \in sc.flaws THEN "too long" ELSE "none"

(* Whether a scenario of one packet is content with an error of            *)
(* sendRawUDP: isTimeoutResponse and isNetTimeout.                         *)
ContentWithAny(error) == IsTimeout(sc.response)                  \* faulty
ContentWith(error) == IsTimeout(sc.response) /\ error = "timeout"

StartOne ==
    /\ AtScenario({"raw", "packet"})
    /\ IF ~resolved \/ ~encodes THEN Judge(FALSE) /\ UNCHANGED <<net, history>>
       ELSE IF sendError # "none" THEN Judge(ContentWith(sendError)) /\ UNCHANGED <<net, history>>
       ELSE /\ rpc' = "await"
            /\ inflight' = inflight \cup {[n |-> k, to |-> target]}
            /\ sent' = sent \cup {k}
            /\ UNCHANGED <<cfg, addrOverride, k, replies, up, verdicts, failed, exit, reacted,
                           mishap>>

(* What the scenario makes of a datagram, by its first byte. *)
Accepts(response, got) ==
    IF IsTimeout(response) THEN FALSE
    ELSE IF got = Empty THEN response = ""
    ELSE response = "" \/ CodeOf[response] = got

ReceiveAny ==                                                    \* faulty
    /\ rpc = "await"
    /\ \E r \in replies : replies' = replies \ {r} /\ Judge(Accepts(sc.response, r.code))
    /\ UNCHANGED <<inflight, up, history>>
Receive ==
    /\ rpc = "await"
    /\ \E r \in replies :
        /\ r.n = k
        /\ replies' = replies \ {r} /\ Judge(Accepts(sc.response, r.code))
    /\ UNCHANGED <<inflight, up, history>>

(* The deadline passes: too early, if there is an answer still to come.    *)
ReadTimesOut ==
    /\ rpc = "await"
    /\ Judge(ContentWith("timeout"))
    /\ mishap' = IF \E d \in inflight : d.n = k /\ d.to \in up THEN mishap \cup {k}
                 ELSE IF \E r \in replies : r.n = k THEN mishap \cup {k} ELSE mishap
    /\ UNCHANGED <<net, sent, reacted>>

(* Nothing listens at the address, and the kernel has been told. *)
ConnectionRefused ==
    /\ rpc = "await"
    /\ \E d \in inflight : d.n = k /\ d.to \notin up /\ inflight' = inflight \ {d}
    /\ Judge(ContentWith("refused"))
    /\ UNCHANGED <<replies, up, history>>

(* runFuzzScenario and runChallengeScenario: an error before the first     *)
(* packet, or a run to one of their ends.  A fuzz scenario is ok only with *)
(* a server that answers to the last, a challenge scenario with one that   *)
(* has answered; both may panic on an answer without a byte.               *)
StartMany ==
    /\ AtScenario({"fuzz", "challenge"})
    /\ IF ~resolved \/ ~encodes \/ ~loads \/ sendError # "none"
       THEN Judge(FALSE) /\ UNCHANGED <<net, history>>
       ELSE /\ sent' = sent \cup {k}
            /\ up' \in {up, up \ {target}}
            /\ \/ Judge(FALSE)
               \/ target \in up /\ (sc.type = "fuzz" => target \in up') /\ Judge(TRUE)
               \/ target \in up /\ Exit(2) /\ UNCHANGED <<cfg, addrOverride, k, verdicts, failed>>
            /\ UNCHANGED <<inflight, replies, reacted, mishap>>

(* [summary], and the exit status *)
Summary ==
    /\ rpc = "scenario" /\ k > Len(cfg.scenarios)
    /\ Exit(IF failed > 0 THEN 1 ELSE 0)
    /\ UNCHANGED <<cfg, addrOverride, k, net, verdicts, failed, history>>

-------------------------------------------------------------------------------
(* The servers and the network.  A server may come to a packet when its    *)
(* scenario is long over; its answer then finds a closed socket.           *)

Serve ==
    /\ \E d \in inflight, reaction \in Reactions :
        /\ d.to \in up
        /\ inflight' = inflight \ {d}
        /\ reacted' = [reacted EXCEPT ![d.n] = reaction]
        /\ replies' = IF reaction \in {Dropped, Crashed} THEN replies
                      ELSE replies \cup {[n |-> d.n, code |-> reaction]}
        /\ up' = IF reaction = Crashed THEN up \ {d.to} ELSE up
    /\ UNCHANGED <<cfg, addrOverride, rpc, k, verdicts, failed, exit, sent, mishap>>

Lose ==
    /\ \/ \E d \in inflight : inflight' = inflight \ {d} /\ UNCHANGED replies
                              /\ mishap' = mishap \cup {d.n}
       \/ \E r \in replies : replies' = replies \ {r} /\ UNCHANGED inflight
                              /\ mishap' = mishap \cup {r.n}
    /\ UNCHANGED <<cfg, addrOverride, rpc, k, up, verdicts, failed, exit, sent, reacted>>

Next ==
    \/ Load \/ StartOne \/ Receive \/ ReadTimesOut \/ ConnectionRefused \/ StartMany \/ Summary
    \/ rpc # "ended" /\ (Serve \/ Lose)
    \/ rpc = "ended" /\ UNCHANGED vars

Spec == Init /\ [][Next]_vars

-------------------------------------------------------------------------------
(* The verdict on a scenario of one packet is about the server: with no    *)
(* mishap on the way it is ok exactly when the server did with its own     *)
(* packet what response asks for.  After a mishap, or with nobody there,   *)
(* the only scenario that can still be ok is one that asserts silence      *)
(* (response: Timeout), which a lost or late answer also makes true.       *)
Meets(response, reaction) ==
    IF response = "Timeout" THEN reaction \in {Dropped, Crashed}
    ELSE IF response = "" THEN reaction \notin {Dropped, Crashed}
    ELSE reaction = CodeOf[response]
VerdictExplained ==
    \A n \in DOMAIN verdicts \cap sent :
        LET s == cfg.scenarios[n]
        IN  s.type \in {"raw", "packet"} =>
                IF n \in mishap \/ reacted[n] = Unserved THEN verdicts[n] => s.response = "Timeout"
                ELSE verdicts[n] <=> Meets(s.response, reacted[n])

(* A flaw stops what it should and no more.  A scenario that one of        *)
(* validate's checks is about stops the whole file before a packet.  One   *)
(* with a flaw that is left to the run sends nothing and fails, whatever   *)
(* it expects of the server; and nothing else fails without a packet, but  *)
(* a scenario whose timeout leaves no time: that one is not at fault, and  *)
(* passes when it asserts silence.                                         *)
LeftToTheRun(s) ==
    \/ firstNonEmpty(s.timeout, cfg.timeout) = "bad"
    \/ firstNonEmpty(s.addr, cfg.addr) = ""
    \/ (IF addrOverride # "" THEN addrOverride ELSE firstNonEmpty(s.addr, cfg.addr))
        \in Unresolvable
    \/ IF s.type = "raw" THEN s.hex = "bad"
       ELSE ~Resolves(s.code) \/ s.flaws \cap EncodeFlaws # {}
    \/ s.type = "fuzz" /\ "bad fuzzlist" \in s.flaws
NoTime(s) == firstNonEmpty(s.timeout, cfg.timeout) = "none"
TooLong(s) == "too long" \in s.flaws
FlawsStopped ==
    /\ sent # {} =>
        \A n \in DOMAIN cfg.scenarios :
            LET s == cfg.scenarios[n]
            IN  /\ s.type # "raw" => s.flaws \cap SeedFlaws = {}
                /\ s.type = "fuzz" => s.flaws \cap FuzzFlaws = {}
                /\ s.type = "challenge" => s.flaws \cap ChallengeFlaws = {}
    /\ \A n \in sent : LET s == cfg.scenarios[n]
                       IN  ~LeftToTheRun(s) /\ ~NoTime(s) /\ ~TooLong(s)
    /\ \A n \in DOMAIN verdicts \ sent :
         LET s == cfg.scenarios[n]
         IN  IF LeftToTheRun(s) THEN ~verdicts[n]
             ELSE IF NoTime(s)
             THEN verdicts[n] <=> s.type \in {"raw", "packet"} /\ s.response = "Timeout"
             ELSE TooLong(s) /\ ~verdicts[n]

(* The exit status tells the whole run: 0 when every scenario of the file  *)
(* was judged and passed, 1 when every one was judged and one has failed,  *)
(* or when the file was refused before a packet was sent; anything else is *)
(* a panic in a scenario that sends many packets, which leaves the rest of *)
(* the file without a verdict.                                             *)
ExitTells ==
    rpc = "ended" =>
        IF verdicts = <<>> /\ exit = 1 THEN sent = {}
        ELSE IF exit = 2 THEN Len(verdicts) < Len(cfg.scenarios)
        ELSE /\ Len(verdicts) = Len(cfg.scenarios)
             /\ exit = 0 <=> \A n \in DOMAIN verdicts : verdicts[n]
===============================================================================
