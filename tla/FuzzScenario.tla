------------------------------ MODULE FuzzScenario ------------------------------
(***************************************************************************)
(* A scenario of type "fuzz" of the v2 RADIUS client: runFuzzScenario,     *)
(* src/RADIUS/client/v2/fuzz.go, against a server that answers or drops    *)
(* what it is sent and may go down at any moment.                          *)
(*                                                                         *)
(* The run sends mutations of a seed packet, one per iteration, taking the *)
(* strategies in turn, and the unmutated seed as a health check before,    *)
(* after, and every healthcheck_every iterations.  The packet length and   *)
(* the bytes of a packet are left out; a packet is the attributes of       *)
(* AttrSpecs.                                                              *)
(***************************************************************************)
EXTENDS AttrSpecs

CONSTANTS
    Seed,               \* attrs of the file, the seed packet
    Strategies,         \* strategies, a sequence of [strategy, target]
    FuzzList,           \* the lines of fuzzlist, <<>> without one
    Iterations, HealthcheckEvery, ExpectNoAccept,
    PacketAnswers       \* what the live server does with a mutated packet

(* What validate (config.go) lets through, with a seed packet that builds. *)
validated ==
    /\ Seed \in Seq(Attr) /\ Seed # <<>> /\ Builds(Seed)
    /\ Strategies \in Seq([strategy : Strategy, target : Type \cup {NoTarget}])
    /\ Strategies # <<>>
    /\ \A k \in DOMAIN Strategies : Strategies[k].strategy \in Targetable =>
         \/ Strategies[k].target = NoTarget
         \/ \E l \in DOMAIN Seed : Seed[l].type = Strategies[k].target
    /\ FuzzList \in Seq(Line)
    /\ Iterations \in Nat \ {0} /\ HealthcheckEvery \in Nat
    /\ PacketAnswers \subseteq {"accept", "other", "timeout", "empty"}
ASSUME ScenarioAssumption == validated

VARIABLES
    fpc,        \* "baseline", "mutate", "await", "health", "final", "ended" or "panic"
    i,          \* the loop variable
    scAttrs,    \* sc.Attrs, from which every iteration starts
    fuzzListIdx,
    mutated,    \* the attributes of this iteration's packet
    findings,
    result,     \* what the scenario returned, "running" before
    server,     \* "up" or "down"
    sinceCheck, \* history: iterations since the last health check was passed
    accepted    \* history: some mutated packet got an Access-Accept

fvars ==
    <<fpc, i, scAttrs, fuzzListIdx, mutated, findings, result, server, sinceCheck, accepted>>

-------------------------------------------------------------------------------
everyFixed == 20                                                  \* faulty
every == IF HealthcheckEvery = 0 THEN 20 ELSE HealthcheckEvery

StrategyAt(j) == Strategies[(j % Len(Strategies)) + 1]
spec == StrategyAt(i)

(* A server that is down does not answer; the kernel may know that nothing *)
(* listens.  A live one can lose the seed, or stop to answer it as before. *)
SeedOutcomes == IF server = "up" THEN {"baseline", "other", "timeout"} ELSE {"timeout", "neterr"}
PacketOutcomes == IF server = "up" THEN PacketAnswers ELSE {"timeout", "neterr"}

FInit ==
    /\ fpc = "baseline" /\ i = 0 /\ scAttrs = Seed /\ fuzzListIdx = 0 /\ mutated = <<>>
    /\ findings = 0 /\ result = "running"
    /\ server = "up" /\ sinceCheck = 0 /\ accepted = FALSE

Return(r) == fpc' = "ended" /\ result' = r

(* checkHealth, before the loop, within it, and after it *)
CheckHealth(at, next, failure) ==
    /\ fpc = at
    /\ \E outcome \in SeedOutcomes :
        IF outcome = "baseline"
        THEN next /\ sinceCheck' = 0
        ELSE Return(failure) /\ UNCHANGED <<i, sinceCheck>>
    /\ UNCHANGED <<scAttrs, fuzzListIdx, mutated, findings, server, accepted>>

Baseline == CheckHealth("baseline", fpc' = "mutate" /\ UNCHANGED <<i, result>>, "baseline failed")
PeriodicCheck ==
    CheckHealth("health", fpc' = "mutate" /\ i' = i + 1 /\ UNCHANGED result, "degraded")
FinalCheckForgotten ==                                            \* faulty
    /\ fpc = "final"
    /\ Return(IF findings > 0 THEN "findings" ELSE "ok")
    /\ UNCHANGED <<i, scAttrs, fuzzListIdx, mutated, findings, server, sinceCheck, accepted>>
FinalCheck ==
    CheckHealth("final", Return(IF findings > 0 THEN "findings" ELSE "ok") /\ UNCHANGED i,
                "degraded")

(* The strategy whose turn it is mutates a copy of the attributes, which   *)
(* cloneAttrs makes; without the copy what mutators write in place stays.  *)
(* marked_range takes the next line, if there is a list and a marker.      *)
TakesLine == spec.strategy = "marked_range" /\ FuzzList # <<>> /\ Marked(scAttrs) # {}
MutateByLine(n) ==
    /\ fpc = "mutate" /\ i < Iterations
    /\ IF TakesLine
       THEN /\ mutated' \in MarkedRange(scAttrs, FuzzList[(n % Len(FuzzList)) + 1])
            /\ fuzzListIdx' = n + 1
       ELSE /\ mutated' \in IF spec.strategy = "marked_range" THEN {scAttrs}
                            ELSE Mutations(spec.strategy, scAttrs, spec.target)
            /\ UNCHANGED fuzzListIdx
    /\ sinceCheck' = sinceCheck + 1
    \* a packet that does not build is logged and the iteration ends there
    /\ IF Builds(mutated') THEN fpc' = "await" /\ UNCHANGED i ELSE i' = i + 1 /\ UNCHANGED fpc
    /\ UNCHANGED <<findings, result, server, accepted>>
MutateFromIteration ==                                            \* faulty
    MutateByLine(i) /\ UNCHANGED scAttrs
MutateUncloned ==                                                 \* faulty
    /\ MutateByLine(fuzzListIdx)
    /\ scAttrs' = IF Len(mutated') = Len(scAttrs) THEN mutated' ELSE scAttrs
Mutate == MutateByLine(fuzzListIdx) /\ UNCHANGED scAttrs

(* The end of an iteration that sent its packet. *)
NextIteration ==
    IF (i + 1) % every = 0 THEN fpc' = "health" /\ UNCHANGED i ELSE fpc' = "mutate" /\ i' = i + 1

Send ==
    /\ fpc = "await"
    /\ \E outcome \in PacketOutcomes :
        \/ /\ outcome = "neterr"
           /\ Return("unreachable")
           /\ UNCHANGED <<i, findings, accepted>>
        \/ /\ outcome = "empty"         \* resp[0]: index out of range
           /\ fpc' = "panic"
           /\ UNCHANGED <<i, findings, result, accepted>>
        \/ /\ outcome \in {"accept", "other", "timeout"}
           /\ accepted' = (accepted \/ outcome = "accept")
           /\ findings' = IF outcome = "accept" /\ ExpectNoAccept THEN findings + 1 ELSE findings
           /\ NextIteration
           /\ UNCHANGED result
    /\ UNCHANGED <<scAttrs, fuzzListIdx, mutated, server, sinceCheck>>

LoopDone ==
    /\ fpc = "mutate" /\ i >= Iterations
    /\ fpc' = "final"
    /\ UNCHANGED <<i, scAttrs, fuzzListIdx, mutated, findings, result, server, sinceCheck,
                   accepted>>

(* The server goes down, while the run lasts. *)
Crash ==
    /\ server = "up" /\ fpc \notin {"ended", "panic"}
    /\ server' = "down"
    /\ UNCHANGED <<fpc, i, scAttrs, fuzzListIdx, mutated, findings, result, sinceCheck, accepted>>

Client == Baseline \/ PeriodicCheck \/ FinalCheck \/ Mutate \/ Send \/ LoopDone
Over == fpc \in {"ended", "panic"} /\ UNCHANGED fvars
FNext == Client \/ Crash \/ Over

FSpec == FInit /\ [][FNext]_fvars

-------------------------------------------------------------------------------
(* A scenario that reports success has heard from a live server after its  *)
(* last mutated packet, and no mutated packet was accepted unless the      *)
(* scenario allows it; a server that died on the way is always reported.   *)
OkMeansUpAndRejecting ==
    result = "ok" => /\ server = "up" /\ i = Iterations
                     /\ accepted => ~ExpectNoAccept

(* The seed is sent again every healthcheck_every iterations, so a server  *)
(* that died is noticed within that many (README.md of the client, "again  *)
(* every `healthcheck_every` iterations").                                 *)
CheckedInTime == sinceCheck <= IF HealthcheckEvery = 0 THEN 20 ELSE HealthcheckEvery

(* With a list and a marker, marked_range takes the lines of the list in   *)
(* order, one per turn of its own, whatever the other strategies do and    *)
(* whether or not its packet could be built (loadFuzzList: "the Nth        *)
(* marked_range mutation in a run uses the Nth line").                     *)
Turns(n) == {j \in 0 .. n : StrategyAt(j).strategy = "marked_range"}
LinesInTurn ==
    FuzzList # <<>> /\ Marked(Seed) # {} /\ fpc = "await" /\ i \in Turns(i) =>
        mutated \in
            MarkedRange(Seed, FuzzList[((Cardinality(Turns(i)) - 1) % Len(FuzzList)) + 1])

(* A mutator other than length_mismatch and oversized_value leaves every   *)
(* attribute with its true Length byte, so the server's walk over the      *)
(* attributes reaches all of them (fuzz.go: "framing stays otherwise       *)
(* valid", "stays internally consistent").  It takes a seed whose lengths  *)
(* are true and not given by hand for an address, which unknown_type would *)
(* send as its text, and lines that fit an attribute once they are         *)
(* encrypted.                                                              *)
TrueSeed ==
    \A k \in DOMAIN Seed :
        Truthful(Seed[k]) /\ (Seed[k].form = "ipv4" => Seed[k].length = NoLength)
ShortLines == \A n \in DOMAIN FuzzList : FuzzList[n].bytes <= 240
FramingKept ==
    fpc = "await" /\ spec.strategy \notin {"length_mismatch", "oversized_value"}
                  /\ TrueSeed /\ ShortLines
        => \A k \in DOMAIN mutated : Truthful(mutated[k])

(* Every mutation is one change of the seed packet of the file: one        *)
(* attribute is replaced, repeated in place or dropped, and the others     *)
(* keep their values and their order.  However many iterations come before *)
(* it, no mutation is made on top of another (cloneAttrs: "a mutator can   *)
(* never modify the scenario's own seed slice").                           *)
OneChange ==
    fpc = "await" =>
        \/ /\ Len(mutated) = Len(Seed)
           /\ Cardinality({k \in DOMAIN Seed : mutated[k] # Seed[k]}) <= 1
        \/ \E k \in DOMAIN Seed : mutated = InsertAt(Seed, k, Seed[k])
        \/ \E k \in DOMAIN Seed : mutated = RemoveAt(Seed, k)
===============================================================================
