---------------------------- MODULE ScenarioProofs -----------------------------
(***************************************************************************)
(* Proofs about the scenarios of the v2 RADIUS client.                     *)
(*                                                                         *)
(* ScenarioRunner: for any files, overrides and servers, the exit status   *)
(* tells the whole run, validate is a gate, and the verdict on a scenario  *)
(* of one packet is about the server.                                      *)
(*                                                                         *)
(* FuzzScenario, the scenario that the runner takes in one step            *)
(* (StartMany): for any seed, strategies, list and server, a mutation is   *)
(* one change of the seed, tells its true lengths and takes its line in    *)
(* turn, a success is that of a live server, and the scenario ends.        *)
(***************************************************************************)
EXTENDS ScenarioRunner, FuzzScenario, SequenceTheorems, FiniteSetTheorems, TLAPS

-------------------------------------------------------------------------------
(* The run as the client sees it: what is known of the file once its       *)
(* scenarios are run, one verdict for each scenario that is over, and the  *)
(* count of failures that agrees with them.                                *)
RunTypes ==
    /\ rpc \in {"load", "scenario", "await", "ended"}
    /\ k \in Nat \ {0}
    /\ verdicts \in Seq(BOOLEAN) /\ Len(verdicts) = k - 1
    /\ failed \in Nat
Fresh ==
    rpc = "load" => /\ verdicts = <<>> /\ sent = {}
                    /\ cfg \in Configs \cup {Unreadable}
Underway == rpc \in {"scenario", "await"} \/ verdicts # <<>> \/ sent # {}
Loaded == Underway => cfg \in Configs /\ validate(cfg)
Placed == Underway => /\ k <= Len(cfg.scenarios) + 1
                      /\ rpc = "await" => k <= Len(cfg.scenarios)
Tally == failed > 0 <=> \E n \in DOMAIN verdicts : ~verdicts[n]
(* What a scenario without a packet may come to, and what one with a       *)
(* packet is free of.                                                      *)
Unsent(s, ok) ==
    IF LeftToTheRun(s) THEN ~ok
    ELSE IF NoTime(s) THEN ok <=> s.type \in {"raw", "packet"} /\ s.response = "Timeout"
    ELSE TooLong(s) /\ ~ok
Sendable(s) == ~LeftToTheRun(s) /\ ~NoTime(s) /\ ~TooLong(s)
Excused == /\ \A n \in DOMAIN verdicts \ sent : Unsent(cfg.scenarios[n], verdicts[n])
           /\ \A n \in sent : Sendable(cfg.scenarios[n])
Sent == \A n \in sent : /\ n \in 1 .. k
                        /\ rpc = "scenario" => n < k
Awaited == rpc = "await" => k \in sent

RunInv ==
    /\ RunTypes /\ Fresh /\ Loaded /\ Placed /\ Tally /\ Excused /\ Sent /\ Awaited
    /\ ExitTells

LEMMA ScenarioTypes ==
    ASSUME cfg \in Configs
    PROVE  /\ cfg.scenarios \in Seq(Scenario)
           /\ Len(cfg.scenarios) \in Nat
           /\ DOMAIN cfg.scenarios = 1 .. Len(cfg.scenarios)
           /\ \A n \in 1 .. Len(cfg.scenarios) : cfg.scenarios[n] \in Scenario
<1>1. cfg.scenarios \in Seq(Scenario)
  BY RunnerAssumption DEF Config
<1> QED
  BY <1>1

(* A file that validate lets through has a scenario, and each of its       *)
(* scenarios is valid.                                                     *)
LEMMA ValidFile ==
    ASSUME cfg \in Configs, validate(cfg)
    PROVE  /\ Len(cfg.scenarios) > 0
           /\ \A n \in 1 .. Len(cfg.scenarios) : ValidScenario(cfg.scenarios[n])
<1>1. cfg.scenarios \in Seq(Scenario) /\ DOMAIN cfg.scenarios = 1 .. Len(cfg.scenarios)
  BY ScenarioTypes
<1>2. cfg.scenarios # <<>> /\ \A n \in DOMAIN cfg.scenarios : ValidScenario(cfg.scenarios[n])
  BY DEF validate
<1> QED
  BY <1>1, <1>2

(* One verdict more: the older ones stay, and the count follows.           *)
LEMMA JudgeAppends ==
    ASSUME NEW ok \in BOOLEAN, Judge(ok), RunTypes, Tally
    PROVE  /\ RunTypes' /\ Tally'
           /\ DOMAIN verdicts = 1 .. k - 1 /\ DOMAIN verdicts' = 1 .. k
           /\ \A n \in 1 .. k - 1 : verdicts'[n] = verdicts[n]
           /\ verdicts'[k] = ok
           /\ verdicts' # <<>>
           /\ rpc' = "scenario" /\ k' = k + 1
           /\ UNCHANGED <<cfg, addrOverride, exit>>
<1>1. /\ verdicts' = Append(verdicts, ok)
      /\ failed' = IF ok THEN failed ELSE failed + 1
      /\ rpc' = "scenario" /\ k' = k + 1
      /\ UNCHANGED <<cfg, addrOverride, exit>>
  BY DEF Judge
<1>2. /\ verdicts \in Seq(BOOLEAN) /\ Len(verdicts) = k - 1 /\ k \in Nat \ {0} /\ failed \in Nat
  BY DEF RunTypes
<1>3. /\ verdicts' \in Seq(BOOLEAN) /\ Len(verdicts') = k
      /\ DOMAIN verdicts = 1 .. k - 1 /\ DOMAIN verdicts' = 1 .. k
      /\ \A n \in 1 .. k - 1 : verdicts'[n] = verdicts[n]
      /\ verdicts'[k] = ok
  BY <1>1, <1>2
<1>4. RunTypes'
  BY <1>1, <1>2, <1>3 DEF RunTypes
<1>5. Tally'
  <2>1. CASE ok
    <3>1. failed' = failed
      BY <1>1, <2>1
    <3>2. (\E n \in DOMAIN verdicts' : ~verdicts'[n]) <=> \E n \in DOMAIN verdicts : ~verdicts[n]
      <4>1. \A n \in 1 .. k : n = k \/ n \in 1 .. k - 1
        BY <1>2
      <4>2. 1 .. k - 1 \subseteq 1 .. k
        BY <1>2
      <4> QED
        BY <1>3, <2>1, <4>1, <4>2
    <3> QED
      BY <3>1, <3>2 DEF Tally
  <2>2. CASE ~ok
    <3>1. failed' > 0
      BY <1>1, <1>2, <2>2
    <3>2. k \in DOMAIN verdicts' /\ ~verdicts'[k]
      BY <1>2, <1>3, <2>2
    <3> QED
      BY <3>1, <3>2 DEF Tally
  <2> QED
    BY <2>1, <2>2
<1>6. verdicts' # <<>>
  BY <1>2, <1>3
<1> QED
  BY <1>1, <1>3, <1>4, <1>5, <1>6

(* A flaw is a matter of the file and of -addr. *)
LEMMA FlawsStay ==
    ASSUME UNCHANGED <<cfg, addrOverride>>,
           \A n \in DOMAIN verdicts' \ sent' : Unsent(cfg.scenarios[n], verdicts'[n]),
           \A n \in sent' : Sendable(cfg.scenarios[n])
    PROVE  Excused'
<1> QED
  BY DEF Excused, Unsent, Sendable, LeftToTheRun, NoTime, TooLong, firstNonEmpty

(* A scenario that is over, with or without a packet.                      *)
LEMMA JudgeKeeps ==
    ASSUME NEW ok \in BOOLEAN, Judge(ok), RunInv,
           rpc \in {"scenario", "await"}, k <= Len(cfg.scenarios),
           sent' \in {sent, sent \cup {k}},
           k \in sent' \/ Unsent(sc, ok),
           k \in sent' => Sendable(sc)
    PROVE  RunInv'
<1>1. /\ RunTypes' /\ Tally'
      /\ DOMAIN verdicts = 1 .. k - 1 /\ DOMAIN verdicts' = 1 .. k
      /\ \A n \in 1 .. k - 1 : verdicts'[n] = verdicts[n]
      /\ verdicts'[k] = ok
      /\ verdicts' # <<>>
      /\ rpc' = "scenario" /\ k' = k + 1
      /\ UNCHANGED <<cfg, addrOverride, exit>>
  BY JudgeAppends DEF RunInv
<1>2. k \in Nat \ {0}
  BY DEF RunInv, RunTypes
<1>3. Underway /\ cfg \in Configs /\ validate(cfg)
  BY DEF RunInv, Underway, Loaded
<1>4. Fresh' /\ Awaited' /\ ExitTells'
  BY <1>1 DEF Fresh, Awaited, ExitTells
<1>5. Loaded'
  BY <1>1, <1>3 DEF Loaded, validate, ValidScenario
<1>6. Placed'
  BY <1>1, <1>2, <1>3, ScenarioTypes DEF Placed
<1>7. Excused'
  <2>1. ASSUME NEW n \in DOMAIN verdicts' \ sent'
        PROVE  Unsent(cfg.scenarios[n], verdicts'[n])
    <3>1. CASE n = k
      BY <1>1, <2>1, <3>1 DEF sc
    <3>2. CASE n # k
      <4>1. n \in 1 .. k - 1
        BY <1>1, <1>2, <2>1, <3>2
      <4> QED
        BY <1>1, <2>1, <4>1 DEF RunInv, Excused
    <3> QED
      BY <3>1, <3>2
  <2>2. ASSUME NEW n \in sent'
        PROVE  Sendable(cfg.scenarios[n])
    BY <2>2 DEF RunInv, Excused, sc
  <2> QED
    BY <1>1, <2>1, <2>2, FlawsStay
<1>8. Sent'
  BY <1>1, <1>2 DEF RunInv, Sent
<1> QED
  BY <1>1, <1>4, <1>5, <1>6, <1>7, <1>8 DEF RunInv

(* What keeps a scenario from sending is a flaw that is left to the run, a *)
(* timeout of none or the size of the datagram, and nothing of the kind is *)
(* passed over.                                                            *)
LEMMA WhatStopsIt ==
    ASSUME cfg \in Configs, validate(cfg), k \in 1 .. Len(cfg.scenarios)
    PROVE  /\ ~resolved \/ ~encodes \/ ~loads \/ target \in Unresolvable <=> LeftToTheRun(sc)
           /\ timeout = "none" <=> NoTime(sc)
           /\ "too long" \in sc.flaws <=> TooLong(sc)
<1>1. sc \in Scenario /\ ValidScenario(sc)
  BY ScenarioTypes, ValidFile DEF sc
<1>2. ~resolved <=> \/ firstNonEmpty(sc.timeout, cfg.timeout) = "bad"
                    \/ firstNonEmpty(sc.addr, cfg.addr) = ""
  BY DEF resolved, timeout, addr
<1>3. ~encodes <=> IF sc.type = "raw" THEN sc.hex = "bad"
                   ELSE ~Resolves(sc.code) \/ sc.flaws \cap EncodeFlaws # {}
  <2>1. CASE sc.type = "raw"
    BY <1>1, <2>1 DEF encodes, ValidScenario, Scenario
  <2>2. CASE sc.type # "raw"
    <3>1. sc.flaws \cap SeedFlaws = {}
      BY <1>1, <2>2 DEF ValidScenario, Checked
    <3>2. sc.flaws \cap (EncodeFlaws \cup {"bad authenticator", "untyped attr"}) = {}
            <=> sc.flaws \cap EncodeFlaws = {}
      BY <3>1 DEF SeedFlaws
    <3> QED
      BY <2>2, <3>2 DEF encodes
  <2> QED
    BY <2>1, <2>2
<1>4. ~loads <=> sc.type = "fuzz" /\ "bad fuzzlist" \in sc.flaws
  <2>1. CASE sc.type = "fuzz"
    <3>1. "no fuzzlist" \notin sc.flaws
      BY <1>1, <2>1 DEF ValidScenario, Checked, FuzzFlaws
    <3> QED
      BY <2>1, <3>1 DEF loads
  <2>2. CASE sc.type # "fuzz"
    BY <2>2 DEF loads
  <2> QED
    BY <2>1, <2>2
<1>5. target = IF addrOverride # "" THEN addrOverride ELSE firstNonEmpty(sc.addr, cfg.addr)
  BY DEF target, addr
<1> QED
  BY <1>2, <1>3, <1>4, <1>5 DEF LeftToTheRun, NoTime, TooLong, timeout

LEMMA RunInit == Init => RunInv
<1> SUFFICES ASSUME Init
             PROVE  RunInv
  OBVIOUS
<1>1. /\ cfg \in Configs \cup {Unreadable} /\ rpc = "load" /\ k = 1 /\ verdicts = <<>>
      /\ failed = 0 /\ sent = {}
  BY DEF Init
<1> QED
  BY <1>1 DEF RunInv, RunTypes, Fresh, Underway, Loaded, Placed, Tally, Excused, Sent, Awaited,
     ExitTells

(* A step that starts or ends no scenario keeps the client's side of the   *)
(* run.                                                                    *)
LEMMA OutsideKeeps ==
    ASSUME RunInv,
           UNCHANGED <<cfg, addrOverride, rpc, k, verdicts, failed, exit, sent>>
    PROVE  RunInv'
<1>1. Excused'
  BY FlawsStay DEF RunInv, Excused
<1> QED
  BY <1>1 DEF RunInv, RunTypes, Fresh, Underway, Loaded, validate, ValidScenario, Placed, Tally,
     Sent, Awaited, ExitTells

LEMMA RunStep == RunInv /\ [Next]_vars => RunInv'
<1> SUFFICES ASSUME RunInv, [Next]_vars
             PROVE  RunInv'
  OBVIOUS
<1>t. /\ k \in Nat \ {0} /\ verdicts \in Seq(BOOLEAN) /\ Len(verdicts) = k - 1 /\ failed \in Nat
      /\ DOMAIN verdicts = 1 .. k - 1
  BY DEF RunInv, RunTypes
<1>1. CASE Load
  <2>1. /\ rpc = "load" /\ verdicts = <<>> /\ sent = {} /\ cfg \in Configs \cup {Unreadable}
        /\ k = 1 /\ ~(failed > 0)
    BY <1>1, <1>t DEF Load, RunInv, Fresh, Tally
  <2>2. UNCHANGED <<cfg, addrOverride, k, verdicts, failed, sent>>
    BY <1>1 DEF Load
  <2>3. \/ rpc' = "ended" /\ exit' = 1
        \/ rpc' = "scenario" /\ cfg # Unreadable /\ validate(cfg)
    BY <1>1 DEF Load, Exit
  <2>4. RunTypes' /\ Fresh' /\ Sent' /\ Awaited' /\ ExitTells'
    BY <1>t, <2>1, <2>2, <2>3 DEF RunTypes, Fresh, Sent, Awaited, ExitTells
  <2>5. Tally' /\ Excused'
    BY <1>t, <2>1, <2>2 DEF Tally, Excused
  <2>6. Loaded'
    BY <2>1, <2>2, <2>3 DEF Loaded, Underway, validate, ValidScenario
  <2>7. Placed'
    <3>1. CASE rpc' = "ended"
      BY <2>1, <2>2, <3>1 DEF Placed, Underway
    <3>2. CASE rpc' = "scenario"
      <4>1. Len(cfg.scenarios) \in Nat
        BY <2>1, <2>3, <3>2, ScenarioTypes
      <4> QED
        BY <2>1, <2>2, <3>2, <4>1 DEF Placed, Underway
    <3> QED
      BY <2>3, <3>1, <3>2
  <2> QED
    BY <2>4, <2>5, <2>6, <2>7 DEF RunInv
<1>2. CASE StartOne
  <2>1. /\ rpc = "scenario" /\ k <= Len(cfg.scenarios)
        /\ cfg \in Configs /\ validate(cfg) /\ k \in 1 .. Len(cfg.scenarios)
    BY <1>2, <1>t, ScenarioTypes DEF StartOne, AtScenario, RunInv, Loaded, Underway
  <2>2. CASE UNCHANGED sent /\ Judge(FALSE) /\ (~resolved \/ ~encodes)
    <3>1. Unsent(sc, FALSE)
      BY <2>1, <2>2, WhatStopsIt DEF Unsent
    <3>2. k \notin sent'
      BY <1>t, <2>1, <2>2 DEF RunInv, Sent
    <3> QED
      BY <2>1, <2>2, <3>1, <3>2, JudgeKeeps
  <2>3. CASE /\ UNCHANGED sent /\ Judge(ContentWith(sendError))
             /\ resolved /\ encodes /\ sendError # "none"
    <3>1. ContentWith(sendError) \in BOOLEAN
      BY DEF ContentWith, IsTimeout
    <3>2. sc.type \in {"raw", "packet"} /\ loads
      BY <1>2 DEF StartOne, AtScenario, loads
    <3>3. Unsent(sc, ContentWith(sendError))
      BY <2>1, <2>3, <3>2, WhatStopsIt DEF Unsent, ContentWith, IsTimeout, sendError
    <3>4. k \notin sent'
      BY <1>t, <2>1, <2>3 DEF RunInv, Sent
    <3> QED
      BY <2>1, <2>3, <3>1, <3>3, <3>4, JudgeKeeps
  <2>4. CASE /\ rpc' = "await" /\ sent' = sent \cup {k}
             /\ resolved /\ encodes /\ sendError = "none"
             /\ UNCHANGED <<cfg, addrOverride, k, verdicts, failed, exit>>
    <3>1. RunTypes' /\ Fresh' /\ Tally' /\ Awaited' /\ ExitTells'
      BY <1>t, <2>4 DEF RunInv, RunTypes, Fresh, Tally, Awaited, ExitTells
    <3>2. Loaded'
      BY <2>1, <2>4 DEF Loaded, validate, ValidScenario
    <3>3. Placed'
      BY <2>1, <2>4, <1>t, ScenarioTypes DEF Placed
    <3>4. Excused'
      <4>1. sc.type \in {"raw", "packet"} /\ loads
        BY <1>2 DEF StartOne, AtScenario, loads
      <4>2. Sendable(sc)
        BY <2>1, <2>4, <4>1, WhatStopsIt DEF Sendable, sendError
      <4> QED
        BY <2>4, <4>2, FlawsStay DEF RunInv, Excused, sc
    <3>5. Sent'
      BY <1>t, <2>4 DEF RunInv, Sent
    <3> QED
      BY <3>1, <3>2, <3>3, <3>4, <3>5 DEF RunInv
  <2> QED
    BY <1>2, <2>2, <2>3, <2>4 DEF StartOne, history
<1>3. CASE Receive
  <2>1. /\ rpc = "await" /\ k <= Len(cfg.scenarios) /\ k \in sent /\ UNCHANGED sent
    BY <1>3 DEF Receive, history, RunInv, Placed, Underway, Awaited
  <2>2. PICK r \in replies : Judge(Accepts(sc.response, r.code))
    BY <1>3 DEF Receive
  <2>3. Accepts(sc.response, r.code) \in BOOLEAN
    BY DEF Accepts
  <2> QED
    BY <2>1, <2>2, <2>3, JudgeKeeps DEF RunInv, Excused, sc
<1>4. CASE ReadTimesOut
  <2>1. /\ rpc = "await" /\ k <= Len(cfg.scenarios) /\ k \in sent /\ UNCHANGED sent
        /\ Judge(ContentWith("timeout"))
    BY <1>4 DEF ReadTimesOut, RunInv, Placed, Underway, Awaited
  <2>2. ContentWith("timeout") \in BOOLEAN
    BY DEF ContentWith, IsTimeout
  <2> QED
    BY <2>1, <2>2, JudgeKeeps DEF RunInv, Excused, sc
<1>5. CASE ConnectionRefused
  <2>1. /\ rpc = "await" /\ k <= Len(cfg.scenarios) /\ k \in sent /\ UNCHANGED sent
        /\ Judge(FALSE)
    BY <1>5 DEF ConnectionRefused, ContentWith, history, RunInv, Placed, Underway, Awaited
  <2> QED
    BY <2>1, JudgeKeeps DEF RunInv, Excused, sc
<1>6. CASE StartMany
  <2>1. /\ rpc = "scenario" /\ k <= Len(cfg.scenarios)
        /\ cfg \in Configs /\ validate(cfg) /\ k \in 1 .. Len(cfg.scenarios)
    BY <1>6, <1>t, ScenarioTypes DEF StartMany, AtScenario, RunInv, Loaded, Underway
  <2>2. CASE /\ UNCHANGED sent /\ Judge(FALSE)
             /\ ~resolved \/ ~encodes \/ ~loads \/ sendError # "none"
    <3>1. sc.type \notin {"raw", "packet"}
      BY <1>6 DEF StartMany, AtScenario
    <3>2. Unsent(sc, FALSE)
      BY <2>1, <2>2, <3>1, WhatStopsIt DEF Unsent, sendError
    <3>3. k \notin sent'
      BY <1>t, <2>1, <2>2 DEF RunInv, Sent
    <3> QED
      BY <2>1, <2>2, <3>2, <3>3, JudgeKeeps
  <2>3. CASE /\ sent' = sent \cup {k} /\ (Judge(FALSE) \/ Judge(TRUE))
             /\ resolved /\ encodes /\ loads /\ sendError = "none"
    <3>1. k \in sent' /\ sent' \in {sent, sent \cup {k}}
      BY <2>3
    <3>2. Sendable(sc)
      BY <2>1, <2>3, WhatStopsIt DEF Sendable, sendError
    <3>3. CASE Judge(FALSE)
      BY <2>1, <3>1, <3>2, <3>3, JudgeKeeps
    <3>4. CASE Judge(TRUE)
      BY <2>1, <3>1, <3>2, <3>4, JudgeKeeps
    <3> QED
      BY <2>3, <3>3, <3>4
  <2>4. CASE /\ sent' = sent \cup {k} /\ Exit(2)
             /\ resolved /\ encodes /\ loads /\ sendError = "none"
             /\ UNCHANGED <<cfg, addrOverride, k, verdicts, failed>>
    <3>1. rpc' = "ended" /\ exit' = 2
      BY <2>4 DEF Exit
    <3>2. RunTypes' /\ Fresh' /\ Tally' /\ Awaited'
      BY <1>t, <2>4, <3>1 DEF RunInv, RunTypes, Fresh, Tally, Awaited
    <3>3. Loaded'
      BY <2>1, <2>4 DEF Loaded, validate, ValidScenario
    <3>4. Placed'
      BY <2>1, <2>4, <3>1, <1>t, ScenarioTypes DEF Placed
    <3>5. Excused'
      <4>1. Sendable(sc)
        BY <2>1, <2>4, WhatStopsIt DEF Sendable, sendError
      <4> QED
        BY <2>4, <4>1, FlawsStay DEF RunInv, Excused, sc
    <3>6. Sent'
      BY <1>t, <2>4, <3>1 DEF RunInv, Sent
    <3>7. ExitTells'
      BY <1>t, <2>1, <2>4, <3>1, ScenarioTypes DEF ExitTells
    <3> QED
      BY <3>2, <3>3, <3>4, <3>5, <3>6, <3>7 DEF RunInv
  <2> QED
    BY <1>6, <2>2, <2>3, <2>4 DEF StartMany, history
<1>7. CASE Summary
  <2>1. /\ rpc = "scenario" /\ k > Len(cfg.scenarios)
        /\ rpc' = "ended" /\ exit' = IF failed > 0 THEN 1 ELSE 0
        /\ UNCHANGED <<cfg, addrOverride, k, verdicts, failed, sent>>
    BY <1>7 DEF Summary, Exit, history
  <2>2. /\ Underway /\ cfg \in Configs /\ validate(cfg)
        /\ Len(cfg.scenarios) \in Nat /\ Len(cfg.scenarios) > 0
        /\ k = Len(cfg.scenarios) + 1
    BY <1>t, <2>1, ScenarioTypes, ValidFile DEF RunInv, Underway, Loaded, Placed
  <2>3. RunTypes' /\ Fresh' /\ Tally' /\ Awaited' /\ Sent'
    BY <1>t, <2>1 DEF RunInv, RunTypes, Fresh, Tally, Awaited, Sent
  <2>4. Loaded'
    BY <2>1, <2>2 DEF Loaded, validate, ValidScenario
  <2>5. Placed' /\ Excused'
    BY <2>1, FlawsStay DEF RunInv, Placed, Underway, Excused
  <2>6. ExitTells'
    <3>1. Len(verdicts') = Len(cfg'.scenarios) /\ verdicts' # <<>>
      BY <1>t, <2>1, <2>2
    <3>2. (exit' = 0) <=> \A n \in DOMAIN verdicts : verdicts[n]
      BY <2>1 DEF RunInv, Tally
    <3>3. exit' # 2
      BY <2>1
    <3> QED
      BY <2>1, <3>1, <3>2, <3>3 DEF ExitTells
  <2> QED
    BY <2>3, <2>4, <2>5, <2>6 DEF RunInv
<1>8. CASE Serve \/ Lose
  BY <1>8, OutsideKeeps DEF Serve, Lose
<1>9. CASE UNCHANGED vars
  BY <1>9, OutsideKeeps DEF vars, history
<1> QED
  BY <1>1, <1>2, <1>3, <1>4, <1>5, <1>6, <1>7, <1>8, <1>9 DEF Next

LEMMA RunAlways == Spec => []RunInv
<1> QED
  BY RunInit, RunStep, PTL DEF Spec

(* For any files: the exit status tells whether every scenario was judged  *)
(* and whether one has failed, and a file that is refused sends nothing    *)
(* (main and runScenarios).                                                *)
THEOREM ExitTellsCorrect == Spec => []ExitTells
<1>1. RunInv => ExitTells
  BY DEF RunInv
<1> QED
  BY <1>1, RunAlways, PTL

(* For any files: no packet leaves while any scenario of the file has a    *)
(* flaw that validate checks for; a scenario with a flaw that is left to   *)
(* the run sends nothing and fails, also when it asserts silence, and      *)
(* without such a flaw only the timeout and the size of the datagram keep  *)
(* a scenario from sending (validate, runScenario and sendRawUDP).         *)
THEOREM FlawsStoppedCorrect == Spec => []FlawsStopped
<1>1. RunInv => FlawsStopped
  <2> SUFFICES ASSUME RunInv
               PROVE  FlawsStopped
    OBVIOUS
  <2>1. ASSUME sent # {}, NEW n \in DOMAIN cfg.scenarios
        PROVE  LET s == cfg.scenarios[n]
               IN  /\ s.type # "raw" => s.flaws \cap SeedFlaws = {}
                   /\ s.type = "fuzz" => s.flaws \cap FuzzFlaws = {}
                   /\ s.type = "challenge" => s.flaws \cap ChallengeFlaws = {}
    <3>1. ValidScenario(cfg.scenarios[n])
      BY <2>1, ScenarioTypes, ValidFile DEF RunInv, Loaded, Underway
    <3> QED
      BY <3>1 DEF ValidScenario, Checked
  <2> QED
    BY <2>1 DEF RunInv, Excused, Unsent, Sendable, FlawsStopped
<1> QED
  BY <1>1, RunAlways, PTL

-------------------------------------------------------------------------------
(* The verdicts.  A packet is under way, answered, lost or dropped, and    *)
(* only one of these; while its scenario waits nothing is left of it only  *)
(* after a mishap.  What is still under way when its scenario is over has  *)
(* met with a mishap, or goes to a server that is down for good, and then  *)
(* the scenario can be ok only if it asserts silence.                      *)
Wire ==
    /\ \A d \in inflight : d = [n |-> d.n, to |-> d.to] /\ d.n \in sent
    /\ \A r \in replies : /\ r = [n |-> r.n, code |-> r.code] /\ r.n \in sent
                          /\ r.code \in Reactions \ {Dropped, Crashed}
Served ==
    Underway => /\ reacted \in [1 .. Len(cfg.scenarios) -> Reactions \cup {Unserved}]
                /\ \A n \in (1 .. Len(cfg.scenarios)) \ sent : reacted[n] = Unserved
Once ==
    /\ \A d, e \in inflight : d.n = e.n => d = e
    /\ \A d \in inflight : reacted[d.n] = Unserved
    /\ \A r \in replies : reacted[r.n] = r.code
Waiting ==
    rpc = "await" =>
        /\ sc.type \in {"raw", "packet"}
        /\ IF k \in mishap
           THEN (\A d \in inflight : d.n # k) /\ \A r \in replies : r.n # k
           ELSE \/ \E d \in inflight : d.n = k
                \/ \E r \in replies : r.n = k
                \/ reacted[k] \in {Dropped, Crashed}
Mishaps == mishap \subseteq sent
Stray ==
    /\ \A d \in inflight : d.n \in DOMAIN verdicts =>
         /\ verdicts[d.n] => cfg.scenarios[d.n].response = "Timeout"
         /\ d.to \in up => d.n \in mishap
    /\ \A r \in replies : r.n \in DOMAIN verdicts =>
         /\ verdicts[r.n] => cfg.scenarios[r.n].response = "Timeout"
         /\ r.n \in mishap

NetInv == Wire /\ Served /\ Once /\ Waiting /\ Mishaps /\ Stray /\ VerdictExplained

(* VerdictExplained, of one scenario. *)
Explained(s, ok, unlucky, reaction) ==
    s.type \in {"raw", "packet"} =>
        IF unlucky \/ reaction = Unserved THEN ok => s.response = "Timeout"
        ELSE ok <=> Meets(s.response, reaction)

LEMMA ExplainedEach ==
    VerdictExplained <=>
        \A n \in DOMAIN verdicts \cap sent :
            Explained(cfg.scenarios[n], verdicts[n], n \in mishap, reacted[n])
<1> QED
  BY DEF VerdictExplained, Explained

(* A reaction that is neither silence nor a byte is nobody's. *)
LEMMA ReactionTypes ==
    /\ Unserved \notin Reactions
    /\ \A c \in Reactions : c \in Int
    /\ Dropped = -2 /\ Crashed = -3 /\ Empty = -1 /\ Unserved = -4
<1> QED
  BY RunnerAssumption DEF Dropped, Crashed, Empty, Unserved

LEMMA CodesArePositive == \A t \in DOMAIN CodeOf : CodeOf[t] \in {1, 2, 3, 11}
<1> DEFINE D == {"Access-Request", "Access-Accept", "Accept", "Access-Reject", "Reject",
                 "Access-Challenge", "Challenge", "2", "3"}
<1>1. DOMAIN CodeOf = D
  BY DEF CodeOf
<1> SUFFICES ASSUME NEW t \in D
             PROVE  CodeOf[t] \in {1, 2, 3, 11}
  BY <1>1
<1>2. CodeOf[t] =
        CASE t = "Access-Request" -> 1
          [] t \in {"Access-Accept", "Accept", "2"} -> 2
          [] t \in {"Access-Reject", "Reject", "3"} -> 3
          [] t \in {"Access-Challenge", "Challenge"} -> 11
  BY DEF CodeOf
<1> QED
  BY <1>2

(* What a scenario makes of the answer is what its response asks of the    *)
(* server.                                                                 *)
LEMMA AnswerMeets ==
    ASSUME NEW c \in Reactions \ {Dropped, Crashed}, NEW response,
           Resolves(response) \/ IsTimeout(response)
    PROVE  Accepts(response, c) <=> Meets(response, c)
<1>1. CASE response = "Timeout"
  BY <1>1 DEF Accepts, Meets, IsTimeout
<1>2. CASE response = ""
  BY <1>2 DEF Accepts, Meets, IsTimeout
<1>3. CASE response # "Timeout" /\ response # ""
  <2>1. response \in DOMAIN CodeOf
    BY <1>3 DEF Resolves, IsTimeout
  <2>2. CodeOf[response] # Empty
    BY <2>1, CodesArePositive, ReactionTypes
  <2> QED
    BY <1>3, <2>2 DEF Accepts, Meets, IsTimeout
<1> QED
  BY <1>1, <1>2, <1>3

(* Silence is what Timeout asks for, and nothing else does. *)
LEMMA SilenceMeets ==
    ASSUME NEW c \in {Dropped, Crashed}, NEW response,
           Resolves(response) \/ IsTimeout(response)
    PROVE  IsTimeout(response) <=> Meets(response, c)
<1>1. CASE response = "Timeout"
  BY <1>1 DEF Meets, IsTimeout
<1>2. CASE response = ""
  BY <1>2 DEF Meets, IsTimeout
<1>3. CASE response # "Timeout" /\ response # ""
  <2>1. response \in DOMAIN CodeOf
    BY <1>3 DEF Resolves, IsTimeout
  <2>2. CodeOf[response] # c
    BY <2>1, CodesArePositive, ReactionTypes
  <2> QED
    BY <1>3, <2>2 DEF Meets, IsTimeout
<1> QED
  BY <1>1, <1>2, <1>3

(* A verdict more, which is about the server, on a scenario whose stray    *)
(* packet and answer are accounted for: the older verdicts stand.          *)
LEMMA JudgeSettles ==
    ASSUME RunInv, RunInv', NetInv, NEW ok \in BOOLEAN, Judge(ok),
           rpc \in {"scenario", "await"}, k <= Len(cfg.scenarios),
           UNCHANGED reacted,
           sent' \in {sent, sent \cup {k}},
           mishap' \in {mishap, mishap \cup {k}}, mishap' \subseteq sent',
           inflight' \subseteq inflight, replies' \subseteq replies, up' \subseteq up,
           k \in sent' => Explained(sc, ok, k \in mishap', reacted[k]),
           \A d \in inflight' : d.n = k => /\ ok => sc.response = "Timeout"
                                           /\ d.to \in up' => k \in mishap',
           \A r \in replies' : r.n = k => /\ ok => sc.response = "Timeout"
                                          /\ k \in mishap'
    PROVE  NetInv'
<1>1. /\ DOMAIN verdicts = 1 .. k - 1 /\ DOMAIN verdicts' = 1 .. k
      /\ \A n \in 1 .. k - 1 : verdicts'[n] = verdicts[n]
      /\ verdicts'[k] = ok
      /\ rpc' = "scenario" /\ k' = k + 1
      /\ UNCHANGED <<cfg, addrOverride, exit>>
  BY JudgeAppends DEF RunInv
<1>2. k \in Nat \ {0} /\ \A n \in 1 .. k : n = k \/ n \in 1 .. k - 1
  BY DEF RunInv, RunTypes
<1>3. Wire'
  BY DEF NetInv, Wire
<1>4. Served'
  BY <1>1 DEF NetInv, Served, Underway
<1>5. Once' /\ Waiting' /\ Mishaps'
  BY <1>1 DEF NetInv, Once, Waiting, Mishaps
<1>6. Stray'
  <2>1. ASSUME NEW d \in inflight', d.n \in DOMAIN verdicts'
        PROVE  /\ verdicts'[d.n] => cfg.scenarios[d.n].response = "Timeout"
               /\ d.to \in up' => d.n \in mishap'
    <3>1. CASE d.n = k
      BY <1>1, <2>1, <3>1 DEF sc
    <3>2. CASE d.n # k
      <4>1. d.n \in 1 .. k - 1 /\ d \in inflight
        BY <1>1, <1>2, <2>1, <3>2
      <4> QED
        BY <1>1, <4>1 DEF NetInv, Stray
    <3> QED
      BY <3>1, <3>2
  <2>2. ASSUME NEW r \in replies', r.n \in DOMAIN verdicts'
        PROVE  /\ verdicts'[r.n] => cfg.scenarios[r.n].response = "Timeout"
               /\ r.n \in mishap'
    <3>1. CASE r.n = k
      BY <1>1, <2>2, <3>1 DEF sc
    <3>2. CASE r.n # k
      <4>1. r.n \in 1 .. k - 1 /\ r \in replies
        BY <1>1, <1>2, <2>2, <3>2
      <4> QED
        BY <1>1, <4>1 DEF NetInv, Stray
    <3> QED
      BY <3>1, <3>2
  <2> QED
    BY <1>1, <2>1, <2>2 DEF Stray
<1>7. VerdictExplained'
  <2>1. ASSUME NEW n \in DOMAIN verdicts' \cap sent'
        PROVE  Explained(cfg.scenarios[n], verdicts'[n], n \in mishap', reacted[n])
    <3>1. CASE n = k
      BY <1>1, <2>1, <3>1 DEF sc
    <3>2. CASE n # k
      <4>1. n \in 1 .. k - 1 /\ n \in sent /\ (n \in mishap' <=> n \in mishap)
        BY <1>1, <1>2, <2>1, <3>2
      <4>2. Explained(cfg.scenarios[n], verdicts[n], n \in mishap, reacted[n])
        BY <1>1, <4>1, ExplainedEach DEF NetInv
      <4> QED
        BY <1>1, <4>1, <4>2 DEF Explained
    <3> QED
      BY <3>1, <3>2
  <2> QED
    BY <1>1, <2>1 DEF VerdictExplained, Explained
<1> QED
  BY <1>3, <1>4, <1>5, <1>6, <1>7 DEF NetInv

LEMMA NetInit == Init => NetInv
<1> SUFFICES ASSUME Init
             PROVE  NetInv
  OBVIOUS
<1>1. /\ rpc = "load" /\ verdicts = <<>> /\ sent = {} /\ inflight = {} /\ replies = {}
      /\ mishap = {}
  BY DEF Init
<1> QED
  BY <1>1 DEF NetInv, Wire, Served, Underway, Once, Waiting, Mishaps, Stray, VerdictExplained

(* The scenario that waits has no verdict yet, and the others that have    *)
(* sent a packet have theirs.                                              *)
LEMMA WaitingForOne ==
    ASSUME RunInv, rpc \in {"scenario", "await"}
    PROVE  /\ cfg \in Configs /\ validate(cfg) /\ Underway
           /\ DOMAIN cfg.scenarios = 1 .. Len(cfg.scenarios)
           /\ Len(cfg.scenarios) \in Nat
           /\ DOMAIN verdicts = 1 .. k - 1
           /\ k \in Nat \ {0} /\ k \notin DOMAIN verdicts
           /\ sent \subseteq 1 .. Len(cfg.scenarios)
           /\ rpc = "await" => k \in sent /\ k \in 1 .. Len(cfg.scenarios)
           /\ rpc = "scenario" => k \notin sent
           /\ \A n \in sent : n \in DOMAIN verdicts \/ (rpc = "await" /\ n = k)
<1>1. cfg \in Configs /\ validate(cfg) /\ Underway
  BY DEF RunInv, Loaded, Underway
<1>2. DOMAIN cfg.scenarios = 1 .. Len(cfg.scenarios) /\ Len(cfg.scenarios) \in Nat
  BY <1>1, ScenarioTypes
<1>3. /\ k \in Nat \ {0} /\ DOMAIN verdicts = 1 .. k - 1
  BY DEF RunInv, RunTypes
<1>4. /\ \A n \in sent : n \in 1 .. k /\ (rpc = "scenario" => n < k)
      /\ rpc = "await" => k \in sent /\ k <= Len(cfg.scenarios)
      /\ k <= Len(cfg.scenarios) + 1
  BY <1>1 DEF RunInv, Sent, Placed, Awaited
<1> QED
  BY <1>1, <1>2, <1>3, <1>4

LEMMA NetStep == RunInv /\ RunInv' /\ NetInv /\ [Next]_vars => NetInv'
<1> SUFFICES ASSUME RunInv, RunInv', NetInv, [Next]_vars
             PROVE  NetInv'
  OBVIOUS
<1>i. Wire /\ Served /\ Once /\ Waiting /\ Mishaps /\ Stray /\ VerdictExplained
  BY DEF NetInv
<1>1. CASE Load
  <2>1. /\ rpc = "load" /\ verdicts = <<>> /\ sent = {} /\ cfg \in Configs \cup {Unreadable}
        /\ inflight = {} /\ replies = {} /\ mishap = {}
    BY <1>1, <1>i DEF Load, RunInv, Fresh, Wire, Mishaps
  <2>2. /\ rpc' = "ended" \/ (rpc' = "scenario" /\ cfg # Unreadable)
        /\ reacted' = IF cfg = Unreadable THEN <<>>
                      ELSE [n \in DOMAIN cfg.scenarios |-> Unserved]
        /\ UNCHANGED <<cfg, verdicts, sent, inflight, replies, mishap>>
    BY <1>1 DEF Load, Exit, net
  <2>3. Served'
    <3>1. CASE rpc' = "ended"
      BY <2>1, <2>2, <3>1 DEF Served, Underway
    <3>2. CASE rpc' = "scenario" /\ cfg # Unreadable
      <4>1. reacted' = [n \in 1 .. Len(cfg.scenarios) |-> Unserved]
        BY <2>1, <2>2, <3>2, ScenarioTypes
      <4> QED
        BY <2>2, <4>1 DEF Served
    <3> QED
      BY <2>2, <3>1, <3>2
  <2> QED
    BY <2>1, <2>2, <2>3 DEF NetInv, Wire, Once, Waiting, Mishaps, Stray, VerdictExplained
<1>2. CASE StartOne
  <2>1. /\ rpc = "scenario" /\ k <= Len(cfg.scenarios) /\ sc.type \in {"raw", "packet"}
        /\ k \notin sent
    BY <1>2, WaitingForOne DEF StartOne, AtScenario
  <2>2. ASSUME NEW ok \in BOOLEAN, Judge(ok), UNCHANGED <<net, history>>
        PROVE  NetInv'
    <3>1. \A d \in inflight : d.n # k
      BY <1>i, <2>1 DEF Wire
    <3>2. \A r \in replies : r.n # k
      BY <1>i, <2>1 DEF Wire
    <3>3. UNCHANGED <<inflight, replies, up, sent, reacted, mishap>>
      BY <2>2 DEF net, history
    <3> QED
      BY <1>i, <2>1, <2>2, <3>1, <3>2, <3>3, JudgeSettles DEF Mishaps
  <2>3. CASE /\ rpc' = "await"
             /\ inflight' = inflight \cup {[n |-> k, to |-> target]}
             /\ sent' = sent \cup {k}
             /\ UNCHANGED <<cfg, addrOverride, k, replies, up, verdicts, failed, exit, reacted,
                            mishap>>
    <3>1. /\ k \in 1 .. Len(cfg.scenarios) /\ k \notin DOMAIN verdicts
          /\ Underway /\ DOMAIN verdicts = 1 .. k - 1
      BY <2>1, WaitingForOne
    <3>2. reacted[k] = Unserved
      BY <1>i, <2>1, <3>1 DEF Served
    <3>3. \A d \in inflight : d.n # k
      BY <1>i, <2>1 DEF Wire
    <3>4. Wire'
      BY <1>i, <2>3 DEF Wire
    <3>5. Served'
      BY <1>i, <2>3, <3>1 DEF Served
    <3>6. Once'
      BY <1>i, <2>3, <3>2, <3>3 DEF Once
    <3>7. Waiting'
      <4>1. sc' = sc
        BY <2>3 DEF sc
      <4>2. k \notin mishap
        BY <1>i, <2>1 DEF Mishaps
      <4>3. [n |-> k, to |-> target] \in inflight' /\ [n |-> k, to |-> target].n = k
        BY <2>3
      <4> QED
        BY <2>1, <2>3, <4>1, <4>2, <4>3 DEF Waiting
    <3>8. Mishaps' /\ Stray'
      BY <1>i, <2>3, <3>1 DEF Mishaps, Stray
    <3>9. VerdictExplained'
      BY <1>i, <2>3, <3>1 DEF VerdictExplained
    <3> QED
      BY <3>4, <3>5, <3>6, <3>7, <3>8, <3>9 DEF NetInv
  <2>4. ContentWith(sendError) \in BOOLEAN
    BY DEF ContentWith, IsTimeout
  <2> QED
    BY <1>2, <2>2, <2>3, <2>4 DEF StartOne
<1>3. CASE Receive
  <2>1. PICK r \in replies : /\ r.n = k /\ replies' = replies \ {r}
                             /\ Judge(Accepts(sc.response, r.code))
    BY <1>3 DEF Receive
  <2>2. /\ rpc = "await" /\ UNCHANGED <<inflight, up, sent, reacted, mishap>>
    BY <1>3 DEF Receive, history
  <2>3. k \in sent /\ k \in 1 .. Len(cfg.scenarios) /\ cfg \in Configs /\ validate(cfg)
    BY <2>2, WaitingForOne
  <2>4. r.code \in Reactions \ {Dropped, Crashed} /\ reacted[k] = r.code /\ r.code # Unserved
    BY <1>i, <2>1, ReactionTypes DEF Wire, Once
  <2>5. \A d \in inflight : d.n # k
    BY <1>i, <2>4 DEF Once
  <2>6. \A q \in replies' : q.n # k
    <3> SUFFICES ASSUME NEW q \in replies, q.n = k
                 PROVE  q = r
      BY <2>1
    <3>1. q.code = r.code
      BY <1>i, <2>4 DEF Once
    <3>2. q = [n |-> q.n, code |-> q.code] /\ r = [n |-> r.n, code |-> r.code]
      BY <1>i, <2>1 DEF Wire
    <3> QED
      BY <2>1, <3>1, <3>2
  <2>7. k \notin mishap
    BY <1>i, <2>1, <2>2 DEF Waiting
  <2>8. Accepts(sc.response, r.code) <=> Meets(sc.response, reacted[k])
    <3>1. Resolves(sc.response) \/ IsTimeout(sc.response)
      BY <2>3, ValidFile DEF sc, ValidScenario
    <3> QED
      BY <2>4, <3>1, AnswerMeets
  <2>9. Accepts(sc.response, r.code) \in BOOLEAN
    BY DEF Accepts
  <2>10. Explained(sc, Accepts(sc.response, r.code), k \in mishap', reacted[k])
    BY <2>2, <2>4, <2>7, <2>8 DEF Explained
  <2> QED
    BY <1>i, <2>1, <2>2, <2>3, <2>5, <2>6, <2>9, <2>10, JudgeSettles DEF Mishaps
<1>4. CASE ReadTimesOut
  <2>1. /\ rpc = "await" /\ Judge(ContentWith("timeout"))
        /\ mishap' = IF \E d \in inflight : d.n = k /\ d.to \in up THEN mishap \cup {k}
                     ELSE IF \E r \in replies : r.n = k THEN mishap \cup {k} ELSE mishap
        /\ UNCHANGED <<inflight, replies, up, sent, reacted>>
    BY <1>4 DEF ReadTimesOut, net
  <2>2. k \in sent /\ k \in 1 .. Len(cfg.scenarios) /\ cfg \in Configs /\ validate(cfg)
    BY <2>1, WaitingForOne
  <2>3. /\ ContentWith("timeout") \in BOOLEAN
        /\ ContentWith("timeout") => sc.response = "Timeout"
        /\ ContentWith("timeout") <=> IsTimeout(sc.response)
    BY DEF ContentWith, IsTimeout
  <2>4. Explained(sc, ContentWith("timeout"), k \in mishap', reacted[k])
    <3>1. CASE k \in mishap' \/ reacted[k] = Unserved
      BY <2>3, <3>1 DEF Explained
    <3>2. CASE ~(k \in mishap' \/ reacted[k] = Unserved)
      <4>1. k \notin mishap /\ ~(\E r \in replies : r.n = k)
        BY <2>1, <3>2
      <4>2. ~(\E d \in inflight : d.n = k)
        BY <1>i, <3>2 DEF Once
      <4>3. reacted[k] \in {Dropped, Crashed}
        BY <1>i, <2>1, <4>1, <4>2 DEF Waiting
      <4>4. Resolves(sc.response) \/ IsTimeout(sc.response)
        BY <2>2, ValidFile DEF sc, ValidScenario
      <4>5. IsTimeout(sc.response) <=> Meets(sc.response, reacted[k])
        BY <4>3, <4>4, SilenceMeets
      <4> QED
        BY <2>3, <3>2, <4>5 DEF Explained
    <3> QED
      BY <3>1, <3>2
  <2>5. /\ \A d \in inflight : d.n = k => (d.to \in up => k \in mishap')
        /\ \A r \in replies : r.n = k => k \in mishap'
        /\ mishap' \in {mishap, mishap \cup {k}} /\ mishap' \subseteq sent
    BY <1>i, <2>1, <2>2 DEF Mishaps
  <2> QED
    BY <2>1, <2>2, <2>3, <2>4, <2>5, JudgeSettles
<1>5. CASE ConnectionRefused
  <2>1. PICK d \in inflight : d.n = k /\ d.to \notin up /\ inflight' = inflight \ {d}
    BY <1>5 DEF ConnectionRefused
  <2>2. /\ rpc = "await" /\ Judge(FALSE)
        /\ UNCHANGED <<replies, up, sent, reacted, mishap>>
    BY <1>5 DEF ConnectionRefused, ContentWith, history
  <2>3. k \in sent /\ k \in 1 .. Len(cfg.scenarios)
    BY <2>2, WaitingForOne
  <2>4. reacted[k] = Unserved
    BY <1>i, <2>1 DEF Once
  <2>5. \A e \in inflight' : e.n # k
    BY <1>i, <2>1 DEF Once
  <2>6. \A r \in replies : r.n # k
    BY <1>i, <2>4, ReactionTypes DEF Once, Wire
  <2>7. Explained(sc, FALSE, k \in mishap', reacted[k])
    BY <2>4 DEF Explained
  <2>8. /\ sent' = sent /\ mishap' = mishap /\ mishap' \subseteq sent'
        /\ inflight' \subseteq inflight /\ replies' = replies /\ up' = up
        /\ k <= Len(cfg.scenarios)
    BY <1>i, <2>1, <2>2, <2>3 DEF Mishaps
  <2> QED
    BY <2>2, <2>5, <2>6, <2>7, <2>8, JudgeSettles
<1>6. CASE StartMany
  <2>1. /\ rpc = "scenario" /\ k <= Len(cfg.scenarios) /\ sc.type \in {"fuzz", "challenge"}
        /\ k \notin sent
    BY <1>6, WaitingForOne DEF StartMany, AtScenario
  <2>2. /\ \A d \in inflight : d.n # k
        /\ \A r \in replies : r.n # k
    BY <1>i, <2>1 DEF Wire
  <2>3. \A ok, unlucky, reaction : Explained(sc, ok, unlucky, reaction)
    BY <2>1 DEF Explained
  <2>4. /\ UNCHANGED <<inflight, replies, reacted, mishap>>
        /\ up' \in {up, up \ {target}} /\ sent' \in {sent, sent \cup {k}}
    BY <1>6 DEF StartMany, net, history
  <2>5. mishap' \subseteq sent'
    BY <1>i, <2>4 DEF Mishaps
  <2>6. ASSUME NEW ok \in BOOLEAN, Judge(ok)
        PROVE  NetInv'
    BY <2>1, <2>2, <2>3, <2>4, <2>5, <2>6, JudgeSettles
  <2>7. CASE /\ sent' = sent \cup {k} /\ Exit(2)
             /\ UNCHANGED <<cfg, addrOverride, k, verdicts, failed>>
    <3>1. rpc' = "ended" /\ k \notin DOMAIN verdicts /\ Underway
      BY <2>1, <2>7, WaitingForOne DEF Exit
    <3>2. Wire' /\ Once' /\ Waiting' /\ Mishaps'
      BY <1>i, <2>4, <2>5, <2>7, <3>1 DEF Wire, Once, Waiting, Mishaps
    <3>3. Served'
      BY <1>i, <2>4, <2>7, <3>1 DEF Served
    <3>4. Stray' /\ VerdictExplained'
      BY <1>i, <2>4, <2>7, <3>1 DEF Stray, VerdictExplained
    <3> QED
      BY <3>2, <3>3, <3>4 DEF NetInv
  <2> QED
    BY <1>6, <2>6, <2>7 DEF StartMany
<1>7. CASE Summary
  <2>1. /\ rpc = "scenario" /\ rpc' = "ended"
        /\ UNCHANGED <<cfg, k, verdicts, sent, reacted, mishap, inflight, replies, up>>
    BY <1>7 DEF Summary, Exit, history, net
  <2> QED
    BY <1>i, <2>1 DEF NetInv, Wire, Served, Underway, Once, Waiting, Mishaps, Stray,
       VerdictExplained
<1>8. CASE rpc # "ended" /\ Serve
  <2>1. PICK d \in inflight, reaction \in Reactions :
          /\ d.to \in up
          /\ inflight' = inflight \ {d}
          /\ reacted' = [reacted EXCEPT ![d.n] = reaction]
          /\ replies' = IF reaction \in {Dropped, Crashed} THEN replies
                        ELSE replies \cup {[n |-> d.n, code |-> reaction]}
          /\ up' = IF reaction = Crashed THEN up \ {d.to} ELSE up
    BY <1>8 DEF Serve
  <2>2. UNCHANGED <<cfg, addrOverride, rpc, k, verdicts, failed, exit, sent, mishap>>
    BY <1>8 DEF Serve
  <2>3. d.n \in sent /\ reacted[d.n] = Unserved
    BY <1>i DEF Wire, Once
  <2>4. rpc \in {"scenario", "await"}
    BY <1>8, <2>3 DEF RunInv, RunTypes, Fresh
  <2>5. /\ Underway /\ sent \subseteq 1 .. Len(cfg.scenarios)
        /\ k \notin DOMAIN verdicts
        /\ d.n \in DOMAIN verdicts \/ (rpc = "await" /\ d.n = k)
    BY <2>3, <2>4, WaitingForOne
  <2>6. /\ reacted \in [1 .. Len(cfg.scenarios) -> Reactions \cup {Unserved}]
        /\ reacted'[d.n] = reaction
        /\ \A n \in 1 .. Len(cfg.scenarios) : n # d.n => reacted'[n] = reacted[n]
    BY <1>i, <2>1, <2>3, <2>5 DEF Served
  <2>7. /\ \A e \in inflight' : e \in inflight /\ e.n # d.n
        /\ \A r \in replies : r.n # d.n /\ r.n \in 1 .. Len(cfg.scenarios)
        /\ \A e \in inflight : e.n \in 1 .. Len(cfg.scenarios)
    BY <1>i, <2>1, <2>3, <2>5, ReactionTypes DEF Once, Wire
  <2>8. Wire'
    <3>1. \A r \in replies' : \/ r \in replies
                              \/ /\ r = [n |-> d.n, code |-> reaction]
                                 /\ reaction \notin {Dropped, Crashed}
      BY <2>1
    <3> QED
      BY <1>i, <2>1, <2>2, <2>3, <3>1 DEF Wire
  <2>9. Served'
    BY <1>i, <2>1, <2>2, <2>3, <2>5, <2>6 DEF Served
  <2>10. Once'
    BY <1>i, <2>1, <2>6, <2>7 DEF Once
  <2>11. Waiting'
    <3> SUFFICES ASSUME rpc = "await"
                 PROVE  Waiting'
      BY <2>2 DEF Waiting
    <3>1. sc' = sc /\ sc.type \in {"raw", "packet"}
      BY <1>i, <2>2 DEF sc, Waiting
    <3>2. CASE d.n = k
      <4>1. k \notin mishap
        BY <1>i, <3>2 DEF Waiting
      <4>2. (\E r \in replies' : r.n = k) \/ reacted'[k] \in {Dropped, Crashed}
        <5>1. CASE reaction \in {Dropped, Crashed}
          BY <2>6, <3>2, <5>1
        <5>2. CASE reaction \notin {Dropped, Crashed}
          <6>1. [n |-> d.n, code |-> reaction] \in replies'
            BY <2>1, <5>2
          <6>2. [n |-> d.n, code |-> reaction].n = k
            BY <3>2
          <6> QED
            BY <6>1, <6>2
        <5> QED
          BY <5>1, <5>2
      <4> QED
        BY <2>2, <3>1, <4>1, <4>2 DEF Waiting
    <3>3. CASE d.n # k
      <4>1. k \in 1 .. Len(cfg.scenarios)
        BY <2>4, WaitingForOne
      <4>2. reacted'[k] = reacted[k]
        BY <2>6, <3>3, <4>1
      <4>3. \A e \in inflight : e.n = k => e \in inflight'
        BY <2>1, <3>3
      <4>4. /\ (\E e \in inflight' : e.n = k) <=> \E e \in inflight : e.n = k
            /\ (\E r \in replies' : r.n = k) <=> \E r \in replies : r.n = k
        BY <2>1, <3>3, <4>3
      <4> QED
        BY <1>i, <2>2, <3>1, <4>2, <4>4 DEF Waiting
    <3> QED
      BY <3>2, <3>3
  <2>12. Mishaps'
    BY <1>i, <2>2 DEF Mishaps
  <2>13. d.n \in DOMAIN verdicts =>
           /\ verdicts[d.n] => cfg.scenarios[d.n].response = "Timeout"
           /\ d.n \in mishap
    BY <1>i, <2>1 DEF Stray
  <2>14. Stray'
    <3>1. \A r \in replies' : r \in replies \/ r.n = d.n
      BY <2>1
    <3>2. up' \subseteq up
      BY <2>1
    <3> QED
      BY <1>i, <2>2, <2>7, <2>13, <3>1, <3>2 DEF Stray
  <2>15. VerdictExplained'
    <3>1. ASSUME NEW n \in DOMAIN verdicts \cap sent
          PROVE  Explained(cfg.scenarios[n], verdicts[n], n \in mishap, reacted'[n])
      <4>1. Explained(cfg.scenarios[n], verdicts[n], n \in mishap, reacted[n])
        BY <1>i, ExplainedEach
      <4>2. CASE n = d.n
        BY <2>13, <4>2 DEF Explained
      <4>3. CASE n # d.n
        BY <2>5, <2>6, <4>1, <4>3
      <4> QED
        BY <4>2, <4>3
    <3> QED
      BY <2>2, <3>1 DEF VerdictExplained, Explained
  <2> QED
    BY <2>8, <2>9, <2>10, <2>11, <2>12, <2>14, <2>15 DEF NetInv
<1>9. CASE rpc # "ended" /\ Lose
  <2>1. UNCHANGED <<cfg, addrOverride, rpc, k, up, verdicts, failed, exit, sent, reacted>>
    BY <1>9 DEF Lose
  <2>2. PICK x \in inflight \cup replies :
          /\ mishap' = mishap \cup {x.n}
          /\ \/ x \in inflight /\ inflight' = inflight \ {x} /\ UNCHANGED replies
             \/ x \in replies /\ replies' = replies \ {x} /\ UNCHANGED inflight
    BY <1>9 DEF Lose
  <2>3. x.n \in sent
    BY <1>i, <2>2 DEF Wire
  <2>4. /\ \A d \in inflight' : d \in inflight /\ d.n # x.n
        /\ \A r \in replies' : r \in replies /\ r.n # x.n
    <3>1. CASE x \in inflight /\ inflight' = inflight \ {x} /\ UNCHANGED replies
      BY <1>i, <3>1, ReactionTypes DEF Once, Wire
    <3>2. CASE x \in replies /\ replies' = replies \ {x} /\ UNCHANGED inflight
      <4>1. ASSUME NEW r \in replies, r.n = x.n
            PROVE  r = x
        <5>1. r.code = x.code
          BY <1>i, <3>2, <4>1 DEF Once
        <5>2. r = [n |-> r.n, code |-> r.code] /\ x = [n |-> x.n, code |-> x.code]
          BY <1>i, <3>2 DEF Wire
        <5> QED
          BY <4>1, <5>1, <5>2
      <4> QED
        BY <1>i, <3>2, <4>1, ReactionTypes DEF Once, Wire
    <3> QED
      BY <2>2, <3>1, <3>2
  <2>5. Wire' /\ Served' /\ Once' /\ Mishaps'
    BY <1>i, <2>1, <2>2, <2>3, <2>4 DEF Wire, Served, Underway, Once, Mishaps
  <2>6. Waiting'
    <3> SUFFICES ASSUME rpc = "await"
                 PROVE  Waiting'
      BY <2>1 DEF Waiting
    <3>1. sc' = sc /\ sc.type \in {"raw", "packet"}
      BY <1>i, <2>1 DEF sc, Waiting
    <3>2. CASE k = x.n
      BY <2>1, <2>2, <2>4, <3>1, <3>2 DEF Waiting
    <3>3. CASE k # x.n
      <4>1. /\ (\E e \in inflight' : e.n = k) <=> \E e \in inflight : e.n = k
            /\ (\E r \in replies' : r.n = k) <=> \E r \in replies : r.n = k
            /\ k \in mishap' <=> k \in mishap
        BY <2>2, <3>3
      <4> QED
        BY <1>i, <2>1, <3>1, <4>1 DEF Waiting
    <3> QED
      BY <3>2, <3>3
  <2>7. Stray'
    BY <1>i, <2>1, <2>2, <2>4 DEF Stray
  <2>8. VerdictExplained'
    <3>1. ASSUME NEW n \in DOMAIN verdicts \cap sent
          PROVE  Explained(cfg.scenarios[n], verdicts[n], n \in mishap', reacted[n])
      <4>1. Explained(cfg.scenarios[n], verdicts[n], n \in mishap, reacted[n])
        BY <1>i, ExplainedEach
      <4>2. CASE n = x.n
        <5>1. verdicts[n] => cfg.scenarios[n].response = "Timeout"
          BY <1>i, <2>2, <4>2 DEF Stray
        <5> QED
          BY <2>2, <4>2, <5>1 DEF Explained
      <4>3. CASE n # x.n
        <5>1. n \in mishap' <=> n \in mishap
          BY <2>2, <4>3
        <5> QED
          BY <4>1, <5>1 DEF Explained
      <4> QED
        BY <4>2, <4>3
    <3> QED
      BY <2>1, <3>1 DEF VerdictExplained, Explained
  <2> QED
    BY <2>5, <2>6, <2>7, <2>8 DEF NetInv
<1>10. CASE UNCHANGED vars
  <2>1. UNCHANGED <<cfg, rpc, k, verdicts, sent, reacted, mishap, inflight, replies, up>>
    BY <1>10 DEF vars, history, net
  <2> QED
    BY <1>i, <2>1 DEF NetInv, Wire, Served, Underway, Once, Waiting, sc, Mishaps, Stray,
       VerdictExplained
<1> QED
  BY <1>1, <1>2, <1>3, <1>4, <1>5, <1>6, <1>7, <1>8, <1>9, <1>10 DEF Next

(* For any files and servers: without a mishap on the way a scenario of    *)
(* one packet is ok exactly when the server did with its own packet what   *)
(* response asks for, whatever the order in which packets, answers and     *)
(* deadlines of this scenario and of those before it come; after a mishap  *)
(* only a scenario that asserts silence can be ok (runScenario).           *)
THEOREM VerdictExplainedCorrect == Spec => []VerdictExplained
<1>1. NetInv => VerdictExplained
  BY DEF NetInv
<1> QED
  BY <1>1, RunAlways, NetInit, NetStep, PTL DEF Spec

-------------------------------------------------------------------------------
USE ScenarioAssumption

(* FuzzScenario: the loop counts to Iterations and no further and starts   *)
(* from the attributes of the file each time, an accepted mutation is      *)
(* counted unless it is allowed, and a success is said in the step that    *)
(* has heard from the server.                                              *)
FuzzLoop ==
    /\ fpc \in {"baseline", "mutate", "await", "health", "final", "ended", "panic"}
    /\ i \in 0 .. Iterations
    /\ fpc = "baseline" => i = 0
    /\ fpc \in {"await", "health"} => i < Iterations
    /\ fpc = "final" => i = Iterations
    /\ fuzzListIdx \in Nat /\ findings \in Nat
    /\ scAttrs = Seed
FuzzCount == accepted /\ ExpectNoAccept => findings > 0
FuzzSaid ==
    result = "ok" => fpc = "ended" /\ findings = 0 /\ server = "up" /\ i = Iterations
FuzzInv == FuzzLoop /\ FuzzCount /\ FuzzSaid

LEMMA FuzzInit == ASSUME FInit PROVE FuzzInv
<1>1. Iterations \in Nat \ {0}
  BY DEF validated
<1> QED
  BY <1>1 DEF FInit, FuzzInv, FuzzLoop, FuzzCount, FuzzSaid

LEMMA FuzzStep == ASSUME FuzzInv, [FNext]_fvars PROVE FuzzInv'
<1>n. Iterations \in Nat \ {0} /\ i \in Int /\ findings \in Nat
  BY DEF validated, FuzzInv, FuzzLoop
<1>1. CASE Baseline
  <2>1. /\ fpc = "baseline"
        /\ \/ fpc' = "mutate" /\ UNCHANGED <<i, result>>
           \/ fpc' = "ended" /\ result' = "baseline failed" /\ UNCHANGED i
        /\ UNCHANGED <<scAttrs, fuzzListIdx, findings, server, accepted>>
    BY <1>1 DEF Baseline, CheckHealth, Return
  <2> QED
    BY <1>n, <2>1 DEF FuzzInv, FuzzLoop, FuzzCount, FuzzSaid
<1>2. CASE PeriodicCheck
  <2>1. /\ fpc = "health"
        /\ \/ fpc' = "mutate" /\ i' = i + 1 /\ UNCHANGED result
           \/ fpc' = "ended" /\ result' = "degraded" /\ UNCHANGED i
        /\ UNCHANGED <<scAttrs, fuzzListIdx, findings, server, accepted>>
    BY <1>2 DEF PeriodicCheck, CheckHealth, Return
  <2> QED
    BY <1>n, <2>1 DEF FuzzInv, FuzzLoop, FuzzCount, FuzzSaid
<1>3. CASE FinalCheck
  <2>1. /\ fpc = "final" /\ fpc' = "ended"
        /\ \/ server = "up" /\ result' = IF findings > 0 THEN "findings" ELSE "ok"
           \/ result' = "degraded"
        /\ UNCHANGED <<i, scAttrs, fuzzListIdx, findings, server, accepted>>
    BY <1>3 DEF FinalCheck, CheckHealth, Return, SeedOutcomes
  <2> QED
    BY <1>n, <2>1 DEF FuzzInv, FuzzLoop, FuzzCount, FuzzSaid
<1>4. CASE Mutate
  <2>1. /\ fpc = "mutate" /\ i < Iterations
        /\ fuzzListIdx' \in {fuzzListIdx, fuzzListIdx + 1}
        /\ \/ fpc' = "await" /\ UNCHANGED i
           \/ fpc' = fpc /\ i' = i + 1
        /\ UNCHANGED <<scAttrs, findings, result, server, accepted>>
    BY <1>4 DEF Mutate, MutateByLine
  <2> QED
    BY <1>n, <2>1 DEF FuzzInv, FuzzLoop, FuzzCount, FuzzSaid
<1>5. CASE Send
  <2>1. /\ fpc = "await"
        /\ \/ /\ fpc' = "ended" /\ result' = "unreachable"
              /\ UNCHANGED <<i, findings, accepted>>
           \/ fpc' = "panic" /\ UNCHANGED <<i, findings, result, accepted>>
           \/ /\ \/ fpc' = "health" /\ UNCHANGED i
                 \/ fpc' = "mutate" /\ i' = i + 1
              /\ UNCHANGED result
              /\ \/ (accepted' <=> accepted) /\ UNCHANGED findings
                 \/ ~ExpectNoAccept /\ UNCHANGED findings
                 \/ ExpectNoAccept /\ findings' = findings + 1
        /\ UNCHANGED <<scAttrs, fuzzListIdx, server>>
    <3>1. PICK outcome \in PacketOutcomes :
            \/ /\ outcome = "neterr" /\ Return("unreachable")
               /\ UNCHANGED <<i, findings, accepted>>
            \/ /\ outcome = "empty" /\ fpc' = "panic"
               /\ UNCHANGED <<i, findings, result, accepted>>
            \/ /\ outcome \in {"accept", "other", "timeout"}
               /\ accepted' = (accepted \/ outcome = "accept")
               /\ findings' = IF outcome = "accept" /\ ExpectNoAccept THEN findings + 1
                              ELSE findings
               /\ NextIteration /\ UNCHANGED result
      BY <1>5 DEF Send
    <3>2. CASE outcome = "accept"
      BY <1>5, <3>1, <3>2 DEF Send, Return, NextIteration
    <3>3. CASE outcome # "accept"
      BY <1>5, <3>1, <3>3 DEF Send, Return, NextIteration
    <3> QED
      BY <3>2, <3>3
  <2>2. FuzzLoop'
    BY <1>n, <2>1 DEF FuzzInv, FuzzLoop
  <2>3. FuzzCount'
    <3>1. CASE ExpectNoAccept /\ findings' = findings + 1
      BY <1>n, <3>1 DEF FuzzInv, FuzzLoop, FuzzCount
    <3>2. CASE ~ExpectNoAccept
      BY <3>2 DEF FuzzCount
    <3>3. CASE (accepted' <=> accepted) /\ UNCHANGED findings
      BY <3>3 DEF FuzzInv, FuzzCount
    <3>4. CASE UNCHANGED <<accepted, findings>>
      BY <3>4 DEF FuzzInv, FuzzCount
    <3> QED
      BY <2>1, <3>1, <3>2, <3>3, <3>4
  <2>4. FuzzSaid'
    BY <2>1 DEF FuzzInv, FuzzSaid
  <2> QED
    BY <2>2, <2>3, <2>4 DEF FuzzInv
<1>6. CASE LoopDone
  BY <1>n, <1>6 DEF LoopDone, FuzzInv, FuzzLoop, FuzzCount, FuzzSaid
<1>7. CASE Crash
  BY <1>7 DEF Crash, FuzzInv, FuzzLoop, FuzzCount, FuzzSaid
<1>8. CASE UNCHANGED fvars
  BY <1>8 DEF fvars, FuzzInv, FuzzLoop, FuzzCount, FuzzSaid
<1> QED
  BY <1>1, <1>2, <1>3, <1>4, <1>5, <1>6, <1>7, <1>8 DEF FNext, Client, Over

(* For any seed, strategies, list and number of iterations: a scenario     *)
(* that reports success has heard from a live server after its last        *)
(* mutation, and no mutation was accepted that should not be               *)
(* (runFuzzScenario).  It is what StartMany takes a fuzz scenario to say.  *)
THEOREM OkMeansUpAndRejectingCorrect ==
    FSpec => []OkMeansUpAndRejecting
<1>1. FInit => FuzzInv
  BY FuzzInit
<1>2. FuzzInv /\ [FNext]_fvars => FuzzInv'
  BY FuzzStep
<1>3. FuzzInv => OkMeansUpAndRejecting
  BY DEF FuzzInv, FuzzCount, FuzzSaid, OkMeansUpAndRejecting
<1> QED
  BY <1>1, <1>2, <1>3, PTL DEF FSpec

(* How much a fuzz scenario has left to do: up to three steps for each     *)
(* iteration, and the server may go down once.                             *)
ToDo == 3 * (Iterations - i)
FuzzLeft == (CASE fpc = "baseline" -> ToDo + 3
               [] fpc = "mutate"   -> ToDo + 2
               [] fpc = "await"    -> ToDo + 1
               [] fpc = "health"   -> ToDo
               [] fpc = "final"    -> 1
               [] OTHER            -> 0)
            + IF server = "up" THEN 1 ELSE 0

LEMMA FuzzLeftType == ASSUME FuzzInv PROVE FuzzLeft \in 0 .. 3 * Iterations + 4
<1>1. Iterations \in Nat \ {0} /\ i \in 0 .. Iterations
  BY DEF validated, FuzzInv, FuzzLoop
<1>2. ToDo \in 0 .. 3 * Iterations
  BY <1>1 DEF ToDo
<1> HIDE DEF ToDo
<1> QED
  BY <1>1, <1>2 DEF FuzzLeft

LEMMA FuzzLeftStep == ASSUME FuzzInv, FuzzInv', FNext PROVE [FuzzLeft' < FuzzLeft]_fvars
<1>0. /\ Iterations \in Nat \ {0} /\ i \in 0 .. Iterations
      /\ fpc \in {"await", "health"} => i < Iterations
  BY DEF validated, FuzzInv, FuzzLoop
<1>1. /\ ToDo \in Nat
      /\ i' = i => ToDo' = ToDo
      /\ i' = i + 1 => ToDo' = ToDo - 3
      /\ i < Iterations => ToDo > 0
  BY <1>0 DEF ToDo
<1> HIDE DEF ToDo
<1>2. ASSUME server' = server,
             \/ fpc = "baseline" /\ fpc' = "mutate" /\ i' = i
             \/ fpc = "mutate" /\ fpc' \in {"mutate", "final"} /\ i' \in {i, i + 1}
                  /\ (fpc' = "mutate" => i' = i + 1)
             \/ fpc = "mutate" /\ fpc' = "await" /\ i' = i
             \/ fpc = "await" /\ fpc' = "health" /\ i' = i
             \/ fpc \in {"await", "health"} /\ fpc' = "mutate" /\ i' = i + 1
             \/ fpc \in {"baseline", "await", "health", "final"} /\ fpc' \in {"ended", "panic"}
      PROVE  FuzzLeft' < FuzzLeft
  BY <1>0, <1>1, <1>2 DEF FuzzLeft
<1>3. CASE Baseline
  BY <1>2, <1>3 DEF Baseline, CheckHealth, Return
<1>4. CASE PeriodicCheck
  BY <1>2, <1>4 DEF PeriodicCheck, CheckHealth, Return
<1>5. CASE FinalCheck
  BY <1>2, <1>5 DEF FinalCheck, CheckHealth, Return
<1>6. CASE Mutate
  BY <1>2, <1>6 DEF Mutate, MutateByLine
<1>7. CASE Send
  BY <1>2, <1>7 DEF Send, Return, NextIteration
<1>8. CASE LoopDone
  BY <1>2, <1>8 DEF LoopDone
<1>9. CASE Crash
  BY <1>0, <1>1, <1>9 DEF Crash, FuzzLeft
<1>10. CASE Over
  BY <1>10 DEF Over
<1> QED
  BY <1>3, <1>4, <1>5, <1>6, <1>7, <1>8, <1>9, <1>10 DEF FNext, Client

(* For any seed, strategies, list and number of iterations: every step     *)
(* leaves less to do, so the scenario is one step of a run that goes on    *)
(* after it (runScenarios), however the server answers.                    *)
THEOREM FuzzRunsOut ==
    FSpec => [](FuzzLeft \in 0 .. 3 * Iterations + 4) /\ [][FuzzLeft' < FuzzLeft]_fvars
<1>1. FInit => FuzzInv
  BY FuzzInit
<1>2. FuzzInv /\ [FNext]_fvars => FuzzInv'
  BY FuzzStep
<1>3. FuzzInv => FuzzLeft \in 0 .. 3 * Iterations + 4
  BY FuzzLeftType
<1>4. FuzzInv /\ FuzzInv' /\ [FNext]_fvars => [FuzzLeft' < FuzzLeft]_fvars
  BY FuzzLeftStep
<1> QED
  BY <1>1, <1>2, <1>3, <1>4, PTL DEF FSpec

-------------------------------------------------------------------------------
(* The place in the list is the number of marked_range's turns so far.     *)
Sweeps == FuzzList # <<>> /\ Marked(Seed) # {}
LineOf(n) == FuzzList[(n % Len(FuzzList)) + 1]
FuzzPlace ==
    Sweeps =>
        /\ fpc \in {"baseline", "mutate"} => fuzzListIdx = Cardinality(Turns(i - 1))
        /\ fpc \in {"await", "health"} => fuzzListIdx = Cardinality(Turns(i))

(* A turn of marked_range adds one to their number, any other turn none.   *)
LEMMA TurnsGrow ==
    ASSUME NEW n \in Nat
    PROVE  Cardinality(Turns(n)) =
              IF StrategyAt(n).strategy = "marked_range"
              THEN Cardinality(Turns(n - 1)) + 1 ELSE Cardinality(Turns(n - 1))
<1>1. IsFiniteSet(0 .. n - 1)
  <2>1. 0 \in Int /\ n - 1 \in Int
    OBVIOUS
  <2> QED
    BY <2>1, FS_Interval
<1>2. Turns(n - 1) \subseteq 0 .. n - 1
  BY DEF Turns
<1>3. IsFiniteSet(Turns(n - 1)) /\ Cardinality(Turns(n - 1)) \in Nat
  BY <1>1, <1>2, FS_Subset, FS_CardinalityType
<1>4. n \notin Turns(n - 1)
  BY DEF Turns
<1>5. CASE StrategyAt(n).strategy = "marked_range"
  <2>1. Turns(n) = Turns(n - 1) \cup {n}
    BY <1>5 DEF Turns
  <2>2. Cardinality(Turns(n - 1) \cup {n}) = Cardinality(Turns(n - 1)) + 1
    BY <1>3, <1>4, FS_AddElement
  <2> QED
    BY <1>5, <2>1, <2>2
<1>6. CASE StrategyAt(n).strategy # "marked_range"
  <2>1. Turns(n) = Turns(n - 1)
    BY <1>6 DEF Turns
  <2> QED
    BY <1>6, <2>1
<1> QED
  BY <1>5, <1>6

LEMMA PlaceInit == ASSUME FInit PROVE FuzzPlace
<1>1. i = 0 /\ fuzzListIdx = 0 /\ fpc = "baseline"
  BY DEF FInit
<1>2. Turns(i - 1) = {}
  BY <1>1 DEF Turns
<1> QED
  BY <1>1, <1>2, FS_EmptySet DEF FuzzPlace

(* The iteration goes by the strategy whose turn it is; marked_range takes *)
(* the line at the place, and moves on.                                    *)
LEMMA MutateTakes ==
    ASSUME FuzzInv, Mutate
    PROVE  /\ fpc = "mutate"
           /\ \/ fpc' = "await" /\ i' = i
              \/ fpc' = "mutate" /\ i' = i + 1
           /\ Sweeps /\ StrategyAt(i).strategy = "marked_range" =>
                /\ mutated' \in MarkedRange(Seed, LineOf(fuzzListIdx))
                /\ fuzzListIdx' = fuzzListIdx + 1
           /\ ~Sweeps /\ StrategyAt(i).strategy = "marked_range" => mutated' = Seed
           /\ StrategyAt(i).strategy # "marked_range" =>
                /\ mutated' \in
                     Mutations(StrategyAt(i).strategy, Seed, StrategyAt(i).target)
                /\ fuzzListIdx' = fuzzListIdx
<1>1. /\ fpc = "mutate" /\ scAttrs = Seed
      /\ \/ fpc' = "await" /\ i' = i
         \/ fpc' = "mutate" /\ i' = i + 1
  BY DEF Mutate, MutateByLine, FuzzInv, FuzzLoop
<1>2. CASE StrategyAt(i).strategy = "marked_range"
  BY <1>1, <1>2 DEF Mutate, MutateByLine, TakesLine, spec, Sweeps, LineOf
<1>3. CASE StrategyAt(i).strategy # "marked_range"
  BY <1>1, <1>3 DEF Mutate, MutateByLine, TakesLine, spec
<1> QED
  BY <1>2, <1>3

(* Every other step leaves the mutation alone, and the place.              *)
LEMMA OthersKeep ==
    ASSUME [FNext]_fvars, ~Mutate
    PROVE  /\ UNCHANGED <<mutated, fuzzListIdx>>
           /\ \/ fpc' = fpc /\ i' = i
              \/ fpc = "baseline" /\ fpc' = "mutate" /\ i' = i
              \/ fpc = "health" /\ fpc' = "mutate" /\ i' = i + 1
              \/ fpc = "await" /\ fpc' = "health" /\ i' = i
              \/ fpc = "await" /\ fpc' = "mutate" /\ i' = i + 1
              \/ fpc' \in {"ended", "panic", "final"}
<1>1. CASE Baseline \/ PeriodicCheck \/ FinalCheck
  BY <1>1 DEF Baseline, PeriodicCheck, FinalCheck, CheckHealth, Return
<1>2. CASE Send
  BY <1>2 DEF Send, Return, NextIteration
<1>3. CASE LoopDone
  BY <1>3 DEF LoopDone
<1>4. CASE Crash
  BY <1>4 DEF Crash
<1>5. CASE UNCHANGED fvars
  BY <1>5 DEF fvars
<1> QED
  BY <1>1, <1>2, <1>3, <1>4, <1>5 DEF FNext, Client, Over

LEMMA PlaceStep ==
    ASSUME FuzzInv, FuzzPlace, LinesInTurn, [FNext]_fvars
    PROVE  FuzzPlace' /\ LinesInTurn'
<1>n. i \in Nat /\ fuzzListIdx \in Nat
  BY DEF validated, FuzzInv, FuzzLoop
<1>c. Sweeps' = Sweeps /\ \A n : Turns(n)' = Turns(n)
  BY DEF Sweeps, Turns, StrategyAt
<1>1. CASE Mutate
  <2> SUFFICES ASSUME Sweeps
               PROVE  FuzzPlace' /\ LinesInTurn'
    BY DEF FuzzPlace, LinesInTurn, Sweeps
  <2>1. fuzzListIdx = Cardinality(Turns(i - 1))
    BY <1>1, MutateTakes DEF FuzzPlace
  <2>2. fuzzListIdx' = Cardinality(Turns(i))
    BY <1>1, <1>n, <2>1, MutateTakes, TurnsGrow
  <2>3. FuzzPlace'
    <3>1. CASE fpc' = "await" /\ i' = i
      BY <2>2, <3>1 DEF FuzzPlace
    <3>2. CASE fpc' = "mutate" /\ i' = i + 1
      <4>1. i' - 1 = i
        BY <1>n, <3>2
      <4> QED
        BY <2>2, <3>2, <4>1 DEF FuzzPlace
    <3> QED
      BY <1>1, <3>1, <3>2, MutateTakes
  <2>4. LinesInTurn'
    <3> SUFFICES ASSUME fpc' = "await", i' \in Turns(i')
                 PROVE  mutated' \in MarkedRange(Seed, LineOf(Cardinality(Turns(i')) - 1))
      BY DEF LinesInTurn, LineOf, Sweeps
    <3>1. i' = i
      BY <1>1, MutateTakes
    <3>2. StrategyAt(i).strategy = "marked_range"
      BY <3>1 DEF Turns
    <3>3. fuzzListIdx' - 1 = fuzzListIdx /\ mutated' \in MarkedRange(Seed, LineOf(fuzzListIdx))
      BY <1>1, <1>n, <3>2, MutateTakes
    <3> QED
      BY <2>2, <3>1, <3>3
  <2> QED
    BY <2>3, <2>4
<1>2. CASE ~Mutate
  <2>1. /\ UNCHANGED <<mutated, fuzzListIdx>>
        /\ \/ fpc' = fpc /\ i' = i
           \/ fpc = "baseline" /\ fpc' = "mutate" /\ i' = i
           \/ fpc = "health" /\ fpc' = "mutate" /\ i' = i + 1
           \/ fpc = "await" /\ fpc' = "health" /\ i' = i
           \/ fpc = "await" /\ fpc' = "mutate" /\ i' = i + 1
           \/ fpc' \in {"ended", "panic", "final"}
    BY <1>2, OthersKeep
  <2>2. FuzzPlace'
    <3>1. CASE fpc' = fpc /\ i' = i
      BY <2>1, <3>1 DEF FuzzPlace
    <3>2. CASE fpc \in {"baseline", "health", "await"} /\ fpc' = "mutate"
      <4>1. fuzzListIdx' = fuzzListIdx
        BY <2>1
      <4>2. CASE fpc = "baseline" /\ i' = i
        BY <3>2, <4>1, <4>2 DEF FuzzPlace
      <4>3. CASE fpc \in {"health", "await"} /\ i' - 1 = i
        BY <3>2, <4>1, <4>3 DEF FuzzPlace
      <4> QED
        BY <1>n, <2>1, <3>2, <4>2, <4>3
    <3>3. CASE fpc = "await" /\ fpc' = "health" /\ i' = i
      BY <2>1, <3>3 DEF FuzzPlace
    <3>4. CASE fpc' \in {"ended", "panic", "final"}
      BY <3>4 DEF FuzzPlace
    <3> QED
      BY <2>1, <3>1, <3>2, <3>3, <3>4
  <2>3. LinesInTurn'
    BY <2>1 DEF LinesInTurn
  <2> QED
    BY <2>2, <2>3
<1> QED
  BY <1>1, <1>2

(* For any list, strategies and answers: the Nth turn of marked_range uses *)
(* the Nth line, whatever the other strategies do and whether or not its   *)
(* packet could be built (mutateMarkedRange).                              *)
THEOREM LinesInTurnCorrect ==
    FSpec => []LinesInTurn
<1> DEFINE PlaceInv == FuzzInv /\ FuzzPlace /\ LinesInTurn
<1>1. FInit => PlaceInv
  BY FuzzInit, PlaceInit DEF LinesInTurn, FInit
<1>2. PlaceInv /\ [FNext]_fvars => PlaceInv'
  BY FuzzStep, PlaceStep
<1> QED
  BY <1>1, <1>2, PTL DEF FSpec

-------------------------------------------------------------------------------
(* CheckedInTime: which packets a turn may come to, and the condition that *)
(* the model checker's counterexample asks for.  An iteration whose packet *)
(* does not build ends before its health check.                            *)
TurnResults(j) ==
    IF StrategyAt(j).strategy # "marked_range"
    THEN Mutations(StrategyAt(j).strategy, Seed, StrategyAt(j).target)
    ELSE IF Sweeps THEN MarkedRange(Seed, LineOf(Cardinality(Turns(j)) - 1)) ELSE {Seed}
CheckedTurnsBuild ==
    \A j \in 0 .. Iterations - 1 :
        (j + 1) % every = 0 => \A m \in TurnResults(j) : Builds(m)

(* The iterations since a check are those since the last multiple of every. *)
FuzzCheck ==
    /\ sinceCheck \in 0 .. every
    /\ fpc = "baseline" => sinceCheck = 0
    /\ fpc = "mutate" => sinceCheck <= i % every
    /\ fpc = "await" => sinceCheck <= (i % every) + 1
    /\ fpc = "health" => (i + 1) % every = 0

LEMMA ModNext ==
    ASSUME NEW n \in Nat, NEW e \in Nat \ {0}, (n + 1) % e # 0
    PROVE  (n + 1) % e = (n % e) + 1
<1> DEFINE q == n \div e
           r == n % e
<1>1. q \in Int /\ r \in 0 .. e - 1 /\ n = e * q + r
  BY SMT
<1> HIDE DEF q, r
<1>2. CASE r + 1 = e
  <2>1. n + 1 = e * (q + 1)
    BY <1>1, <1>2
  <2>2. (e * (q + 1)) % e = 0
    BY <1>1
  <2> QED
    BY <2>1, <2>2
<1>3. CASE r + 1 < e
  <2>1. n + 1 = e * q + (r + 1)
    BY <1>1
  <2>2. (e * q + (r + 1)) % e = r + 1
    BY <1>1, <1>3
  <2> QED
    BY <2>1, <2>2 DEF r
<1> QED
  BY <1>1, <1>2, <1>3

(* What an iteration mutates to is one of the results of its turn. *)
LEMMA MutatesWithinTurn ==
    ASSUME FuzzInv, FuzzPlace, Mutate
    PROVE  mutated' \in TurnResults(i)
<1>1. i \in Nat /\ fpc = "mutate"
  BY MutateTakes DEF FuzzInv, FuzzLoop
<1>2. CASE StrategyAt(i).strategy = "marked_range" /\ Sweeps
  <2>1. i \in Nat /\ fuzzListIdx = Cardinality(Turns(i - 1)) /\ fuzzListIdx \in Nat
    BY <1>1, <1>2 DEF FuzzPlace, FuzzInv, FuzzLoop
  <2>2. Cardinality(Turns(i)) - 1 = fuzzListIdx
    BY <1>2, <2>1, TurnsGrow
  <2> QED
    BY <1>2, <2>2, MutateTakes DEF TurnResults
<1>3. CASE StrategyAt(i).strategy = "marked_range" /\ ~Sweeps
  BY <1>3, MutateTakes DEF TurnResults
<1>4. CASE StrategyAt(i).strategy # "marked_range"
  BY <1>4, MutateTakes DEF TurnResults
<1> QED
  BY <1>2, <1>3, <1>4

LEMMA CheckStep ==
    ASSUME CheckedTurnsBuild, FuzzInv, FuzzPlace, FuzzCheck, [FNext]_fvars
    PROVE  FuzzCheck'
<1>e. every \in Nat \ {0} /\ i \in Nat /\ Iterations \in Nat
  BY DEF validated, every, FuzzInv, FuzzLoop
<1>n. /\ every \in Nat \ {0} /\ i \in Nat /\ Iterations \in Nat
      /\ i % every \in 0 .. every - 1 /\ (i + 1) % every \in 0 .. every - 1
  <2>1. i + 1 \in Nat
    BY <1>e
  <2> QED
    BY <1>e, <2>1
<1>m. every' = every
  BY DEF every
<1>1. CASE Baseline \/ PeriodicCheck \/ FinalCheck
  <2>1. /\ fpc' \in {"mutate", "ended"}
        /\ \/ sinceCheck' = 0
           \/ fpc' = "ended" /\ sinceCheck' = sinceCheck
        /\ i' \in {i, i + 1}
    BY <1>1 DEF Baseline, PeriodicCheck, FinalCheck, CheckHealth, Return
  <2>2. i' % every \in Nat
    <3>1. CASE i' = i
      BY <1>n, <3>1
    <3>2. CASE i' = i + 1
      BY <1>n, <3>2
    <3> QED
      BY <2>1, <3>1, <3>2
  <2>3. i' % every' \in Nat
    BY <1>m, <2>2
  <2>4. CASE sinceCheck' = 0
    <3>1. sinceCheck' \in 0 .. every' /\ (i' % every' >= 0 /\ i' % every' \in Int)
      BY <1>n, <1>m, <2>3, <2>4
    <3>2. sinceCheck' <= i' % every'
      BY <2>3, <2>4
    <3> QED
      BY <2>1, <2>4, <3>1, <3>2 DEF FuzzCheck
  <2>5. CASE fpc' = "ended" /\ sinceCheck' = sinceCheck
    BY <1>m, <2>5 DEF FuzzCheck
  <2> QED
    BY <2>1, <2>4, <2>5
<1>2. CASE Mutate
  <2>1. /\ fpc = "mutate" /\ i < Iterations /\ sinceCheck' = sinceCheck + 1
        /\ \/ Builds(mutated') /\ fpc' = "await" /\ i' = i
           \/ ~Builds(mutated') /\ fpc' = "mutate" /\ i' = i + 1
    BY <1>2 DEF Mutate, MutateByLine
  <2>2. CASE fpc' = "await" /\ i' = i
    BY <1>n, <1>m, <2>1, <2>2 DEF FuzzCheck
  <2>3. CASE ~Builds(mutated') /\ fpc' = "mutate" /\ i' = i + 1
    <3>1. (i + 1) % every # 0
      BY <1>2, <1>n, <2>1, <2>3, MutatesWithinTurn DEF CheckedTurnsBuild
    <3>2. (i + 1) % every = (i % every) + 1
      BY <1>n, <3>1, ModNext
    <3> QED
      BY <1>n, <1>m, <2>1, <2>3, <3>2 DEF FuzzCheck
  <2> QED
    BY <2>1, <2>2, <2>3
<1>3. CASE Send
  <2>1. /\ fpc = "await" /\ sinceCheck' = sinceCheck
        /\ \/ fpc' \in {"ended", "panic"} /\ i' = i
           \/ (i + 1) % every = 0 /\ fpc' = "health" /\ i' = i
           \/ (i + 1) % every # 0 /\ fpc' = "mutate" /\ i' = i + 1
    BY <1>3 DEF Send, Return, NextIteration
  <2>2. CASE (i + 1) % every # 0 /\ fpc' = "mutate" /\ i' = i + 1
    <3>1. (i + 1) % every = (i % every) + 1
      BY <1>n, <1>m, <2>2, ModNext
    <3> QED
      BY <1>n, <1>m, <2>1, <2>2, <3>1 DEF FuzzCheck
  <2>3. CASE fpc' \in {"ended", "panic", "health"} /\ i' = i
    BY <1>n, <1>m, <2>1, <2>3 DEF FuzzCheck
  <2> QED
    BY <2>1, <2>2, <2>3
<1>4. CASE LoopDone
  BY <1>4, <1>m DEF LoopDone, FuzzCheck
<1>5. CASE Crash
  BY <1>5, <1>m DEF Crash, FuzzCheck
<1>6. CASE UNCHANGED fvars
  BY <1>6, <1>m DEF fvars, FuzzCheck
<1> QED
  BY <1>1, <1>2, <1>3, <1>4, <1>5, <1>6 DEF FNext, Client, Over

(* For any number of iterations and any interval: if the packets of the    *)
(* iterations that end with a health check can be built, never more than   *)
(* that many iterations pass unchecked (runFuzzScenario).  Without the     *)
(* condition it is false, as the run fuzz_duplicate shows.                 *)
THEOREM CheckedInTimeCorrect ==
    CheckedTurnsBuild => (FSpec => []CheckedInTime)
<1> SUFFICES ASSUME CheckedTurnsBuild
             PROVE  FSpec => []CheckedInTime
  OBVIOUS
<1> DEFINE TimeInv == FuzzInv /\ FuzzPlace /\ LinesInTurn /\ FuzzCheck
<1>1. FInit => TimeInv
  <2> SUFFICES ASSUME FInit
               PROVE  TimeInv
    OBVIOUS
  <2>1. FuzzCheck
    BY DEF validated, FInit, FuzzCheck, every
  <2> QED
    BY <2>1, FuzzInit, PlaceInit DEF LinesInTurn, FInit
<1>2. TimeInv /\ [FNext]_fvars => TimeInv'
  BY FuzzStep, PlaceStep, CheckStep
<1>3. TimeInv => CheckedInTime
  BY DEF validated, FuzzCheck, CheckedInTime, every
<1> QED
  BY <1>1, <1>2, <1>3, PTL DEF FSpec

-------------------------------------------------------------------------------
(* What one mutation makes of the seed.                                    *)
OneChanged(m) ==
    \/ /\ Len(m) = Len(Seed)
       /\ Cardinality({l \in DOMAIN Seed : m[l] # Seed[l]}) <= 1
    \/ \E l \in DOMAIN Seed : m = InsertAt(Seed, l, Seed[l])
    \/ \E l \in DOMAIN Seed : m = RemoveAt(Seed, l)

(* What an attribute that is replaced may become; the strategies that lie  *)
(* about the length are free.                                              *)
Becomes(strategy, a, e) ==
    \/ strategy \in {"length_mismatch", "oversized_value"}
    \/ e = [a EXCEPT !.type = UnknownType]
    \/ \E n \in (0 .. a.bytes) \cup {16} : e = Hex(a, n)

Replaces(strategy, m) ==
    \E l \in DOMAIN Seed : \E e : m = [Seed EXCEPT ![l] = e] /\ Becomes(strategy, Seed[l], e)

LEMMA SeedTypes ==
    /\ Seed \in Seq(Attr) /\ Len(Seed) \in Nat /\ DOMAIN Seed = 1 .. Len(Seed)
    /\ \A l \in DOMAIN Seed : Seed[l] \in Attr
<1>1. Seed \in Seq(Attr)
  BY DEF validated
<1> QED
  BY <1>1

LEMMA AttrTypes ==
    ASSUME NEW a \in Attr
    PROVE  /\ a.bytes \in Nat
           /\ a = [type |-> a.type, form |-> a.form, bytes |-> a.bytes, length |-> a.length]
           /\ a.form = "ipv4" => a.bytes <= 45
<1> QED
  BY DEF Attr, Sized

LEMMA ReplacedIsOneChange ==
    ASSUME NEW l, NEW e
    PROVE  OneChanged([Seed EXCEPT ![l] = e])
<1> DEFINE m == [Seed EXCEPT ![l] = e]
           S == {m[j] : j \in 1 .. Len(Seed)}
           D == {j \in DOMAIN Seed : m[j] # Seed[j]}
<1>1. Seed \in [1 .. Len(Seed) -> Attr] /\ Len(Seed) \in Nat /\ DOMAIN Seed = 1 .. Len(Seed)
  BY SeedTypes
<1>2. DOMAIN m = 1 .. Len(Seed) /\ m \in [1 .. Len(Seed) -> S]
  BY <1>1
<1>3. m \in Seq(S)
  <2> HIDE DEF m, S
  <2> QED
    BY <1>1, <1>2, SeqDef
<1>4. Len(m) = Len(Seed)
  <2> HIDE DEF m, S
  <2>1. Len(m) \in Nat /\ DOMAIN m = 1 .. Len(m)
    BY <1>3, LenProperties
  <2> QED
    BY <1>1, <1>2, <2>1
<1>5. D \subseteq {l}
  BY <1>1
<1>6. Cardinality(D) <= 1
  <2>1. IsFiniteSet({l}) /\ Cardinality({l}) = 1
    BY FS_Singleton
  <2> HIDE DEF D
  <2> QED
    BY <1>5, <2>1, FS_Subset
<1> QED
  BY <1>4, <1>6 DEF OneChanged

LEMMA Regroup ==
    ASSUME NEW S, NEW a \in Seq(S), NEW b \in Seq(S), NEW c \in Seq(S)
    PROVE  ((a \o b) \o b) \o c = (a \o b) \o (b \o c)
<1>1. a \o b \in Seq(S)
  BY ConcatProperties
<1> QED
  BY <1>1, ConcatAssociative

(* A copy after an attribute is a copy before it. *)
LEMMA CopyAfterIsCopyBefore ==
    ASSUME NEW S, NEW s \in Seq(S), NEW l \in 1 .. Len(s)
    PROVE  /\ InsertAt(s, l + 1, s[l]) = InsertAt(s, l, s[l])
           /\ InsertAt(s, l, s[l]) \in Seq(S)
<1> DEFINE head == SubSeq(s, 1, l - 1)
           tail == SubSeq(s, l + 1, Len(s))
           e == <<s[l]>>
<1>1. /\ Len(s) \in Nat /\ l \in Nat /\ \A j \in 1 .. Len(s) : s[j] \in S
  BY LenProperties, ElementOfSeq
<1>2. head \in Seq(S) /\ tail \in Seq(S) /\ e \in Seq(S)
  BY <1>1
<1>3. SubSeq(s, 1, l) = head \o e
  <2>1. 1 \in 1 .. Len(s) /\ l \in 1 .. Len(s)
    BY <1>1
  <2> QED
    BY <1>1, <2>1, SubSeqRecursiveSecond
<1>4. SubSeq(s, l, Len(s)) = e \o tail
  <2>1. Len(s) \in l .. Len(s)
    BY <1>1
  <2> QED
    BY <1>1, <2>1, SubSeqRecursiveFirst
<1>5. InsertAt(s, l, s[l]) = (head \o e) \o (e \o tail)
  BY <1>4 DEF InsertAt
<1>6. InsertAt(s, l + 1, s[l]) = ((head \o e) \o e) \o tail
  <2> DEFINE n == l + 1
  <2>1. n - 1 = l
    BY <1>1
  <2>2. tail = SubSeq(s, n, Len(s))
    OBVIOUS
  <2> HIDE DEF n, tail
  <2>3. InsertAt(s, n, s[l]) = ((head \o e) \o e) \o tail
    BY <1>3, <2>1, <2>2 DEF InsertAt
  <2> QED
    BY <2>3 DEF n
<1> HIDE DEF head, tail, e
<1>7. head \o e \in Seq(S) /\ e \o tail \in Seq(S)
  BY <1>2
<1>8. ((head \o e) \o e) \o tail = (head \o e) \o (e \o tail)
  BY SMTT(30), <1>2, Regroup
<1>9. (head \o e) \o (e \o tail) \in Seq(S)
  BY <1>7, ConcatProperties
<1> QED
  BY <1>5, <1>6, <1>8, <1>9

LEMMA RestIsSeq ==
    ASSUME NEW S, NEW s \in Seq(S), NEW l \in 1 .. Len(s)
    PROVE  RemoveAt(s, l) \in Seq(S)
<1>1. /\ Len(s) \in Nat /\ l \in Nat /\ \A j \in 1 .. Len(s) : s[j] \in S
  BY LenProperties, ElementOfSeq
<1>2. SubSeq(s, 1, l - 1) \in Seq(S) /\ SubSeq(s, l + 1, Len(s)) \in Seq(S)
  BY <1>1
<1> QED
  BY <1>2, ConcatProperties DEF RemoveAt

(* Every strategy leaves the seed alone, replaces an attribute, repeats    *)
(* one, or drops one.                                                      *)
LEMMA TargetsInSeed ==
    ASSUME NEW goal
    PROVE  Targets(Seed, goal) \subseteq DOMAIN Seed
<1> QED
  BY DEF Targets

LEMMA MutationKinds ==
    ASSUME NEW strategy \in Strategy \ {"marked_range"}, NEW goal,
           NEW m \in Mutations(strategy, Seed, goal)
    PROVE  \/ m = Seed
           \/ Replaces(strategy, m)
           \/ \E l \in DOMAIN Seed : m = InsertAt(Seed, l + 1, Seed[l])
           \/ \E l \in DOMAIN Seed : m = RemoveAt(Seed, l)
<1>t. /\ Targets(Seed, goal) \subseteq DOMAIN Seed
      /\ Targets(Seed, MessageAuthenticator) \subseteq DOMAIN Seed
      /\ NonEmpty(Seed, goal) \subseteq DOMAIN Seed
  BY TargetsInSeed DEF NonEmpty
<1>1. CASE strategy = "length_mismatch"
  <2>1. m = Seed \/ \E l \in DOMAIN Seed : \E n : m = [Seed EXCEPT ![l].length = n]
    BY <1>1, <1>t DEF Mutations, LengthMismatch, OrUnchanged
  <2>2. ASSUME NEW l \in DOMAIN Seed, NEW n, m = [Seed EXCEPT ![l].length = n]
        PROVE  Replaces(strategy, m)
    <3>1. m = [Seed EXCEPT ![l] = [Seed[l] EXCEPT !.length = n]]
      BY <2>2
    <3> QED
      BY <1>1, <3>1 DEF Replaces, Becomes
  <2> QED
    BY <2>1, <2>2
<1>2. CASE strategy = "duplicate"
  BY <1>2, <1>t DEF Mutations, Duplicate, OrUnchanged
<1>3. CASE strategy = "missing_required"
  BY <1>3, <1>t DEF Mutations, MissingRequired, OrUnchanged
<1>4. CASE strategy = "oversized_value"
  <2>1. m = Seed \/ \E l \in DOMAIN Seed : m = [Seed EXCEPT ![l] = Hex(Seed[l], 300)]
    BY <1>4, <1>t DEF Mutations, OversizedValue, OrUnchanged
  <2> QED
    BY <1>4, <2>1 DEF Replaces, Becomes
<1>5. CASE strategy = "empty_value"
  <2>1. m = Seed \/ \E l \in DOMAIN Seed : m = [Seed EXCEPT ![l] = Hex(Seed[l], 0)]
    BY <1>5, <1>t DEF Mutations, EmptyValue, OrUnchanged
  <2>2. \A l \in DOMAIN Seed : 0 \in 0 .. Seed[l].bytes
    BY SeedTypes, AttrTypes
  <2> QED
    BY <2>1, <2>2 DEF Replaces, Becomes
<1>6. CASE strategy = "unknown_type"
  <2>1. m = Seed \/ \E l \in DOMAIN Seed : m = [Seed EXCEPT ![l].type = UnknownType]
    BY <1>6, <1>t DEF Mutations, ChangeType, OrUnchanged
  <2>2. ASSUME NEW l \in DOMAIN Seed, m = [Seed EXCEPT ![l].type = UnknownType]
        PROVE  Replaces(strategy, m)
    <3>1. m = [Seed EXCEPT ![l] = [Seed[l] EXCEPT !.type = UnknownType]]
      BY <2>2
    <3> QED
      BY <3>1 DEF Replaces, Becomes
  <2> QED
    BY <2>1, <2>2
<1>7. CASE strategy = "bit_flip"
  <2>1. m = Seed \/ \E l \in DOMAIN Seed : m = [Seed EXCEPT ![l] = Hex(Seed[l], Seed[l].bytes)]
    BY <1>7, <1>t DEF Mutations, BitFlip, MayGiveUp
  <2>2. \A l \in DOMAIN Seed : Seed[l].bytes \in 0 .. Seed[l].bytes
    BY SeedTypes, AttrTypes
  <2> QED
    BY <2>1, <2>2 DEF Replaces, Becomes
<1>8. CASE strategy = "truncate"
  <2>1. m = Seed \/ \E l \in DOMAIN Seed : \E n \in 0 .. Seed[l].bytes - 1 :
                       m = [Seed EXCEPT ![l] = Hex(Seed[l], n)]
    BY <1>8, <1>t DEF Mutations, Truncate, MayGiveUp
  <2>2. \A l \in DOMAIN Seed : 0 .. Seed[l].bytes - 1 \subseteq 0 .. Seed[l].bytes
    BY SeedTypes, AttrTypes
  <2> QED
    BY <2>1, <2>2 DEF Replaces, Becomes
<1>9. CASE strategy = "message_authenticator_tamper"
  <2>1. m = Seed \/ \E l \in DOMAIN Seed : m = [Seed EXCEPT ![l] = Hex(Seed[l], 16)]
    BY <1>9, <1>t DEF Mutations, TamperAuthenticator, OrUnchanged
  <2> QED
    BY <2>1 DEF Replaces, Becomes
<1> QED
  BY <1>1, <1>2, <1>3, <1>4, <1>5, <1>6, <1>7, <1>8, <1>9 DEF Strategy, Targetable

(* marked_range gives one attribute the form and the bytes of the line.    *)
InLine(a, line) ==
    [[[a EXCEPT !.form = line.form] EXCEPT !.bytes = line.bytes] EXCEPT !.length = NoLength]
Swept(m, line) ==
    \/ m = Seed
    \/ \E l \in DOMAIN Seed : m = [Seed EXCEPT ![l] = InLine(Seed[l], line)]

LEMMA ThreeFields ==
    ASSUME NEW D, NEW R, NEW s \in [D -> R], NEW l \in D, NEW f, NEW b, NEW n
    PROVE  [s EXCEPT ![l].form = f, ![l].bytes = b, ![l].length = n] =
           [s EXCEPT ![l] = [[[s[l] EXCEPT !.form = f] EXCEPT !.bytes = b] EXCEPT !.length = n]]
<1> QED
  OBVIOUS

LEMMA MarkedRangeKinds ==
    ASSUME NEW line, NEW m \in MarkedRange(Seed, line)
    PROVE  Swept(m, line)
<1>1. PICK l : m = [Seed EXCEPT ![l].form = line.form, ![l].bytes = line.bytes,
                                ![l].length = NoLength]
  BY DEF MarkedRange
<1>2. Seed \in [DOMAIN Seed -> Attr]
  BY SeedTypes
<1>3. CASE l \in DOMAIN Seed
  <2> DEFINE D == DOMAIN Seed
  <2>1. Seed \in [D -> Attr] /\ l \in D
    BY <1>2, <1>3
  <2> HIDE DEF D
  <2>2. [Seed EXCEPT ![l].form = line.form, ![l].bytes = line.bytes, ![l].length = NoLength] =
        [Seed EXCEPT ![l] = [[[Seed[l] EXCEPT !.form = line.form] EXCEPT !.bytes = line.bytes]
                              EXCEPT !.length = NoLength]]
    BY <2>1, ThreeFields
  <2>3. m = [Seed EXCEPT ![l] = InLine(Seed[l], line)]
    BY <1>1, <2>2 DEF InLine
  <2> QED
    BY <1>3, <2>3 DEF Swept
<1>4. CASE l \notin DOMAIN Seed
  <2>1. m = Seed
    BY <1>1, <1>2, <1>4
  <2> QED
    BY <2>1 DEF Swept
<1> QED
  BY <1>3, <1>4

(* What is sent is the mutation of the turn.                               *)
FuzzSent ==
    fpc = "await" =>
        LET s == StrategyAt(i)
        IN  IF s.strategy = "marked_range"
            THEN mutated = Seed \/ \E n \in DOMAIN FuzzList : Swept(mutated, FuzzList[n])
            ELSE mutated \in Mutations(s.strategy, Seed, s.target)

LEMMA SentStep ==
    ASSUME FuzzInv, FuzzSent, [FNext]_fvars
    PROVE  FuzzSent'
<1> SUFFICES ASSUME fpc' = "await"
             PROVE  FuzzSent'
  BY DEF FuzzSent
<1>1. CASE Mutate
  <2>1. i' = i /\ fuzzListIdx \in Nat
    BY <1>1, MutateTakes DEF FuzzInv, FuzzLoop
  <2>2. CASE StrategyAt(i).strategy # "marked_range"
    BY <1>1, <2>1, <2>2, MutateTakes DEF FuzzSent, StrategyAt, Mutations
  <2>3. CASE StrategyAt(i).strategy = "marked_range"
    <3>1. CASE ~Sweeps
      <4>1. mutated' = Seed
        BY <1>1, <2>3, <3>1, MutateTakes
      <4> QED
        BY <2>1, <2>3, <4>1 DEF FuzzSent
    <3>2. CASE Sweeps
      <4>1. mutated' \in MarkedRange(Seed, LineOf(fuzzListIdx))
        BY <1>1, <2>3, <3>2, MutateTakes
      <4>2. Swept(mutated', LineOf(fuzzListIdx))
        BY <4>1, MarkedRangeKinds
      <4>3. (fuzzListIdx % Len(FuzzList)) + 1 \in DOMAIN FuzzList
        <5>1. FuzzList \in Seq(Line) /\ FuzzList # <<>>
          BY <3>2 DEF validated, Sweeps
        <5>2. Len(FuzzList) \in Nat \ {0} /\ DOMAIN FuzzList = 1 .. Len(FuzzList)
          BY <5>1
        <5> QED
          BY <2>1, <5>2
      <4>4. \E n \in DOMAIN FuzzList : Swept(mutated', FuzzList[n])
        BY <4>2, <4>3 DEF LineOf
      <4> QED
        BY <2>1, <2>3, <4>4 DEF FuzzSent, Swept
    <3> QED
      BY <3>1, <3>2
  <2> QED
    BY <2>2, <2>3
<1>2. CASE ~Mutate
  <2>1. mutated' = mutated /\ i' = i /\ fpc = "await"
    BY <1>2, OthersKeep
  <2> QED
    BY <2>1 DEF FuzzSent, Swept, StrategyAt
<1> QED
  BY <1>1, <1>2

LEMMA TurnTypes ==
    ASSUME FuzzInv
    PROVE  StrategyAt(i).strategy \in Strategy
<1>1. /\ Strategies \in Seq([strategy : Strategy, target : Type \cup {NoTarget}])
      /\ Strategies # <<>> /\ i \in Nat
  BY DEF validated, FuzzInv, FuzzLoop
<1>2. Len(Strategies) \in Nat \ {0} /\ DOMAIN Strategies = 1 .. Len(Strategies)
  BY <1>1
<1>3. (i % Len(Strategies)) + 1 \in 1 .. Len(Strategies)
  BY <1>1, <1>2
<1>4. Strategies[(i % Len(Strategies)) + 1] \in [strategy : Strategy, target : Type \cup {NoTarget}]
  BY <1>1, <1>3, ElementOfSeq
<1> QED
  BY <1>4 DEF StrategyAt

(* For any seed, strategies and list: what is sent is one change of the    *)
(* seed, and the other attributes keep their values and their order        *)
(* (fuzzStrategies, cloneAttrs).                                           *)
THEOREM OneChangeCorrect ==
    FSpec => []OneChange
<1> DEFINE SentInv == FuzzInv /\ FuzzSent
<1>1. FInit => SentInv
  BY FuzzInit DEF FInit, FuzzSent
<1>2. SentInv /\ [FNext]_fvars => SentInv'
  BY FuzzStep, SentStep
<1>3. SentInv => OneChange
  <2> SUFFICES ASSUME FuzzInv, FuzzSent, fpc = "await"
               PROVE  OneChanged(mutated)
    BY DEF OneChange, OneChanged
  <2>1. ASSUME mutated = Seed
        PROVE  OneChanged(mutated)
    <3>1. [Seed EXCEPT ![0] = Seed[0]] = Seed
      BY SeedTypes
    <3> QED
      BY <2>1, <3>1, ReplacedIsOneChange
  <2>2. CASE StrategyAt(i).strategy = "marked_range"
    <3>1. CASE mutated # Seed
      BY <2>2, <3>1, ReplacedIsOneChange DEF FuzzSent, Swept
    <3> QED
      BY <2>1, <3>1
  <2>3. CASE StrategyAt(i).strategy # "marked_range"
    <3>1. mutated \in Mutations(StrategyAt(i).strategy, Seed, StrategyAt(i).target)
      BY <2>3 DEF FuzzSent
    <3>2. \/ mutated = Seed
          \/ Replaces(StrategyAt(i).strategy, mutated)
          \/ \E l \in DOMAIN Seed : mutated = InsertAt(Seed, l + 1, Seed[l])
          \/ \E l \in DOMAIN Seed : mutated = RemoveAt(Seed, l)
      BY <2>3, <3>1, TurnTypes, MutationKinds
    <3>3. CASE Replaces(StrategyAt(i).strategy, mutated)
      <4>1. PICK l, e : mutated = [Seed EXCEPT ![l] = e]
        BY <3>3 DEF Replaces
      <4> QED
        BY <4>1, ReplacedIsOneChange
    <3>4. CASE \E l \in DOMAIN Seed : mutated = InsertAt(Seed, l + 1, Seed[l])
      BY <3>4, SeedTypes, CopyAfterIsCopyBefore DEF OneChanged
    <3>5. CASE \E l \in DOMAIN Seed : mutated = RemoveAt(Seed, l)
      BY <3>5 DEF OneChanged
    <3> QED
      BY <2>1, <3>2, <3>3, <3>4, <3>5
  <2> QED
    BY <2>2, <2>3
<1> QED
  BY <1>1, <1>2, <1>3, PTL DEF FSpec

-------------------------------------------------------------------------------
(* FramingKept: what each change does to the Length byte. *)

LEMMA PaddedBounds ==
    ASSUME NEW n \in Nat
    PROVE  /\ Padded(n) \in Nat /\ Padded(n) >= n
           /\ n <= 240 => Padded(n) <= 240
<1> QED
  BY DEF Padded

(* A value whose length is not overridden tells its size up to 253 bytes.  *)
LEMMA OwnLengthIsTrue ==
    ASSUME NEW a, a.length = NoLength, ValueOnWire(a) \in 0 .. 253
    PROVE  Truthful(a)
<1> QED
  BY DEF Truthful, DeclaredLength

LEMMA TruthfulIsShort ==
    ASSUME NEW a \in Attr, Truthful(a)
    PROVE  a.bytes \in 0 .. 253
<1>1. a.bytes \in Nat /\ (a.form = "ipv4" => a.bytes <= 45) /\ (a.length # NoLength => a.length \in 0 .. 255)
  BY DEF Attr, Sized
<1>2. ValueOnWire(a) \in Nat
  BY <1>1, PaddedBounds DEF ValueOnWire
<1>3. DeclaredLength(a) \in 0 .. 255
  BY <1>1, <1>2 DEF DeclaredLength
<1>4. ValueOnWire(a) <= 253
  BY <1>2, <1>3 DEF Truthful
<1>5. CASE EncryptsPassword(a)
  <2>1. Padded(a.bytes) >= a.bytes /\ Padded(a.bytes) \in Nat
    BY <1>1, PaddedBounds
  <2>2. ValueOnWire(a) = Padded(a.bytes)
    BY <1>5 DEF ValueOnWire
  <2> QED
    BY <1>1, <1>4, <2>1, <2>2
<1>6. CASE ~EncryptsPassword(a)
  BY <1>1, <1>4, <1>6 DEF ValueOnWire, ComputesAuthenticator
<1> QED
  BY <1>5, <1>6

LEMMA HexIsTruthful ==
    ASSUME NEW a \in Attr, NEW n \in 0 .. 253
    PROVE  Truthful(Hex(a, n))
<1> DEFINE h == Hex(a, n)
<1>1. h.form = "hex" /\ h.bytes = n /\ h.length = NoLength
  BY DEF Hex, Attr
<1> HIDE DEF h
<1>2. ValueOnWire(h) = n
  BY <1>1 DEF ValueOnWire, EncryptsPassword, ComputesAuthenticator
<1> QED
  BY <1>1, <1>2, OwnLengthIsTrue DEF h

LEMMA UnknownIsTruthful ==
    ASSUME NEW a \in Attr, Truthful(a), a.form = "ipv4" => a.length = NoLength
    PROVE  Truthful([a EXCEPT !.type = UnknownType])
<1> DEFINE u == [a EXCEPT !.type = UnknownType]
<1>1. /\ u.type = UnknownType /\ u.form = a.form /\ u.bytes = a.bytes /\ u.length = a.length
  BY DEF Attr
<1>2. a.bytes \in 0 .. 253
  BY TruthfulIsShort
<1> HIDE DEF u
<1>3. ValueOnWire(u) = a.bytes
  BY <1>1 DEF ValueOnWire, EncryptsPassword, ComputesAuthenticator,
              UnknownType, UserPassword, MessageAuthenticator, NASIPAddress
<1>4. CASE a.length = NoLength
  BY <1>1, <1>2, <1>3, <1>4, OwnLengthIsTrue DEF u
<1>5. CASE a.length # NoLength
  <2>1. ValueOnWire(a) = a.bytes
    BY <1>5 DEF ValueOnWire, EncryptsPassword, ComputesAuthenticator
  <2>2. Truthful(u)
    BY <1>1, <1>3, <1>5, <2>1 DEF Truthful, DeclaredLength
  <2> QED
    BY <2>2 DEF u
<1> QED
  BY <1>4, <1>5

LEMMA InLineIsTruthful ==
    ASSUME NEW a \in Attr, NEW line \in Line, line.bytes <= 240
    PROVE  Truthful(InLine(a, line))
<1> DEFINE r == InLine(a, line)
<1>1. r.bytes = line.bytes /\ r.length = NoLength
  BY DEF InLine, Attr
<1>2. line.bytes \in Nat
  BY DEF Line
<1> HIDE DEF r
<1>3. Padded(line.bytes) \in 0 .. 240
  <2>1. /\ Padded(line.bytes) \in Nat
        /\ line.bytes <= 240 => Padded(line.bytes) <= 240
    BY <1>2, PaddedBounds
  <2> QED
    BY <2>1
<1>4. ValueOnWire(r) \in 0 .. 253
  BY <1>1, <1>2, <1>3 DEF ValueOnWire
<1> QED
  BY <1>1, <1>4, OwnLengthIsTrue DEF r

(* For any seed with true lengths and lines that fit an attribute: only    *)
(* length_mismatch and oversized_value send an attribute whose Length byte *)
(* is not its size (fuzz.go, the mutators; appendAttr in packet.go).       *)
THEOREM FramingKeptCorrect ==
    FSpec => []FramingKept
<1> DEFINE SentInv == FuzzInv /\ FuzzSent
<1>1. FInit => SentInv
  BY FuzzInit DEF FInit, FuzzSent
<1>2. SentInv /\ [FNext]_fvars => SentInv'
  BY FuzzStep, SentStep
<1>3. SentInv => FramingKept
  <2> DEFINE strategy == StrategyAt(i).strategy
  <2> SUFFICES ASSUME FuzzInv, FuzzSent, fpc = "await", TrueSeed, ShortLines,
                      strategy \notin {"length_mismatch", "oversized_value"}
               PROVE  \A j \in DOMAIN mutated : Truthful(mutated[j])
    BY DEF FramingKept, spec
  <2>1. \A l \in DOMAIN Seed : /\ Seed[l] \in Attr /\ Truthful(Seed[l])
                               /\ Seed[l].form = "ipv4" => Seed[l].length = NoLength
    BY SeedTypes DEF TrueSeed
  <2>2. ASSUME NEW l \in DOMAIN Seed, NEW e, mutated = [Seed EXCEPT ![l] = e], Truthful(e)
        PROVE  \A j \in DOMAIN mutated : Truthful(mutated[j])
    BY <2>1, <2>2
  <2>3. CASE mutated = Seed
    BY <2>1, <2>3
  <2>4. CASE strategy = "marked_range" /\ mutated # Seed
    <3>1. PICK n \in DOMAIN FuzzList : Swept(mutated, FuzzList[n])
      BY <2>4 DEF FuzzSent
    <3>2. PICK l \in DOMAIN Seed : mutated = [Seed EXCEPT ![l] = InLine(Seed[l], FuzzList[n])]
      BY <2>4, <3>1 DEF Swept
    <3>3. FuzzList[n] \in Line /\ FuzzList[n].bytes <= 240
      BY DEF ShortLines, validated
    <3>4. Truthful(InLine(Seed[l], FuzzList[n]))
      BY <2>1, <3>3, InLineIsTruthful
    <3> QED
      BY <2>2, <3>2, <3>4
  <2>5. CASE strategy # "marked_range" /\ mutated # Seed
    <3> DEFINE T == {a \in Attr : Truthful(a)}
    <3>1. Seed \in Seq(T)
      <4>1. Seed \in [1 .. Len(Seed) -> T] /\ Len(Seed) \in Nat
        BY <2>1, SeedTypes
      <4> HIDE DEF T
      <4> QED
        BY <4>1, SeqDef
    <3>2. ASSUME mutated \in Seq(T)
          PROVE  \A j \in DOMAIN mutated : Truthful(mutated[j])
      BY <3>2
    <3> HIDE DEF T
    <3>3. mutated \in Mutations(strategy, Seed, StrategyAt(i).target)
      BY <2>5 DEF FuzzSent
    <3>4. \/ Replaces(strategy, mutated)
          \/ \E l \in DOMAIN Seed : mutated = InsertAt(Seed, l + 1, Seed[l])
          \/ \E l \in DOMAIN Seed : mutated = RemoveAt(Seed, l)
      BY <2>5, <3>3, TurnTypes, MutationKinds
    <3>5. CASE Replaces(strategy, mutated)
      <4>0. PICK l \in DOMAIN Seed :
               \E e : mutated = [Seed EXCEPT ![l] = e] /\ Becomes(strategy, Seed[l], e)
        BY <3>5 DEF Replaces
      <4>1. PICK e : mutated = [Seed EXCEPT ![l] = e] /\ Becomes(strategy, Seed[l], e)
        BY <4>0
      <4>2. Seed[l].bytes \in 0 .. 253
        BY <2>1, TruthfulIsShort
      <4>3. CASE e = [Seed[l] EXCEPT !.type = UnknownType]
        BY <2>1, <2>2, <4>1, <4>3, UnknownIsTruthful
      <4>4. CASE \E n \in (0 .. Seed[l].bytes) \cup {16} : e = Hex(Seed[l], n)
        <5>1. PICK n \in (0 .. Seed[l].bytes) \cup {16} : e = Hex(Seed[l], n)
          BY <4>4
        <5>2. n \in 0 .. 253
          BY <4>2, <5>1
        <5>3. Truthful(e)
          BY <2>1, <5>1, <5>2, HexIsTruthful
        <5> QED
          BY <2>2, <4>1, <5>3
      <4> QED
        BY <4>1, <4>3, <4>4 DEF Becomes
    <3>6. CASE \E l \in DOMAIN Seed : mutated = InsertAt(Seed, l + 1, Seed[l])
      <4>1. PICK l \in 1 .. Len(Seed) : mutated = InsertAt(Seed, l + 1, Seed[l])
        BY <3>6, SeedTypes
      <4> QED
        BY <3>1, <3>2, <4>1, CopyAfterIsCopyBefore
    <3>7. CASE \E l \in DOMAIN Seed : mutated = RemoveAt(Seed, l)
      <4>1. PICK l \in 1 .. Len(Seed) : mutated = RemoveAt(Seed, l)
        BY <3>7, SeedTypes
      <4> QED
        BY <3>1, <3>2, <4>1, RestIsSeq
    <3> QED
      BY <3>4, <3>5, <3>6, <3>7
  <2> QED
    BY <2>3, <2>4, <2>5
<1> QED
  BY <1>1, <1>2, <1>3, PTL DEF FSpec
================================================================================
