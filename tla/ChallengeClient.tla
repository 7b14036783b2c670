---------------------------- MODULE ChallengeClient ----------------------------
(***************************************************************************)
(* A scenario of type "challenge" of the v2 RADIUS client:                 *)
(* runChallengeScenario, src/RADIUS/client/v2/stateful.go.                 *)
(*                                                                         *)
(* The client sends a first request, keeps the State of the challenge it   *)
(* gets back, answers it with one numeric one-time password after another, *)
(* and finally sends the probes of state_checks.  One request is           *)
(* outstanding at a time and every one has a UDP socket of its own         *)
(* (sendRawUDP), so an answer can only be read while its request is        *)
(* outstanding.  Zero padding gives every candidate a text of its own, so  *)
(* the number stands for it.  Packets of the seed always build (the first  *)
(* one did); log lines are left out except the three a reader acts on:     *)
(* the password found, the change of pattern, and a probe accepted.        *)
(***************************************************************************)
EXTENDS Integers, SequencesExt

CONSTANTS
    OTPMin, OTPMax, MaxAttempts,  \* otp_min, otp_max, max_attempts
    RandomOrder,                  \* otp_order: random
    StateReuse,                   \* state_reuse
    StateChecks,                  \* state_checks, a sequence
    IntMax,                       \* the largest int
    StateValue,                   \* values of State attributes the server can send
    Corrupted,                    \* a State value no server sent
    NoState,                      \* no State attribute
    EmptyState,                   \* a State attribute of length 2
    Text,                         \* values of Reply-Message
    Answers,                      \* what may come back in the stand-alone specification
    NoRequest

(* What validate (config.go) lets through. *)
ASSUME OtpRangeAssumption == /\ IntMax \in Nat
                             /\ {OTPMin, OTPMax} \subseteq 0 .. IntMax /\ OTPMin <= OTPMax
                             /\ MaxAttempts \in 1 .. IntMax
ASSUME CheckAssumption == StateChecks \in Seq({"bit_flip", "truncate", "foreign", "drop"})
ASSUME StateAssumption == NoState \notin StateValue /\ EmptyState \notin StateValue

(* The outcome of one sendRawUDP.  "empty" is a datagram without a byte.   *)
(* The packet codes that matter are 2, 3 and 11, Access-Accept, -Reject    *)
(* and -Challenge.                                                         *)
Failure == [kind : {"timeout", "neterr", "empty"}]
Message == [kind : {"message"}, code : 0 .. 255, parses : BOOLEAN,
            state : StateValue \cup {NoState, EmptyState}, text : Text]
ASSUME AnswerAssumption == Answers \subseteq Failure \cup Message

VARIABLES
    cpc,        \* "first", "loop", "checks", "ended" or "panic", or awaiting an answer
    out,        \* the request that is outstanding, or NoRequest
    cur,        \* currentState
    i,          \* the loop variable, then the index into StateChecks
    baseline,   \* the first fingerprint, <<>> before there is one
    patternAt,  \* where the pattern was noted to change, -1 for never
    found,      \* foundOTP, -1 for none
    probed,     \* a probe of state_checks was answered with Access-Accept
    failed,     \* the error returned, if any
    talk        \* every request that was seen through, with its outcome

cvars == <<cpc, out, cur, i, baseline, patternAt, found, probed, failed, talk>>

-------------------------------------------------------------------------------
(* An int wraps around. *)
Wrap(n) == ((n + IntMax + 1) % (2 * (IntMax + 1))) - (IntMax + 1)

rangeSize == Wrap(OTPMax - OTPMin + 1)

attemptsUncapped == MaxAttempts                                   \* faulty
attempts == IF ~RandomOrder /\ MaxAttempts > rangeSize THEN rangeSize ELSE MaxAttempts

Candidates(n) == IF RandomOrder THEN OTPMin .. OTPMax ELSE {OTPMin + n}

(* An attribute whose value is empty is copied to a nil slice. *)
CopyOf(state) == IF state = EmptyState THEN NoState ELSE state

(* applyStateCheck, and what becomes of the result in                      *)
(* buildSecondRequestAttrs, which omits State when it is nil.              *)
CheckedUndropped(check, state) ==                                 \* faulty
    IF state # NoState THEN IF check = "drop" THEN state ELSE Corrupted
    ELSE IF check = "foreign" THEN EmptyState
    ELSE NoState
CheckedState(check, state) ==
    IF check = "drop" THEN NoState
    ELSE IF state # NoState THEN Corrupted
    ELSE IF check = "foreign" THEN EmptyState
    ELSE NoState

(* A challenge that parses (parseAttributes) and carries a State (findAttr). *)
OffersState(r) == r.kind = "message" /\ r.parses /\ r.code = 11 /\ r.state # NoState

(* fingerprintResponse *)
Fingerprint(r) ==
    IF r.kind # "message" THEN [timedOut |-> TRUE, code |-> 0, replyText |-> ""]
    ELSE [timedOut |-> FALSE, code |-> r.code, replyText |-> IF r.parses THEN r.text ELSE ""]

-------------------------------------------------------------------------------
CInit ==
    /\ cpc = "first" /\ out = NoRequest /\ cur = NoState
    /\ i = 0
    /\ baseline = <<>> /\ patternAt = -1
    /\ found = -1 /\ probed = FALSE /\ failed = "none"
    /\ talk = <<>>

Await(at, state, otp) ==
    /\ cpc' = at
    /\ out' = [state |-> state, otp |-> otp]

Record(r) == talk' = Append(talk, [at |-> cpc, sent |-> out, got |-> r])

Fail(why) == cpc' = "ended" /\ failed' = why /\ out' = NoRequest

(* The seed packet: its own attributes, password and all. *)
SendFirst ==
    /\ cpc = "first"
    /\ Await("awaitFirst", NoState, -1)
    /\ UNCHANGED <<cur, i, baseline, patternAt, found, probed, failed, talk>>

(* Anything but a well-formed Access-Challenge with a State ends the       *)
(* scenario; an empty datagram is too short to parse.                      *)
FirstAnswer(r) ==
    /\ cpc = "awaitFirst"
    /\ \/ /\ ~OffersState(r)
          /\ Fail("first request")
          /\ UNCHANGED cur
       \/ /\ OffersState(r)
          /\ cur' = CopyOf(r.state)
          /\ cpc' = "loop" /\ out' = NoRequest
          /\ UNCHANGED failed
    /\ Record(r)
    /\ UNCHANGED <<i, baseline, patternAt, found, probed>>

(* rng.Intn panics on a range that is not positive. *)
SendGuess ==
    /\ cpc = "loop" /\ i < attempts
    /\ IF RandomOrder /\ rangeSize <= 0
       THEN cpc' = "panic" /\ UNCHANGED out
       ELSE \E otp \in Candidates(i) : Await("awaitGuess", cur, otp)
    /\ UNCHANGED <<cur, i, baseline, patternAt, found, probed, failed, talk>>

(* The pattern is compared with the first answer, and noted once. *)
NotePattern(r) ==
    \/ /\ baseline = <<>>
       /\ baseline' = <<Fingerprint(r)>>
       /\ UNCHANGED patternAt
    \/ /\ baseline # <<>>
       /\ patternAt' = IF patternAt = -1 /\ Fingerprint(r) # baseline[1] THEN i ELSE patternAt
       /\ UNCHANGED baseline

(* The State to use from now on: a challenge may replace it. *)
NextStateOfAnyMessage(r) ==                                       \* faulty
    IF r.kind = "message" /\ r.state # NoState /\ ~StateReuse THEN CopyOf(r.state) ELSE cur
NextState(r) ==
    IF OffersState(r) /\ ~StateReuse THEN CopyOf(r.state) ELSE cur

GuessAccepted(r) ==
    /\ cpc = "awaitGuess" /\ r.kind = "message" /\ r.code = 2
    /\ found' = out.otp /\ Record(r)
    /\ cpc' = "checks" /\ i' = 1 /\ out' = NoRequest
    /\ UNCHANGED <<cur, baseline, patternAt, probed, failed>>

GuessRepeated(r) ==                                               \* faulty
    /\ cpc = "awaitGuess" /\ r.kind = "timeout"
    /\ cpc' = "loop" /\ out' = NoRequest
    /\ UNCHANGED <<cur, i, baseline, patternAt, found, probed, failed, talk>>
GuessNotAccepted(r) ==
    /\ cpc = "awaitGuess"
    /\ r.kind = "timeout" \/ (r.kind = "message" /\ r.code # 2)
    /\ cur' = NextState(r) /\ NotePattern(r)
    /\ Record(r) /\ i' = i + 1
    /\ cpc' = "loop" /\ out' = NoRequest
    /\ UNCHANGED <<found, probed, failed>>

GuessUnanswerable(r) ==
    /\ cpc = "awaitGuess" /\ r.kind = "neterr"
    /\ Record(r)
    /\ Fail("unreachable")
    /\ UNCHANGED <<cur, i, baseline, patternAt, found, probed>>

(* resp[0] of an empty datagram: index out of range. *)
EmptyAnswer(r) ==
    /\ cpc \in {"awaitGuess", "awaitCheck"} /\ r.kind = "empty"
    /\ cpc' = "panic"
    /\ UNCHANGED <<out, cur, i, baseline, patternAt, found, probed, failed, talk>>

LoopDone ==
    /\ cpc = "loop" /\ i >= attempts
    /\ cpc' = "checks" /\ i' = 1
    /\ UNCHANGED <<out, cur, baseline, patternAt, found, probed, failed, talk>>

SendCheck ==
    /\ cpc = "checks" /\ i <= Len(StateChecks)
    /\ Await("awaitCheck", CheckedState(StateChecks[i], cur), OTPMin)
    /\ UNCHANGED <<cur, i, baseline, patternAt, found, probed, failed, talk>>

(* A probe that gets no answer is passed over. *)
CheckAnswer(r) ==
    /\ cpc = "awaitCheck" /\ r.kind # "empty"
    /\ probed' = (probed \/ (r.kind = "message" /\ r.code = 2))
    /\ cpc' = "checks" /\ i' = i + 1 /\ out' = NoRequest
    /\ Record(r)
    /\ UNCHANGED <<cur, baseline, patternAt, found, failed>>

(* A password that was found fails the scenario. *)
Summarise ==
    /\ cpc = "checks" /\ i > Len(StateChecks)
    /\ cpc' = "ended" /\ failed' = IF found # -1 THEN "otp accepted" ELSE "none"
    /\ UNCHANGED <<out, cur, i, baseline, patternAt, found, probed, talk>>

Send == SendFirst \/ SendGuess \/ SendCheck
Local == LoopDone \/ Summarise
Get(r) == \/ FirstAnswer(r) \/ GuessAccepted(r) \/ GuessNotAccepted(r)
          \/ GuessUnanswerable(r) \/ EmptyAnswer(r) \/ CheckAnswer(r)
Ended == cpc \in {"ended", "panic"}

(* The scenario against a server that may answer anything at any time.     *)
CNext == Send \/ Local \/ (\E r \in Answers : Get(r)) \/ (Ended /\ UNCHANGED cvars)
CSpec == CInit /\ [][CNext]_cvars

(* sendRawUDP sets a deadline on its socket, so every request is seen      *)
(* through in the end; the rest is a sequential program.                   *)
CFairSpec == CSpec /\ WF_cvars(CNext)

-------------------------------------------------------------------------------
(* The turns of the talk that were guesses at the password. *)
Guesses == {k \in DOMAIN talk : talk[k].at = "awaitGuess"}

(* The State in force is the one of the first challenge when state_reuse   *)
(* is on, and otherwise the last one that a challenge has offered: never   *)
(* one from an answer that does not parse, from anything but a challenge,  *)
(* or from the answer to a probe.  Every guess carries the State in force, *)
(* and every probe what applyStateCheck makes of it.                       *)
Offers(k) == talk[k].at # "awaitCheck" /\ OffersState(talk[k].got)
InForce(k, g) == Offers(k) /\ IF StateReuse THEN k = 1 ELSE \A l \in k + 1 .. g - 1 : ~Offers(l)
StateCarried ==
    \A g \in DOMAIN talk \ {1} : \E k \in 1 .. g - 1 :
        /\ InForce(k, g)
        /\ LET state == CopyOf(talk[k].got.state)
           IN  IF g \in Guesses THEN talk[g].sent.state = state
               ELSE \E n \in DOMAIN StateChecks :
                      talk[g].sent.state = CheckedState(StateChecks[n], state)

(* A scenario that reports no password has tried what it was told to try:  *)
(* right after the first request max_attempts guesses, or in sequence the  *)
(* whole range once if that is shorter.  The one exception is a range so   *)
(* large that its size wraps.                                              *)
RangeTried ==
    cpc = "ended" /\ failed = "none" /\ rangeSize > 0 =>
        IF RandomOrder THEN Guesses = 2 .. MaxAttempts + 1
        ELSE \E n \in {MaxAttempts, OTPMax - OTPMin + 1} :
               /\ n <= MaxAttempts /\ n <= OTPMax - OTPMin + 1
               /\ Guesses = 2 .. n + 1
               /\ \A k \in Guesses : talk[k].sent.otp = OTPMin + k - 2

(* The scenario never takes the whole run down: it returns an error or     *)
(* nil (scenario.go, runScenarios: "never aborts the whole run on a single *)
(* scenario's error").                                                     *)
NeverPanics == cpc # "panic"

(* The scenario ends: every request is answered or times out, and the      *)
(* loops are bounded.                                                      *)
Terminates == <>Ended
===============================================================================
