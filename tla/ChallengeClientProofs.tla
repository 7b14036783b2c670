------------------------- MODULE ChallengeClientProofs -------------------------
(***************************************************************************)
(* Theorems about ChallengeClient, for any range, any number of attempts,  *)
(* any state checks and any answers of the server.  Typing is proved       *)
(* first; CarryInv ties the State in use to the talk so far, and TriedInv  *)
(* the loop variable to the guesses made; Left counts the steps to come.   *)
(* The steps are lemmas about answers of any kind, so they hold for every  *)
(* server the client meets.                                                *)
(***************************************************************************)
EXTENDS ChallengeClient, SequenceTheorems, TLAPS

USE OtpRangeAssumption

Heard == Failure \cup Message
Sent  == [state : StateValue \cup {NoState, EmptyState, Corrupted}, otp : Int]
Turn  == [at : {"awaitFirst", "awaitGuess", "awaitCheck"}, sent : Sent, got : Heard]

(* A step of the client, whatever the server may answer. *)
ClientStep == Send \/ Local \/ (\E r \in Heard : Get(r))

LEMMA AnyAnswer == CNext => ClientStep \/ UNCHANGED cvars
  BY AnswerAssumption DEF CNext, ClientStep, Heard

CLabels == {"first", "loop", "checks", "ended", "panic",
            "awaitFirst", "awaitGuess", "awaitCheck"}

CTypeOK ==
    /\ cpc \in CLabels
    /\ cpc \in {"awaitFirst", "awaitGuess", "awaitCheck"} => out \in Sent
    /\ cur \in StateValue \cup {NoState}
    /\ i \in Nat
    /\ patternAt \in Int /\ found \in Int
    /\ probed \in BOOLEAN
    /\ talk \in Seq(Turn)

LEMMA CTypeInit == CInit => CTypeOK
<1>1. <<>> \in Seq(Turn)
  OBVIOUS
<1>2. CInit => probed \in BOOLEAN
  BY DEF CInit
<1>3. CInit => cpc \in CLabels /\ patternAt \in Int
  BY DEF CInit, CLabels
<1>4. CInit => found \in Int /\ i \in Nat
  BY DEF CInit
<1> QED
  BY <1>1, <1>2, <1>3, <1>4 DEF CInit, CTypeOK

(* A turn that is recorded becomes the last one of the talk. *)
LEMMA Recorded ==
    ASSUME CTypeOK, NEW r \in Heard, Record(r),
           cpc \in {"awaitFirst", "awaitGuess", "awaitCheck"}
    PROVE  /\ talk' \in Seq(Turn)
           /\ DOMAIN talk = 1 .. Len(talk) /\ DOMAIN talk' = 1 .. Len(talk')
           /\ Len(talk) \in Nat /\ Len(talk') = Len(talk) + 1
           /\ \A k \in 1 .. Len(talk) : talk'[k] = talk[k]
           /\ talk'[Len(talk')].sent = out /\ talk'[Len(talk')].got = r
           /\ talk'[Len(talk')].at = cpc
           /\ Guesses' = Guesses \cup (IF cpc = "awaitGuess" THEN {Len(talk')} ELSE {})
<1> DEFINE turn == [at |-> cpc, sent |-> out, got |-> r]
<1>1. turn \in Turn
  BY DEF CTypeOK, Turn
<1>2. talk \in Seq(Turn) /\ talk' = Append(talk, turn)
  BY DEF CTypeOK, Record
<1> HIDE DEF turn
<1>3. /\ talk' \in Seq(Turn)
      /\ DOMAIN talk = 1 .. Len(talk) /\ DOMAIN talk' = 1 .. Len(talk')
      /\ Len(talk) \in Nat /\ Len(talk') = Len(talk) + 1
      /\ \A k \in 1 .. Len(talk) : talk'[k] = talk[k]
      /\ talk'[Len(talk')] = turn
  BY <1>1, <1>2, AppendProperties, LenProperties
<1>4. turn.at = cpc /\ turn.sent = out /\ turn.got = r
  BY DEF turn
<1>5. Guesses' = Guesses \cup (IF cpc = "awaitGuess" THEN {Len(talk')} ELSE {})
  BY <1>3, <1>4 DEF Guesses
<1> QED
  BY <1>3, <1>4, <1>5

(* Every step of the client keeps the types. *)
LEMMA CTypeStep == CTypeOK /\ (ClientStep \/ UNCHANGED cvars) => CTypeOK'
<1> SUFFICES ASSUME CTypeOK, ClientStep \/ UNCHANGED cvars PROVE CTypeOK'
  OBVIOUS
<1> USE DEF CTypeOK, CLabels
<1>1. CASE UNCHANGED cvars
  BY <1>1 DEF cvars
<1>2. CASE SendFirst
  BY <1>2 DEF SendFirst, Await, Sent
<1>3. CASE SendGuess
  BY <1>3 DEF SendGuess, Await, Sent, Candidates
<1>4. CASE SendCheck
  BY <1>4 DEF SendCheck, Await, Sent, CheckedState
<1>5. CASE LoopDone
  BY <1>5 DEF LoopDone
<1>6. CASE Summarise
  BY <1>6 DEF Summarise
<1>7. ASSUME NEW r \in Heard, FirstAnswer(r) PROVE CTypeOK'
  BY <1>7, Recorded DEF FirstAnswer, Fail, OffersState, CopyOf, Heard, Failure, Message
<1>8. ASSUME NEW r \in Heard, GuessAccepted(r) PROVE CTypeOK'
  BY <1>8, Recorded DEF GuessAccepted, Sent
<1>9. ASSUME NEW r \in Heard, GuessNotAccepted(r) PROVE CTypeOK'
  <2>1. talk' \in Seq(Turn)
    BY <1>9, Recorded DEF GuessNotAccepted
  <2>2. cur' \in StateValue \cup {NoState}
    BY <1>9 DEF GuessNotAccepted, NextState, OffersState, CopyOf, Heard, Failure, Message
  <2>3. patternAt' \in Int
    BY <1>9 DEF GuessNotAccepted, NotePattern
  <2> QED
    BY <1>9, <2>1, <2>2, <2>3 DEF GuessNotAccepted
<1>10. ASSUME NEW r \in Heard, GuessUnanswerable(r) PROVE CTypeOK'
  BY <1>10, Recorded DEF GuessUnanswerable, Fail
<1>11. ASSUME NEW r \in Heard, EmptyAnswer(r) PROVE CTypeOK'
  BY <1>11 DEF EmptyAnswer
<1>12. ASSUME NEW r \in Heard, CheckAnswer(r) PROVE CTypeOK'
  <2>1. talk' \in Seq(Turn)
    BY <1>12, Recorded DEF CheckAnswer
  <2>2. probed' \in BOOLEAN
    BY <1>12 DEF CheckAnswer
  <2> QED
    BY <1>12, <2>1, <2>2 DEF CheckAnswer
<1> QED
  BY <1>1, <1>2, <1>3, <1>4, <1>5, <1>6, <1>7, <1>8, <1>9, <1>10, <1>11, <1>12
     DEF ClientStep, Send, Local, Get
-------------------------------------------------------------------------------
(* The State in use is the one in force at the turn to come; it is what    *)
(* the request that is outstanding carries, as it is or spoilt.            *)
InUse == \E k \in 1 .. Len(talk) :
    /\ InForce(k, Len(talk) + 1)
    /\ cur = CopyOf(talk[k].got.state)
Carries ==
    /\ cpc = "awaitGuess" => out.state = cur
    /\ cpc = "awaitCheck" =>
         \E n \in DOMAIN StateChecks : out.state = CheckedState(StateChecks[n], cur)

CarryInv ==
    /\ cpc \in {"first", "awaitFirst"} => talk = <<>>
    /\ cpc \in {"loop", "awaitGuess", "checks", "awaitCheck"} => InUse
    /\ cpc \in {"checks", "awaitCheck"} => i # 0
    /\ Carries
    /\ StateCarried

(* The turns of StateCarried, one by one. *)
CarriedBy(g, state) ==
    IF g \in Guesses THEN talk[g].sent.state = state
    ELSE \E n \in DOMAIN StateChecks : talk[g].sent.state = CheckedState(StateChecks[n], state)
LEMMA CarriedEach ==
    StateCarried <=> \A g \in DOMAIN talk \ {1} : \E k \in 1 .. g - 1 :
                        InForce(k, g) /\ CarriedBy(g, CopyOf(talk[k].got.state))
  BY DEF StateCarried, CarriedBy

LEMMA CarryInit == CInit => CarryInv
  BY DEF CInit, CarryInv, StateCarried, Carries

(* What is recorded carries the State in use, and leaves the turns before  *)
(* it as they were.                                                        *)
LEMMA CarriedOn ==
    ASSUME CTypeOK, StateCarried, Carries, NEW r \in Heard, Record(r),
           cpc \in {"awaitFirst", "awaitGuess", "awaitCheck"},
           cpc = "awaitFirst" => talk = <<>>,
           cpc # "awaitFirst" => InUse
    PROVE  StateCarried'
<1>1. /\ Guesses \subseteq 1 .. Len(talk) /\ Len(talk) \in Nat
      /\ DOMAIN talk = 1 .. Len(talk) /\ DOMAIN talk' = 1 .. Len(talk')
      /\ Len(talk') = Len(talk) + 1
      /\ \A k \in 1 .. Len(talk) : talk'[k] = talk[k]
      /\ talk'[Len(talk')].sent = out
      /\ Guesses' = Guesses \cup (IF cpc = "awaitGuess" THEN {Len(talk')} ELSE {})
  BY Recorded DEF Guesses
<1>2. \A k \in 1 .. Len(talk) : Offers(k)' <=> Offers(k)
  BY <1>1 DEF Offers
<1>3. ASSUME NEW g \in 1 .. Len(talk'), NEW k \in 1 .. g - 1
      PROVE  InForce(k, g)' <=> InForce(k, g)
  BY <1>1, <1>2 DEF InForce
<1>4. ASSUME NEW g \in (1 .. Len(talk)) \ {1}
      PROVE  \E k \in 1 .. g - 1 : InForce(k, g)' /\ CarriedBy(g, CopyOf(talk[k].got.state))'
  <2>1. PICK k \in 1 .. g - 1 : InForce(k, g) /\ CarriedBy(g, CopyOf(talk[k].got.state))
    BY <1>1, CarriedEach
  <2>2. talk'[g] = talk[g] /\ talk'[k] = talk[k] /\ (g \in Guesses' <=> g \in Guesses)
    BY <1>1
  <2>3. CarriedBy(g, CopyOf(talk[k].got.state))'
    BY <2>1, <2>2 DEF CarriedBy
  <2>4. InForce(k, g)'
    BY <1>1, <1>3, <2>1
  <2> QED
    BY <2>3, <2>4
<1>5. ASSUME NEW g, g = Len(talk'), g # 1
      PROVE  \E k \in 1 .. g - 1 : InForce(k, g)' /\ CarriedBy(g, CopyOf(talk[k].got.state))'
  <2>1. cpc \in {"awaitGuess", "awaitCheck"} /\ InUse
    BY <1>1, <1>5
  <2>2. PICK k \in 1 .. Len(talk) : /\ InForce(k, Len(talk) + 1)
                                    /\ cur = CopyOf(talk[k].got.state)
    BY <2>1 DEF InUse
  <2>3. k \in 1 .. g - 1 /\ talk'[k] = talk[k] /\ (g \in Guesses' <=> cpc = "awaitGuess")
    BY <1>1, <1>5, <2>2
  <2>4. CarriedBy(g, CopyOf(talk[k].got.state))'
    BY <1>1, <1>5, <2>1, <2>2, <2>3 DEF CarriedBy, Carries
  <2>5. InForce(k, g)'
    BY <1>1, <1>3, <1>5, <2>2, <2>3
  <2> QED
    BY <2>3, <2>4, <2>5
<1>6. \A g \in DOMAIN talk' \ {1} : g \in (1 .. Len(talk)) \ {1} \/ g = Len(talk')
  BY <1>1
<1> QED
  BY <1>4, <1>5, <1>6 DEF StateCarried, CarriedBy

(* The State in use after an answer is still one that was offered, by that *)
(* answer or by an earlier one; the answer to a probe offers none.         *)
LEMMA InUseOn ==
    ASSUME CTypeOK, InUse, NEW r \in Heard, Record(r), cpc \in {"awaitGuess", "awaitCheck"},
           cur' = IF cpc = "awaitGuess" THEN NextState(r) ELSE cur
    PROVE  InUse'
<1>1. /\ Len(talk) \in Nat /\ Len(talk') = Len(talk) + 1
      /\ \A k \in 1 .. Len(talk) : talk'[k] = talk[k]
      /\ talk'[Len(talk')].got = r /\ talk'[Len(talk')].at = cpc
  BY Recorded
<1>2. /\ \A k \in 1 .. Len(talk) : Offers(k)' <=> Offers(k)
      /\ \A k : k = Len(talk') => (Offers(k)' <=> cpc = "awaitGuess" /\ OffersState(r))
  BY <1>1 DEF Offers
<1>3. CASE cpc = "awaitGuess" /\ OffersState(r) /\ ~StateReuse
  <2>1. cur' = CopyOf(talk'[Len(talk')].got.state)
    BY <1>1, <1>3 DEF NextState
  <2> QED
    BY <1>1, <1>2, <1>3, <2>1 DEF InUse, InForce
<1>4. CASE ~(cpc = "awaitGuess" /\ OffersState(r) /\ ~StateReuse)
  <2>1. cur' = cur
    BY <1>4 DEF NextState
  <2>2. PICK k \in 1 .. Len(talk) : /\ InForce(k, Len(talk) + 1)
                                    /\ cur = CopyOf(talk[k].got.state)
    BY DEF InUse
  <2>3. InForce(k, Len(talk) + 1)'
    BY <1>1, <1>2, <1>4, <2>2 DEF InForce
  <2> QED
    BY <1>1, <2>1, <2>2, <2>3 DEF InUse
<1> QED
  BY <1>3, <1>4

(* Every step of the client keeps CarryInv. *)
LEMMA CarryStep ==
    CTypeOK /\ CarryInv /\ (ClientStep \/ UNCHANGED cvars) => CarryInv'
<1> SUFFICES ASSUME CTypeOK, CarryInv, ClientStep \/ UNCHANGED cvars PROVE CarryInv'
  OBVIOUS
<1>0. CTypeOK'
  BY CTypeStep
<1> USE <1>0 DEF CarryInv
<1>1. CASE UNCHANGED cvars
  BY <1>1 DEF cvars, InUse, Carries, Offers, InForce, StateCarried, Guesses
<1>2. CASE SendFirst
  BY <1>2 DEF SendFirst, Await, InUse, Carries, Offers, InForce, StateCarried, Guesses
<1>3. CASE SendGuess
  BY <1>3 DEF SendGuess, Await, InUse, Carries, Offers, InForce, StateCarried, Guesses
<1>4. CASE SendCheck
  <2>1. /\ cpc = "checks" /\ cpc' = "awaitCheck" /\ UNCHANGED <<talk, cur>>
        /\ i' = i /\ i # 0 /\ i <= Len(StateChecks) /\ out'.state = CheckedState(StateChecks[i], cur)
    BY <1>4 DEF SendCheck, Await
  <2>2. i \in DOMAIN StateChecks
    BY <2>1, CheckAssumption DEF CTypeOK
  <2>3. Carries'
    BY <2>1, <2>2 DEF Carries
  <2> QED
    BY <2>1, <2>3 DEF InUse, Offers, InForce, StateCarried, Guesses
<1>5. CASE LoopDone
  BY <1>5 DEF LoopDone, InUse, Carries, Offers, InForce, StateCarried, Guesses
<1>6. CASE Summarise
  BY <1>6 DEF Summarise, InUse, Carries, Offers, InForce, StateCarried, Guesses
<1>7. ASSUME NEW r \in Heard, FirstAnswer(r) PROVE CarryInv'
  <2>1. Record(r) /\ cpc = "awaitFirst" /\ talk = <<>>
    BY <1>7 DEF FirstAnswer
  <2>2. StateCarried'
    BY <2>1, CarriedOn
  <2>3. Len(talk') = 1 /\ talk'[1].got = r /\ talk'[1].at = "awaitFirst"
    BY <2>1, Recorded
  <2>4. OffersState(r) /\ cur' = CopyOf(r.state) => InUse'
    BY <2>3 DEF InUse, InForce, Offers
  <2> QED
    BY <1>7, <2>2, <2>4 DEF FirstAnswer, Fail, Carries
<1>8. ASSUME NEW r \in Heard, GuessAccepted(r) PROVE CarryInv'
  <2>1. NextState(r) = cur
    BY <1>8 DEF GuessAccepted, NextState, OffersState
  <2> QED
    BY <1>8, <2>1, CarriedOn, InUseOn DEF GuessAccepted, Carries
<1>9. ASSUME NEW r \in Heard, GuessNotAccepted(r) PROVE CarryInv'
  BY <1>9, CarriedOn, InUseOn DEF GuessNotAccepted, Carries
<1>10. ASSUME NEW r \in Heard, GuessUnanswerable(r) PROVE CarryInv'
  BY <1>10, CarriedOn DEF GuessUnanswerable, Fail, Carries
<1>11. ASSUME NEW r \in Heard, EmptyAnswer(r) PROVE CarryInv'
  BY <1>11 DEF EmptyAnswer, InUse, Carries, Offers, InForce, StateCarried, Guesses
<1>12. ASSUME NEW r \in Heard, CheckAnswer(r) PROVE CarryInv'
  BY <1>12, CarriedOn, InUseOn DEF CheckAnswer, Carries, CTypeOK
<1> QED
  BY <1>1, <1>2, <1>3, <1>4, <1>5, <1>6, <1>7, <1>8, <1>9, <1>10, <1>11, <1>12
     DEF ClientStep, Send, Local, Get

(* Every guess carries the State of the first challenge, or the last one   *)
(* that was offered before it, and every probe what applyStateCheck makes  *)
(* of it: nextStateAndResult never takes a State from anything but a       *)
(* challenge that parses, and nothing from the answer to a probe.          *)
THEOREM StateCarriedCorrect == CSpec => []StateCarried
<1>1. CInit => CTypeOK /\ CarryInv
  BY CTypeInit, CarryInit
<1>2. CTypeOK /\ CarryInv /\ [CNext]_cvars => (CTypeOK /\ CarryInv)'
  BY AnyAnswer, CTypeStep, CarryStep
<1>3. CarryInv => StateCarried
  BY DEF CarryInv
<1> QED
  BY <1>1, <1>2, <1>3, PTL DEF CSpec
-------------------------------------------------------------------------------
(* A range that does not wrap has the size one expects. *)
LEMMA RangeSize ==
    /\ rangeSize \in Int /\ attempts \in Int
    /\ rangeSize > 0 => /\ rangeSize = OTPMax - OTPMin + 1
                        /\ attempts \in Nat
                        /\ RandomOrder => attempts = MaxAttempts
                        /\ ~RandomOrder => /\ attempts \in {MaxAttempts, rangeSize}
                                           /\ attempts <= MaxAttempts /\ attempts <= rangeSize
<1> DEFINE n == OTPMax - OTPMin + 1
           b == 2 * (IntMax + 1)
<1>1. /\ OTPMin \in Nat /\ OTPMax \in Nat /\ MaxAttempts \in Nat /\ IntMax \in Nat
      /\ n \in 1 .. IntMax + 1 /\ b \in Nat /\ b > 0
  OBVIOUS
<1>2. rangeSize = ((n + IntMax + 1) % b) - (IntMax + 1)
  BY DEF rangeSize, Wrap
<1>3. (n + IntMax + 1) % b \in Int
  BY <1>1
<1>4. n = IntMax + 1 => rangeSize = -(IntMax + 1)
  <2>1. n = IntMax + 1 => n + IntMax + 1 = b
    BY <1>1
  <2>2. b % b = 0
    BY <1>1
  <2> QED
    BY <1>1, <1>2, <2>1, <2>2
<1>5. n <= IntMax => rangeSize = n
  <2>1. n <= IntMax => n + IntMax + 1 \in 0 .. b - 1
    BY <1>1
  <2>2. \A a \in 0 .. b - 1 : a % b = a
    BY <1>1
  <2> QED
    BY <1>1, <1>2, <2>1, <2>2
<1>6. rangeSize \in Int /\ (rangeSize > 0 => rangeSize = n)
  BY <1>1, <1>4, <1>5
<1> QED
  BY <1>1, <1>6 DEF attempts

(* The guesses made so far are n, one right after the other, and in        *)
(* sequence they are the first n passwords of the range.                   *)
Made(n) ==
    /\ Guesses = 2 .. n + 1
    /\ ~RandomOrder => \A k \in 2 .. n + 1 : talk[k].sent.otp = OTPMin + k - 2

Guessing ==
    /\ cpc \in {"first", "awaitFirst"} => talk = <<>> /\ i = 0
    /\ cpc \in {"first", "awaitFirst", "loop", "awaitGuess"} => found = -1 /\ failed = "none"
    /\ cpc \in {"loop", "awaitGuess"} => Len(talk) = i + 1 /\ Made(i)
    /\ cpc = "loop" /\ rangeSize > 0 => i <= attempts
    /\ cpc = "awaitGuess" => /\ i < attempts /\ out.otp \in Nat
                             /\ ~RandomOrder => out.otp = OTPMin + i

Done ==
    /\ \/ cpc \in {"checks", "awaitCheck"}
       \/ cpc = "ended" /\ failed = "none"
       => /\ failed = "none"
          /\ found = -1 /\ rangeSize > 0 => Made(attempts)
    /\ cpc = "ended" /\ failed = "none" => found = -1

TriedInv == Guessing /\ Done

LEMMA TriedInit == CInit => TriedInv
  BY DEF CInit, TriedInv, Guessing, Done

(* A turn that is not a guess leaves the guesses as they were; a guess     *)
(* adds one.                                                               *)
LEMMA MadeOn ==
    ASSUME CTypeOK, NEW r \in Heard, Record(r), NEW n \in Nat, Made(n),
           cpc \in {"awaitFirst", "awaitGuess", "awaitCheck"}
    PROVE  /\ cpc # "awaitGuess" => Made(n)'
           /\ cpc = "awaitGuess" /\ Len(talk) = n + 1 /\ (~RandomOrder => out.otp = OTPMin + n)
              => Made(n + 1)' /\ Len(talk') = n + 2
<1>1. /\ Len(talk) \in Nat /\ Len(talk') = Len(talk) + 1
      /\ \A k \in 1 .. Len(talk) : talk'[k] = talk[k]
      /\ talk'[Len(talk')].sent = out
      /\ Guesses' = Guesses \cup (IF cpc = "awaitGuess" THEN {Len(talk')} ELSE {})
      /\ Guesses \subseteq 1 .. Len(talk)
  BY Recorded DEF Guesses
<1> HIDE DEF Guesses
<1>2. \A k \in 2 .. n + 1 : k \in 1 .. Len(talk)
  BY <1>1 DEF Made
<1>3. cpc # "awaitGuess" => Made(n)'
  BY <1>1, <1>2 DEF Made
<1>4. ASSUME cpc = "awaitGuess", Len(talk) = n + 1, ~RandomOrder => out.otp = OTPMin + n
      PROVE  Made(n + 1)'
  <2>1. Guesses' = 2 .. n + 2
    BY <1>1, <1>4 DEF Made
  <2>2. \A k \in 2 .. n + 1 : talk'[k] = talk[k]
    BY <1>1, <1>2
  <2>3. talk'[n + 2].sent = out
    BY <1>1, <1>4
  <2>4. ~RandomOrder => \A k \in 2 .. n + 2 : talk'[k].sent.otp = OTPMin + k - 2
    BY SMTT(30), <1>4, <2>2, <2>3 DEF Made
  <2> QED
    BY <2>1, <2>4 DEF Made
<1> QED
  BY <1>1, <1>3, <1>4

(* Every step of the client keeps TriedInv. *)
LEMMA TriedStep ==
    CTypeOK /\ TriedInv /\ (ClientStep \/ UNCHANGED cvars) => TriedInv'
<1> SUFFICES ASSUME CTypeOK, TriedInv, ClientStep \/ UNCHANGED cvars PROVE TriedInv'
  OBVIOUS
<1>0. i \in Nat /\ rangeSize \in Int /\ attempts \in Int
  BY RangeSize DEF CTypeOK
<1>s. talk' = talk => \A n : Made(n)' <=> Made(n)
  BY DEF Made, Guesses
<1> USE <1>0, <1>s DEF TriedInv, Guessing, Done
<1>1. CASE UNCHANGED cvars
  BY <1>1 DEF cvars
<1>2. CASE SendFirst
  BY <1>2 DEF SendFirst, Await
<1>3. CASE SendGuess
  BY <1>3 DEF SendGuess, Await, Candidates
<1>4. CASE SendCheck
  BY <1>4 DEF SendCheck, Await
<1>5. CASE LoopDone
  BY <1>5 DEF LoopDone
<1>6. CASE Summarise
  BY <1>6 DEF Summarise
<1>7. ASSUME NEW r \in Heard, FirstAnswer(r) PROVE TriedInv'
  <2>1. Record(r) /\ cpc = "awaitFirst" /\ talk = <<>> /\ i' = i /\ i = 0
    BY <1>7 DEF FirstAnswer
  <2>2. Made(0)
    BY <2>1 DEF Made, Guesses
  <2>3. Made(0)'
    BY <2>1, <2>2, MadeOn
  <2>4. Len(talk') = 1
    BY <2>1, Recorded
  <2>5. Made(i)'
    BY <2>1, <2>3 DEF Made
  <2>6. rangeSize > 0 => attempts >= 0
    BY RangeSize
  <2>7. found' = -1 /\ failed' \in {"none", "first request"}
    BY <1>7 DEF FirstAnswer, Fail
  <2>8. \/ cpc' = "ended" /\ failed' = "first request"
        \/ cpc' = "loop" /\ failed' = "none"
    BY <1>7 DEF FirstAnswer, Fail
  <2>9. CASE cpc' = "ended" /\ failed' = "first request"
    BY <2>7, <2>9
  <2>10. CASE cpc' = "loop" /\ failed' = "none"
    <3>1. Guessing'
      BY <2>1, <2>4, <2>5, <2>6, <2>7, <2>10
    <3> QED
      BY <3>1, <2>10
  <2> QED
    BY <2>8, <2>9, <2>10
<1>8. ASSUME NEW r \in Heard, GuessAccepted(r) PROVE TriedInv'
  BY <1>8 DEF GuessAccepted
<1>9. ASSUME NEW r \in Heard, GuessNotAccepted(r) PROVE TriedInv'
  <2>1. Record(r) /\ cpc = "awaitGuess" /\ Len(talk) = i + 1 /\ Made(i)
    BY <1>9 DEF GuessNotAccepted
  <2>2. \A n \in Nat : n = i => Len(talk') = n + 2 /\ Made(n + 1)'
    BY <2>1, <1>9, MadeOn DEF GuessNotAccepted
  <2>3. Len(talk') = i' + 1 /\ Made(i)'
    BY <2>2, <1>9 DEF GuessNotAccepted, Made
  <2> QED
    BY <1>9, <2>3 DEF GuessNotAccepted
<1>10. ASSUME NEW r \in Heard, GuessUnanswerable(r) PROVE TriedInv'
  BY <1>10 DEF GuessUnanswerable, Fail
<1>11. ASSUME NEW r \in Heard, EmptyAnswer(r) PROVE TriedInv'
  BY <1>11 DEF EmptyAnswer
<1>12. ASSUME NEW r \in Heard, CheckAnswer(r) PROVE TriedInv'
  <2>1. Record(r) /\ cpc = "awaitCheck"
    BY <1>12 DEF CheckAnswer
  <2>2. found = -1 /\ rangeSize > 0 => Made(attempts)'
    BY <2>1, MadeOn, RangeSize
  <2> QED
    BY <1>12, <2>2 DEF CheckAnswer
<1> QED
  BY <1>1, <1>2, <1>3, <1>4, <1>5, <1>6, <1>7, <1>8, <1>9, <1>10, <1>11, <1>12
     DEF ClientStep, Send, Local, Get

(* A scenario that ends without a password has made every guess it was to  *)
(* make, for every range whose size does not wrap.                         *)
THEOREM RangeTriedCorrect == CSpec => []RangeTried
<1>1. CInit => CTypeOK /\ TriedInv
  BY CTypeInit, TriedInit
<1>2. CTypeOK /\ TriedInv /\ [CNext]_cvars => (CTypeOK /\ TriedInv)'
  BY AnyAnswer, CTypeStep, TriedStep
<1>3. TriedInv => RangeTried
  BY RangeSize DEF TriedInv, Done, Made, RangeTried
<1> QED
  BY <1>1, <1>2, <1>3, PTL DEF CSpec

-------------------------------------------------------------------------------
(* How much a scenario has left to do: a step to send and a step to hear   *)
(* for each guess that is to be made and each probe.                       *)
Ahead(n) == IF i < n THEN n - i ELSE 0
ProbesLeft == Ahead(Len(StateChecks) + 1)
GuessesLeft == Ahead(attempts)
AfterLoop == 2 * Len(StateChecks) + 3
Left == CASE cpc = "first"      -> AfterLoop + 2 * GuessesLeft + 3
          [] cpc = "awaitFirst" -> AfterLoop + 2 * GuessesLeft + 2
          [] cpc = "loop"       -> AfterLoop + 2 * GuessesLeft + 1
          [] cpc = "awaitGuess" -> AfterLoop + 2 * GuessesLeft
          [] cpc = "checks"     -> 2 * ProbesLeft + 1
          [] cpc = "awaitCheck" -> 2 * ProbesLeft
          [] OTHER -> 0

LEMMA LeftTypes ==
    ASSUME CTypeOK
    PROVE  /\ Len(StateChecks) \in Nat /\ ProbesLeft \in 0 .. Len(StateChecks) + 1
           /\ GuessesLeft \in 0 .. MaxAttempts
           /\ i \in Nat /\ attempts \in Int
           /\ Left \in 0 .. 2 * (MaxAttempts + Len(StateChecks) + 3)
<1>1. /\ i \in Nat /\ Len(StateChecks) \in Nat /\ MaxAttempts \in Nat
      /\ attempts \in Int /\ attempts <= MaxAttempts
  BY CheckAssumption, RangeSize DEF CTypeOK, attempts
<1>2. ProbesLeft \in 0 .. Len(StateChecks) + 1 /\ GuessesLeft \in 0 .. MaxAttempts
  BY <1>1 DEF ProbesLeft, GuessesLeft, Ahead
<1>3. CASE cpc \in {"first", "awaitFirst", "loop", "awaitGuess"}
  <2>1. \E n \in 0 .. 3 : Left = AfterLoop + 2 * GuessesLeft + n
    BY <1>1, <1>2, <1>3 DEF Left, AfterLoop
  <2> QED
    BY <1>1, <1>2, <2>1 DEF AfterLoop
<1>4. CASE cpc \in {"checks", "awaitCheck"}
  <2>1. Left \in {2 * ProbesLeft, 2 * ProbesLeft + 1}
    BY <1>4 DEF Left
  <2> QED
    BY <1>1, <1>2, <2>1
<1>5. CASE cpc \in {"ended", "panic"}
  <2>1. Left = 0
    BY <1>5 DEF Left
  <2> QED
    BY <1>1, <1>2, <2>1
<1> QED
  BY <1>3, <1>4, <1>5 DEF CTypeOK, CLabels

(* A probe is one of the list. *)
Probing == cpc = "awaitCheck" => i <= Len(StateChecks)

LEMMA ProbingStep == CTypeOK /\ Probing /\ (ClientStep \/ UNCHANGED cvars) => Probing'
  BY DEF Probing, ClientStep, Send, Local, Get, SendFirst, SendGuess, SendCheck, Await, LoopDone,
     Summarise, FirstAnswer, Fail, GuessAccepted, GuessNotAccepted, GuessUnanswerable, EmptyAnswer,
     CheckAnswer, cvars

LEMMA LeftStep ==
    ASSUME CTypeOK, CTypeOK', TriedInv, Probing, ClientStep PROVE Left' < Left
<1>0. /\ Len(StateChecks) \in Nat /\ ProbesLeft \in Nat /\ GuessesLeft \in Nat
      /\ i \in Nat /\ attempts \in Int
  BY LeftTypes
<1>a. AfterLoop = 2 * Len(StateChecks) + 3
  BY DEF AfterLoop
<1>w. UNCHANGED <<attempts, AfterLoop>>
  BY DEF attempts, rangeSize, AfterLoop
<1>s. i' = i => UNCHANGED <<ProbesLeft, GuessesLeft>>
  BY DEF ProbesLeft, GuessesLeft, Ahead, attempts, rangeSize
<1>n. ASSUME i' = i + 1
      PROVE  /\ i < attempts => GuessesLeft' = GuessesLeft - 1 /\ GuessesLeft > 0
             /\ i <= Len(StateChecks) => ProbesLeft' = ProbesLeft - 1 /\ ProbesLeft > 0
  BY <1>0, <1>n, <1>w DEF ProbesLeft, GuessesLeft, Ahead
<1>e. ASSUME i' = 1 PROVE ProbesLeft' = Len(StateChecks)
  BY <1>0, <1>e DEF ProbesLeft, Ahead
<1> USE DEF Left
<1>2. CASE SendFirst
  BY <1>0, <1>a, <1>w, <1>s, <1>2 DEF SendFirst, Await
<1>3. CASE SendGuess
  BY <1>0, <1>a, <1>w, <1>s, <1>3 DEF SendGuess, Await
<1>4. CASE SendCheck
  BY <1>0, <1>s, <1>4 DEF SendCheck, Await
<1>5. CASE LoopDone
  BY <1>0, <1>a, <1>e, <1>5 DEF LoopDone
<1>6. CASE Summarise
  <2>1. Left = 2 * ProbesLeft + 1 /\ Left' = 0
    BY <1>6 DEF Summarise
  <2> QED
    BY <1>0, <2>1
<1>7. ASSUME NEW r \in Heard, FirstAnswer(r) PROVE Left' < Left
  <2>1. cpc = "awaitFirst" /\ i' = i /\ cpc' \in {"ended", "loop"}
    BY <1>7 DEF FirstAnswer, Fail
  <2> QED
    BY <1>0, <1>a, <1>w, <1>s, <2>1
<1>8. ASSUME NEW r \in Heard, GuessAccepted(r) PROVE Left' < Left
  BY <1>0, <1>a, <1>e, <1>8 DEF GuessAccepted
<1>9. ASSUME NEW r \in Heard, GuessNotAccepted(r) PROVE Left' < Left
  <2>1. cpc = "awaitGuess" /\ cpc' = "loop" /\ i' = i + 1 /\ i < attempts
    BY <1>9 DEF GuessNotAccepted, TriedInv, Guessing
  <2> QED
    BY <1>0, <1>a, <1>w, <1>n, <2>1
<1>10. ASSUME NEW r \in Heard, GuessUnanswerable(r) PROVE Left' < Left
  BY <1>0, <1>a, <1>10 DEF GuessUnanswerable, Fail
<1>11. ASSUME NEW r \in Heard, EmptyAnswer(r) PROVE Left' < Left
  <2>1. cpc = "awaitCheck" => ProbesLeft > 0
    BY <1>0 DEF Probing, ProbesLeft, Ahead
  <2> QED
    BY <1>0, <1>a, <1>11, <2>1 DEF EmptyAnswer
<1>12. ASSUME NEW r \in Heard, CheckAnswer(r) PROVE Left' < Left
  <2>1. cpc = "awaitCheck" /\ cpc' = "checks" /\ i' = i + 1 /\ i <= Len(StateChecks)
    BY <1>12 DEF CheckAnswer, Probing
  <2> QED
    BY <1>0, <1>n, <2>1
<1> QED
  BY <1>2, <1>3, <1>4, <1>5, <1>6, <1>7, <1>8, <1>9, <1>10, <1>11, <1>12
     DEF ClientStep, Send, Local, Get

(* For any range, order, list of probes and answers: every step leaves     *)
(* less to do, and a scenario is over after two steps for each of the      *)
(* max_attempts guesses and the probes, and six more (runChallenge-        *)
(* Scenario).  Terminates adds that the steps are taken.                   *)
THEOREM TurnsRunOut ==
    CSpec => /\ [](Left \in 0 .. 2 * (MaxAttempts + Len(StateChecks) + 3))
             /\ [][Left' < Left]_cvars
<1> DEFINE I == CTypeOK /\ TriedInv /\ Probing
<1>1. CInit => I
  BY CTypeInit, TriedInit DEF CInit, Probing
<1>2. I /\ [CNext]_cvars => I'
  BY AnyAnswer, CTypeStep, TriedStep, ProbingStep
<1>3. I => Left \in 0 .. 2 * (MaxAttempts + Len(StateChecks) + 3)
  BY LeftTypes
<1>4. I /\ I' /\ [CNext]_cvars => [Left' < Left]_cvars
  BY AnyAnswer, LeftStep
<1> QED
  BY <1>1, <1>2, <1>3, <1>4, PTL DEF CSpec
===============================================================================
