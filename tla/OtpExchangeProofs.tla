--------------------------- MODULE OtpExchangeProofs ---------------------------
(***************************************************************************)
(* Theorems about OtpExchange, for any number of datagrams delivered, any  *)
(* range of passwords and any state checks.  The server keeps what         *)
(* MockServerProofs proves of it and the client what ChallengeClientProofs *)
(* proves, whatever the network does.  WireInv ties the two together: what *)
(* each handler serves, which State the client uses, and what a reply may  *)
(* be.  VerdictInv follows the one guess that is judged.                   *)
(***************************************************************************)
EXTENDS OtpExchange, SequenceTheorems, TLAPS

SP == INSTANCE MockServerProofs WITH
    mode <- "pap+otp", Requests <- [m \in {"pap+otp"} |-> Requests], IdMod <- 1
CP == INSTANCE ChallengeClientProofs WITH
    StateValue <- Token, Corrupted <- Foreign, Text <- {"", "Enter OTP: "},
    Answers <- {}

(* What the two modules assume of their constants. *)
LEMMA ServerConstants ==
    /\ 1 \in Nat \ {0}
    /\ DOMAIN [m \in {"pap+otp"} |-> Requests] \subseteq SP!Modes
    /\ \A k \in DOMAIN [m \in {"pap+otp"} |-> Requests] :
          [m \in {"pap+otp"} |-> Requests][k] \subseteq SP!Request
    /\ NoState \notin Token /\ Foreign \notin Token /\ NoToken \notin Token
    /\ NoHandler \notin Handlers
    /\ NoRequest \notin SP!Request /\ NoSession \notin SP!Session /\ NoReply \notin SP!Reply
  BY ServerAssumption
     DEF SP!Modes, SP!Request, SP!Session, SP!Reply, SP!Id, SP!Digest,
         Server!Request, Server!Session, Server!Reply, Server!Id, Server!Digest

LEMMA ClientConstants ==
    /\ IntMax \in Nat
    /\ {OTPMin, OTPMax} \subseteq 0 .. IntMax /\ OTPMin <= OTPMax
    /\ MaxAttempts \in 1 .. IntMax
    /\ StateChecks \in Seq({"bit_flip", "truncate", "foreign", "drop"})
    /\ NoState \notin Token /\ EmptyState \notin Token
    /\ {} \subseteq CP!Failure \cup CP!Message
  BY ServerAssumption, ClientAssumption

(* The server's steps here are the steps MockServerProofs speaks of. *)
LEMMA SameServer ==
    ASSUME NEW h \in Handlers
    PROVE  /\ Server!Receive(h) => SP!Receive(h)
           /\ Server!Step(h) => SP!Step(h)
<1> USE DEF Server!Goto, SP!Goto, Server!Answer, SP!Answer, Server!Delivered, SP!Delivered,
            Server!PassesMA, SP!PassesMA, Server!KnownPassword, SP!KnownPassword,
            Server!OpensChallenge, SP!OpensChallenge, Server!PasswordOf, SP!PasswordOf,
            Server!AnswersChallenge, SP!AnswersChallenge, Server!ChapMatches, SP!ChapMatches,
            Server!AcceptsAtOnce, SP!AcceptsAtOnce, Server!AnswerFits, SP!AnswerFits,
            Server!NextId, SP!NextId, Server!Digest, SP!Digest, Server!Id, SP!Id
<1>1. Server!Receive(h) => SP!Receive(h)
  BY DEF Server!Receive, SP!Receive
<1>2. Server!Decide(h) => SP!Decide(h)
  BY DEF Server!Decide, SP!Decide
<1>3. Server!DrawToken(h) => SP!DrawToken(h)
  BY DEF Server!DrawToken, SP!DrawToken
<1>4. Server!BeginRound2(h) => SP!BeginRound2(h)
  BY DEF Server!BeginRound2, SP!BeginRound2
<1>5. Server!Lock(h) => SP!Lock(h)
  BY DEF Server!Lock, SP!Lock
<1>6. Server!Insert(h) => SP!Insert(h)
  BY DEF Server!Insert, SP!Insert
<1>7. Server!Lookup(h) => SP!Lookup(h)
  BY DEF Server!Lookup, SP!Lookup
<1>8. Server!Delete(h) => SP!Delete(h)
  BY DEF Server!Delete, SP!Delete
<1>9. Server!Unlock(h) => SP!Unlock(h)
  BY DEF Server!Unlock, SP!Unlock
<1>10. Server!WriteChallenge(h) => SP!WriteChallenge(h)
  BY DEF Server!WriteChallenge, SP!WriteChallenge
<1>11. Server!Judge(h) => SP!Judge(h)
  BY DEF Server!Judge, SP!Judge
<1> QED
  BY <1>1, <1>2, <1>3, <1>4, <1>5, <1>6, <1>7, <1>8, <1>9, <1>10, <1>11
     DEF Server!Step, SP!Step

(* And so are the client's. *)
LEMMA SameClient ==
    /\ Client!Send => CP!Send
    /\ Client!Local => CP!Local
    /\ \A r : Client!Get(r) => CP!Get(r)
<1> USE DEF Client!Await, CP!Await, Client!Record, CP!Record, Client!Fail, CP!Fail,
            Client!Wrap, CP!Wrap, Client!rangeSize, CP!rangeSize, Client!attempts, CP!attempts,
            Client!Candidates, CP!Candidates, Client!CopyOf, CP!CopyOf,
            Client!CheckedState, CP!CheckedState, Client!OffersState, CP!OffersState,
            Client!Fingerprint, CP!Fingerprint, Client!NotePattern, CP!NotePattern,
            Client!NextState, CP!NextState
<1>1. Client!Send => CP!Send
  BY DEF Client!Send, CP!Send, Client!SendFirst, CP!SendFirst, Client!SendGuess, CP!SendGuess,
         Client!SendCheck, CP!SendCheck
<1>2. Client!Local => CP!Local
  BY DEF Client!Local, CP!Local, Client!LoopDone, CP!LoopDone, Client!Summarise, CP!Summarise
<1>3. ASSUME NEW r, Client!Get(r) PROVE CP!Get(r)
  BY <1>3 DEF Client!Get, CP!Get, Client!FirstAnswer, CP!FirstAnswer,
              Client!GuessAccepted, CP!GuessAccepted, Client!GuessNotAccepted, CP!GuessNotAccepted,
              Client!GuessUnanswerable, CP!GuessUnanswerable, Client!EmptyAnswer, CP!EmptyAnswer,
              Client!CheckAnswer, CP!CheckAnswer
<1> QED
  BY <1>1, <1>2, <1>3
-------------------------------------------------------------------------------
(* The datagrams the client sends are the requests of its turns, and every *)
(* handler serves the datagram it was started for.                         *)
Datagram == [ma : {"valid"}, kind : {"plain"}, name : {SeedUser}, cred : Int \cup {SeedPwd},
             attr60 : {FALSE}, id : {0}, state : Token \cup {NoState, EmptyState, Foreign}]
InFlight == cpc \in {"awaitFirst", "awaitGuess", "awaitCheck"}

Served ==
    /\ sent \in Seq(Datagram)
    /\ sock \in [Handlers -> Nat]
    /\ \A h \in Handlers :
          /\ sock[h] <= Len(sent)
          /\ pc[h] = "idle" <=> sock[h] = 0
          /\ sock[h] # 0 => req[h] = sent[sock[h]]

Numbered ==
    /\ Len(sent) = Len(talk) + (IF InFlight THEN 1 ELSE 0)
    /\ InFlight => sent[Len(sent)] = AsDatagram(out)
    /\ \A k \in 1 .. Len(talk) : sent[k] = AsDatagram(talk[k].sent)

(* There is one State in play.  The probes carry none of the server's.     *)
OneState ==
    /\ cpc = "first" => sent = <<>>
    /\ cpc # "first" => Len(sent) >= 1 /\ sent[1].state = NoState
    /\ \A n \in 1 .. Len(sent) : sent[n].state \in Token => sent[n].state = cur
    /\ cpc \in {"loop", "awaitGuess"} => cur \in Token
    /\ cpc = "awaitFirst" => out.state = NoState
    /\ cpc = "awaitGuess" => out.state = cur
    /\ cpc = "awaitCheck" => out.state \notin Token

WireInv == /\ SP!OriginInv /\ CP!CTypeOK /\ CP!CarryInv /\ CP!TriedInv
           /\ Served /\ Numbered /\ OneState

(* How the client sees a rejection. *)
Rejection == [timedOut |-> FALSE, code |-> 3, replyText |-> ""]

(* What a reply of the server may be. *)
LEMMA Replies ==
    ASSUME SP!OriginInv, NEW h \in Handlers, reply[h] # NoReply
    PROVE  /\ AsAnswer(reply[h]) \in CP!Heard /\ AsAnswer(reply[h]).kind = "message"
           /\ AsAnswer(reply[h]).state = reply[h].state
           /\ AsAnswer(reply[h]).code = 2 <=> SP!Accepted(h)
           /\ reply[h].state \in Token \cup {NoState}
           /\ req[h].state \in Token =>
                 /\ ~CP!OffersState(AsAnswer(reply[h]))
                 /\ AsAnswer(reply[h]).code # 2 => CP!Fingerprint(AsAnswer(reply[h])) = Rejection
           /\ SP!Accepted(h) => SP!Taken(h) /\ req[h].state \in Token /\ req[h].cred = Otp
           /\ SP!Taken(h) /\ req[h].cred = Otp => SP!Accepted(h)
           /\ req[h].state \in Token /\ req[h].ma = "valid" =>
                 \E k \in Handlers : SP!Taken(k) /\ req[k].state = req[h].state
<1>1. /\ reply[h].code \in {"accept", "reject", "challenge"}
      /\ reply[h].state \in Token \cup {NoState}
  BY DEF SP!OriginInv, SP!SessionInv, SP!Typed, SP!TypeOK, SP!Reply
<1>2. pc[h] = "done" /\ req[h] # NoRequest
  BY ServerConstants DEF SP!OriginInv, SP!SessionInv, SP!Lookups, SP!Typed, SP!Serving
<1>3. SP!Accepted(h) => SP!Taken(h) /\ req[h].state \in Token /\ req[h].cred = Otp
  BY <1>2 DEF SP!OriginInv, SP!Verdicts, SP!AnswerFits, SP!Taken
<1>4. SP!Taken(h) /\ req[h].cred = Otp => SP!Accepted(h)
  BY <1>2 DEF SP!OriginInv, SP!FittingAccepted, SP!AnswerFits
<1>5. /\ reply[h].code = "challenge" <=> reply[h].state \in Token
      /\ reply[h].code = "challenge" => tok[h] = reply[h].state
  BY DEF SP!OriginInv, SP!Openers
<1>6. reply[h].code = "challenge" => req[h].state = NoState
  BY <1>5, ServerConstants DEF SP!OriginInv, SP!Openers, SP!OpensChallenge
<1>7. req[h].state \in Token /\ req[h].ma = "valid" =>
         \E k \in Handlers : SP!Taken(k) /\ req[k].state = req[h].state
  BY <1>2, ServerConstants
     DEF SP!OriginInv, SP!UnknownMeansTaken, SP!Taken, SP!PassesMA, SP!AnswersChallenge
<1>8. /\ AsAnswer(reply[h]).kind = "message" /\ AsAnswer(reply[h]).parses
      /\ AsAnswer(reply[h]).state = reply[h].state
      /\ reply[h].code = "accept" <=> AsAnswer(reply[h]).code = 2
      /\ reply[h].code = "reject" <=> AsAnswer(reply[h]).code = 3
      /\ reply[h].code = "challenge" <=> AsAnswer(reply[h]).code = 11
      /\ reply[h].code # "challenge" => AsAnswer(reply[h]).text = ""
  BY <1>1 DEF AsAnswer
<1>9. AsAnswer(reply[h]) \in CP!Heard
  <2>1. \E c \in {2, 3, 11}, t \in {"", "Enter OTP: "} :
           AsAnswer(reply[h]) = [kind |-> "message", code |-> c, parses |-> TRUE,
                                 state |-> reply[h].state, text |-> t]
    BY <1>1 DEF AsAnswer
  <2>0. {2, 3, 11} \subseteq 0 .. 255 /\ reply[h].state \in Token \cup {NoState, EmptyState}
    BY <1>1
  <2>2. \A c \in 0 .. 255, t \in {"", "Enter OTP: "} :
           [kind |-> "message", code |-> c, parses |-> TRUE, state |-> reply[h].state,
            text |-> t] \in CP!Message
    BY <2>0 DEF CP!Message
  <2> QED
    BY <2>0, <2>1, <2>2 DEF CP!Heard
<1>10. req[h].state \in Token => reply[h].code \in {"accept", "reject"}
  BY <1>1, <1>6, ServerConstants
<1>11. req[h].state \in Token => ~CP!OffersState(AsAnswer(reply[h]))
  BY <1>8, <1>10 DEF CP!OffersState
<1>12. req[h].state \in Token /\ AsAnswer(reply[h]).code # 2
          => CP!Fingerprint(AsAnswer(reply[h])) = Rejection
  BY <1>8, <1>10 DEF CP!Fingerprint, Rejection
<1>13. AsAnswer(reply[h]).code = 2 <=> SP!Accepted(h)
  BY <1>8 DEF SP!Accepted
<1> QED
  BY <1>1, <1>3, <1>4, <1>7, <1>8, <1>9, <1>11, <1>12, <1>13

(* A step of the exchange is a step of the server and one of the client,   *)
(* each of which may stand still.                                          *)
LEMMA PartsStep ==
    ASSUME WireInv, [Next]_vars
    PROVE  /\ SP!OriginInv'
           /\ CP!CTypeOK' /\ CP!CarryInv' /\ CP!TriedInv'
<1>1. CASE UNCHANGED serverVars /\ (CP!ClientStep \/ UNCHANGED CP!cvars)
  <2>1. UNCHANGED SP!vars
    BY <1>1 DEF serverVars, SP!vars
  <2> QED
    BY <1>1, <2>1, ServerConstants, ClientConstants, SP!OriginStep, CP!CTypeStep, CP!CarryStep,
       CP!TriedStep DEF WireInv
<1>2. CASE SP!Next /\ UNCHANGED clientVars
  <2>1. UNCHANGED CP!cvars
    BY <1>2 DEF clientVars, CP!cvars
  <2> QED
    BY <1>2, <2>1, ServerConstants, ClientConstants, SP!OriginStep, CP!CTypeStep, CP!CarryStep,
       CP!TriedStep DEF WireInv
<1>3. CASE ClientSends \/ ClientWorks
  BY <1>1, <1>3, SameClient DEF ClientSends, ClientWorks, CP!ClientStep
<1>4. CASE ClientTimesOut
  <2>1. [kind |-> "timeout"] \in CP!Heard
    BY DEF CP!Heard, CP!Failure
  <2> QED
    BY <1>1, <1>4, <2>1, SameClient DEF ClientTimesOut, CP!ClientStep
<1>5. ASSUME NEW h \in Handlers, ClientReads(h)
      PROVE  UNCHANGED serverVars /\ CP!ClientStep
  BY <1>5, SameClient, Replies DEF ClientReads, CP!ClientStep, WireInv
<1>6. ASSUME NEW h \in Handlers, Deliver(h) \/ ServerWorks(h)
      PROVE  SP!Next /\ UNCHANGED clientVars
  BY <1>6, SameServer DEF Deliver, ServerWorks, SP!Next
<1>7. CASE UNCHANGED vars
  BY <1>1, <1>7 DEF vars, clientVars, CP!cvars
<1> QED
  BY <1>1, <1>2, <1>3, <1>4, <1>5, <1>6, <1>7 DEF Next, Over

LEMMA WireInit == Init => WireInv
<1> SUFFICES ASSUME Init PROVE WireInv
  OBVIOUS
<1>1. SP!Init
  BY DEF Init, Server!Init, SP!Init
<1>2. CP!CInit
  BY DEF Init, Client!CInit, CP!CInit
<1>3. SP!OriginInv /\ CP!CTypeOK /\ CP!CarryInv /\ CP!TriedInv
  BY <1>1, <1>2, ServerConstants, ClientConstants, SP!OriginInit, CP!CTypeInit, CP!CarryInit,
     CP!TriedInit
<1>4. /\ sent = <<>> /\ talk = <<>> /\ cpc = "first"
      /\ sock = [h \in Handlers |-> 0] /\ pc = [h \in Handlers |-> "idle"]
  BY DEF Init, Server!Init, Client!CInit
<1>5. <<>> \in Seq(Datagram) /\ Len(<<>>) = 0
  OBVIOUS
<1> QED
  BY <1>3, <1>4, <1>5 DEF WireInv, Served, Numbered, OneState, InFlight

(* What the client reads, if anything, is a reply to its outstanding       *)
(* request, and a request that carries a State gets no challenge.          *)
Fits(r) ==
    /\ r \in CP!Heard /\ r.kind \in {"timeout", "message"}
    /\ CP!OffersState(r) => r.state \in Token /\ out.state \notin Token

LEMMA AnswerFitsRequest ==
    ASSUME WireInv, NEW h \in Handlers, ClientReads(h), InFlight
    PROVE  /\ req[h] = AsDatagram(out) /\ req[h].state = out.state /\ req[h].ma = "valid"
           /\ req[h].cred = IF out.otp = -1 THEN SeedPwd ELSE out.otp
           /\ sock[h] = Len(sent) /\ Fits(AsAnswer(reply[h]))
<1>1. sock[h] = Len(sent) /\ reply[h] # NoReply
  BY DEF ClientReads
<1>2. Len(talk) \in Nat
  BY DEF WireInv, CP!CTypeOK
<1>3. req[h] = AsDatagram(out)
  BY <1>1, <1>2 DEF WireInv, Served, Numbered
<1>4. /\ req[h].state = out.state /\ req[h].ma = "valid"
      /\ req[h].cred = IF out.otp = -1 THEN SeedPwd ELSE out.otp
  BY <1>3 DEF AsDatagram
<1>5. Fits(AsAnswer(reply[h]))
  BY <1>1, <1>4, Replies DEF WireInv, Fits, CP!OffersState
<1> QED
  BY <1>1, <1>3, <1>4, <1>5

(* Seeing a request through adds a turn to the talk, and leaves the State  *)
(* in play alone once there is one.                                        *)
LEMMA TurnOver ==
    ASSUME WireInv, NEW r, Fits(r), CP!Get(r)
    PROVE  /\ InFlight /\ ~InFlight' /\ CP!Record(r)
           /\ cpc' \in {"loop", "checks", "ended"}
           /\ cpc' = "loop" => cur' \in Token
           /\ cur' = cur \/ cpc = "awaitFirst"
<1> USE DEF Fits, InFlight
<1>1. CASE CP!FirstAnswer(r)
  <2>1. CP!OffersState(r) => CP!CopyOf(r.state) \in Token
    BY ClientConstants DEF CP!CopyOf
  <2> QED
    BY <1>1, <2>1 DEF CP!FirstAnswer, CP!Fail
<1>2. CASE CP!GuessAccepted(r)
  BY <1>2 DEF CP!GuessAccepted
<1>3. CASE CP!GuessNotAccepted(r)
  <2>1. cpc = "awaitGuess" /\ cur \in Token /\ out.state \in Token
    BY <1>3 DEF CP!GuessNotAccepted, WireInv, OneState
  <2>2. CP!NextState(r) = cur
    BY <2>1 DEF CP!NextState
  <2> QED
    BY <1>3, <2>1, <2>2 DEF CP!GuessNotAccepted
<1>4. CASE CP!GuessUnanswerable(r)
  BY <1>4 DEF CP!GuessUnanswerable
<1>5. CASE CP!EmptyAnswer(r)
  BY <1>5 DEF CP!EmptyAnswer
<1>6. CASE CP!CheckAnswer(r)
  BY <1>6 DEF CP!CheckAnswer
<1> QED
  BY <1>1, <1>2, <1>3, <1>4, <1>5, <1>6 DEF CP!Get

(* What the client sends next. *)
LEMMA Sending ==
    ASSUME WireInv, ClientSends
    PROVE  /\ UNCHANGED <<serverVars, sock, talk, cur>> /\ ~InFlight
           /\ \/ sent' = sent /\ cpc' = "panic" /\ cpc = "loop"
              \/ /\ InFlight' /\ sent' = Append(sent, AsDatagram(out'))
                 /\ \/ cpc = "first" /\ cpc' = "awaitFirst" /\ out'.state = NoState
                    \/ cpc = "loop" /\ cpc' = "awaitGuess" /\ out'.state = cur
                    \/ cpc = "checks" /\ cpc' = "awaitCheck" /\ out'.state \notin Token
<1> USE DEF InFlight, CP!Await
<1>1. /\ CP!Send /\ UNCHANGED <<serverVars, sock>>
      /\ sent' = IF cpc' = "panic" THEN sent ELSE Append(sent, AsDatagram(out'))
  BY SameClient DEF ClientSends
<1>2. CASE CP!SendFirst
  BY <1>1, <1>2 DEF CP!SendFirst
<1>3. CASE CP!SendGuess
  BY <1>1, <1>3 DEF CP!SendGuess
<1>4. CASE CP!SendCheck
  <2>1. out'.state = CP!CheckedState(StateChecks[i], cur)
    BY <1>4 DEF CP!SendCheck
  <2>2. out'.state \notin Token
    BY <2>1, ServerConstants, ClientConstants DEF CP!CheckedState
  <2> QED
    BY <1>1, <1>4, <2>2 DEF CP!SendCheck
<1> QED
  BY <1>1, <1>2, <1>3, <1>4 DEF CP!Send

(* Every step keeps WireInv. *)
LEMMA WireStep == WireInv /\ [Next]_vars => WireInv'
<1> SUFFICES ASSUME WireInv, [Next]_vars PROVE WireInv'
  OBVIOUS
<1>0. SP!OriginInv' /\ CP!CTypeOK' /\ CP!CarryInv' /\ CP!TriedInv'
  BY PartsStep
<1>1. /\ sent \in Seq(Datagram) /\ Len(sent) \in Nat
      /\ talk \in Seq(CP!Turn) /\ Len(talk) \in Nat
  BY DEF WireInv, Served, CP!CTypeOK
<1> USE <1>0, <1>1 DEF WireInv
<1>2. ASSUME Served', Numbered', OneState' PROVE WireInv'
  BY <1>2
<1>3. CASE ClientSends
  <2>1. CASE sent' = sent /\ cpc' = "panic" /\ cpc = "loop"
    <3>1. Served'
      BY <1>3, <2>1, Sending DEF Served, serverVars
    <3>2. Numbered' /\ OneState'
      BY <1>3, <2>1, Sending DEF Numbered, OneState, InFlight
    <3> QED
      BY <1>2, <3>1, <3>2
  <2>2. CASE InFlight' /\ sent' = Append(sent, AsDatagram(out'))
    <3>1. AsDatagram(out') \in Datagram /\ AsDatagram(out').state = out'.state
      BY <2>2 DEF AsDatagram, Datagram, InFlight, CP!CTypeOK, CP!Sent
    <3>2. /\ sent' \in Seq(Datagram) /\ Len(sent') = Len(sent) + 1
          /\ \A n \in 1 .. Len(sent) : sent'[n] = sent[n]
          /\ sent'[Len(sent')] = AsDatagram(out')
      BY <2>2, <3>1, AppendProperties
    <3>3. UNCHANGED <<serverVars, sock, talk, cur>> /\ ~InFlight
      BY <1>3, Sending
    <3>4. Served'
      BY <3>2, <3>3 DEF Served, serverVars
    <3>5. Numbered'
      BY <2>2, <3>2, <3>3 DEF Numbered
    <3>6. /\ cpc = "first" => Len(sent) = 0 /\ out'.state = NoState
          /\ cpc # "first" => Len(sent) >= 1
          /\ out'.state \in Token => out'.state = cur /\ cpc = "loop"
          /\ cpc' # "first" /\ cpc' # "loop"
          /\ cpc' = "awaitGuess" => cpc = "loop"
      BY <1>3, <2>2, Sending, ServerConstants DEF OneState, InFlight
    <3>7. \A n \in 1 .. Len(sent') : sent'[n].state \in Token => sent'[n].state = cur'
      BY <3>1, <3>2, <3>3, <3>6 DEF OneState
    <3>8. Len(sent') >= 1 /\ sent'[1].state = NoState
      BY <3>1, <3>2, <3>6 DEF OneState
    <3>9. /\ cpc' = "awaitFirst" => out'.state = NoState
          /\ cpc' = "awaitGuess" => out'.state = cur'
          /\ cpc' = "awaitCheck" => out'.state \notin Token
      BY <1>3, <2>2, <3>3, Sending DEF InFlight
    <3>10. OneState'
      BY <3>3, <3>6, <3>7, <3>8, <3>9 DEF OneState
    <3> QED
      BY <1>2, <3>4, <3>5, <3>10
  <2> QED
    BY <1>3, <2>1, <2>2, Sending
<1>4. CASE ClientWorks
  <2>1. /\ UNCHANGED <<serverVars, sent, sock, talk, cur, out>>
        /\ ~InFlight /\ cpc # "first" /\ cpc' \in {"checks", "ended"}
    BY <1>4, SameClient
       DEF ClientWorks, CP!Local, CP!LoopDone, CP!Summarise, InFlight
  <2>2. Served' /\ Numbered' /\ OneState'
    BY <2>1 DEF Served, Numbered, OneState, InFlight, serverVars
  <2> QED
    BY <1>2, <2>2
<1>5. ASSUME NEW r, Fits(r), CP!Get(r), UNCHANGED <<serverVars, sent, sock>>
      PROVE  WireInv'
  <2>1. /\ InFlight /\ ~InFlight' /\ CP!Record(r)
        /\ cpc' \in {"loop", "checks", "ended"}
        /\ cpc' = "loop" => cur' \in Token
        /\ cur' = cur \/ cpc = "awaitFirst"
    BY <1>5, TurnOver
  <2>2. /\ Len(talk') = Len(talk) + 1
        /\ \A k \in 1 .. Len(talk) : talk'[k] = talk[k]
        /\ talk'[Len(talk')].sent = out
    BY <1>5, <2>1, CP!Recorded, ClientConstants DEF Fits, InFlight
  <2>3. Served'
    BY <1>5 DEF Served, serverVars
  <2>4. Numbered'
    BY <1>5, <2>1, <2>2 DEF Numbered
  <2>5. cpc = "awaitFirst" => Len(sent) = 1
    BY <2>1 DEF CP!CarryInv, Numbered
  <2>6. OneState'
    BY <1>5, <2>1, <2>5, ServerConstants DEF OneState, InFlight
  <2> QED
    BY <1>2, <2>3, <2>4, <2>6
<1>6. CASE ClientTimesOut
  <2> DEFINE r == [kind |-> "timeout"]
  <2>1. r \in CP!Heard /\ ~CP!OffersState(r) /\ r.kind = "timeout"
    BY DEF CP!Heard, CP!Failure, CP!OffersState
  <2>2. Fits(r)
    BY <2>1 DEF Fits
  <2>3. CP!Get(r) /\ UNCHANGED <<serverVars, sent, sock>>
    BY <1>6, SameClient DEF ClientTimesOut
  <2> HIDE DEF r
  <2> QED
    BY <1>5, <2>2, <2>3
<1>7. ASSUME NEW h \in Handlers, ClientReads(h) PROVE WireInv'
  <2>1. CP!Get(AsAnswer(reply[h])) /\ UNCHANGED <<serverVars, sent, sock>>
    BY <1>7, SameClient DEF ClientReads
  <2>2. InFlight
    BY <2>1 DEF CP!Get, CP!FirstAnswer, CP!GuessAccepted, CP!GuessNotAccepted,
                CP!GuessUnanswerable, CP!EmptyAnswer, CP!CheckAnswer, InFlight
  <2> QED
    BY <1>5, <1>7, <2>1, <2>2, AnswerFitsRequest
<1>8. ASSUME NEW h \in Handlers, Deliver(h) PROVE WireInv'
  <2>1. UNCHANGED <<clientVars, sent>>
    BY <1>8 DEF Deliver
  <2>2. PICK n \in DOMAIN sent : /\ Server!Receive(h) /\ req'[h] = sent[n]
                                  /\ sock' = [sock EXCEPT ![h] = n]
    BY <1>8 DEF Deliver
  <2>3. /\ pc[h] = "idle" /\ pc' = [pc EXCEPT ![h] = "start"]
        /\ \A g \in Handlers : g # h => req'[g] = req[g]
    BY <2>2 DEF Server!Receive, Server!Goto
  <2>4. n \in 1 .. Len(sent)
    BY <2>2, LenProperties
  <2>5. pc \in [Handlers -> SP!Labels] /\ DOMAIN pc = Handlers
    BY DEF SP!OriginInv, SP!SessionInv, SP!Typed, SP!TypeOK
  <2>6. Served'
    BY <2>1, <2>2, <2>3, <2>4, <2>5 DEF Served
  <2>7. Numbered' /\ OneState'
    BY <2>1 DEF clientVars, Numbered, OneState, InFlight
  <2> QED
    BY <1>2, <2>6, <2>7
<1>9. ASSUME NEW h \in Handlers, ServerWorks(h) PROVE WireInv'
  <2>1. UNCHANGED <<clientVars, sent, sock>> /\ SP!Step(h)
    BY <1>9, SameServer DEF ServerWorks
  <2>2. pc \in [Handlers -> SP!Labels]
    BY DEF SP!OriginInv, SP!SessionInv, SP!Typed, SP!TypeOK
  <2>3. /\ req' = req /\ pc[h] # "idle"
        /\ \A g \in Handlers : pc'[g] = "idle" <=> pc[g] = "idle"
    BY <2>1, <2>2
       DEF SP!Step, SP!Decide, SP!DrawToken, SP!BeginRound2, SP!Lock, SP!Insert, SP!Lookup,
           SP!Delete, SP!Unlock, SP!WriteChallenge, SP!Judge, SP!Goto
  <2>4. Served'
    BY <2>1, <2>3 DEF Served
  <2>5. Numbered' /\ OneState'
    BY <2>1 DEF clientVars, Numbered, OneState, InFlight
  <2> QED
    BY <1>2, <2>4, <2>5
<1>10. CASE UNCHANGED vars
  BY <1>2, <1>10 DEF vars, clientVars, serverVars, Served, Numbered, OneState, InFlight
<1> QED
  BY <1>3, <1>4, <1>6, <1>7, <1>8, <1>9, <1>10 DEF Next, Over
-------------------------------------------------------------------------------
(* What is reported as found was accepted; no probe was. *)
FoundWasAccepted ==
    /\ found # -1 => \E h \in Handlers : SP!Accepted(h) /\ req[h].cred = found
    /\ ~probed
    /\ cpc = "ended" => (failed = "otp accepted" <=> found # -1)

(* Unless one got lost, every answer to a guess so far was the rejection   *)
(* that became the baseline.                                               *)
SamePattern ==
    \/ \E k \in Guesses : talk[k].got.kind = "timeout"
    \/ patternAt = -1 /\ baseline \in {<<>>, <<Rejection>>}

(* The first guess is the second turn.  If it was answered, and no         *)
(* datagram was delivered twice, it took the session.                      *)
OnceEach == \A g, h \in Handlers : sock[g] = sock[h] /\ sock[g] # 0 => g = h
FirstTook ==
    /\ 1 \notin Guesses
    /\ Guesses # {} => 2 \in Guesses
    /\ \A k \in Guesses : talk[k].sent.otp \in Nat
    /\ 2 \in Guesses /\ talk[2].got.kind = "message" /\ OnceEach =>
          \E h \in Handlers : /\ SP!Taken(h) /\ reply[h] # NoReply /\ sock[h] = 2
                              /\ talk[2].sent.otp = Otp => found # -1

VerdictInv == WireInv /\ FoundWasAccepted /\ SamePattern /\ FirstTook

LEMMA VerdictInit == Init => VerdictInv
<1> SUFFICES ASSUME Init PROVE VerdictInv
  OBVIOUS
<1>1. WireInv
  BY WireInit
<1>2. /\ talk = <<>> /\ found = -1 /\ patternAt = -1 /\ baseline = <<>>
      /\ probed = FALSE /\ cpc = "first"
  BY DEF Init, Client!CInit
<1>3. Guesses = {}
  BY <1>2 DEF Guesses, Client!Guesses
<1> QED
  BY <1>1, <1>2, <1>3 DEF VerdictInv, FoundWasAccepted, SamePattern, FirstTook

(* A handler that has replied is done. *)
LEMMA RepliedStays ==
    ASSUME WireInv, [Next]_vars, NEW h \in Handlers, reply[h] # NoReply
    PROVE  /\ reply'[h] = reply[h] /\ req'[h] = req[h] /\ sock'[h] = sock[h]
           /\ SP!Taken(h)' <=> SP!Taken(h)
           /\ SP!Accepted(h)' <=> SP!Accepted(h)
<1>1. pc[h] = "done"
  BY DEF WireInv, SP!OriginInv, SP!SessionInv, SP!Lookups
<1>2. /\ pc'[h] = pc[h] /\ reply'[h] = reply[h] /\ req'[h] = req[h]
      /\ sess'[h] = sess[h] /\ sock'[h] = sock[h]
  <2>1. CASE UNCHANGED <<serverVars, sock>>
    BY <2>1 DEF serverVars
  <2>2. ASSUME NEW g \in Handlers, Deliver(g)
        PROVE  /\ pc'[h] = pc[h] /\ reply'[h] = reply[h] /\ req'[h] = req[h]
               /\ sess'[h] = sess[h] /\ sock'[h] = sock[h]
    <3>1. g # h
      BY <1>1, <2>2 DEF Deliver, Server!Receive, Server!Goto
    <3> QED
      BY <2>2, <3>1 DEF Deliver, Server!Receive, Server!Goto
  <2>3. ASSUME NEW g \in Handlers, ServerWorks(g)
        PROVE  /\ pc'[h] = pc[h] /\ reply'[h] = reply[h] /\ req'[h] = req[h]
               /\ sess'[h] = sess[h] /\ sock'[h] = sock[h]
    <3>1. SP!Step(g) /\ sock' = sock
      BY <2>3, SameServer DEF ServerWorks
    <3>2. /\ DOMAIN pc = Handlers /\ DOMAIN reply = Handlers /\ DOMAIN sess = Handlers
          /\ g # h
      BY <1>1, <3>1
         DEF WireInv, SP!OriginInv, SP!SessionInv, SP!Typed, SP!TypeOK,
             SP!Step, SP!Decide, SP!DrawToken, SP!BeginRound2, SP!Lock, SP!Insert, SP!Lookup,
             SP!Delete, SP!Unlock, SP!WriteChallenge, SP!Judge, SP!Goto
    <3> QED
      BY <3>1, <3>2
         DEF SP!Step, SP!Decide, SP!DrawToken, SP!BeginRound2, SP!Lock, SP!Insert, SP!Lookup,
             SP!Delete, SP!Unlock, SP!WriteChallenge, SP!Judge, SP!Goto, SP!Answer
  <2> QED
    BY <2>1, <2>2, <2>3
       DEF Next, ClientSends, ClientWorks, ClientTimesOut, ClientReads, Over, vars
<1> QED
  BY <1>2 DEF SP!Taken, SP!Accepted

(* Two handlers never serve one datagram later without doing so now. *)
LEMMA OnceEachBefore == ASSUME WireInv, [Next]_vars, OnceEach' PROVE OnceEach
<1>1. \A h \in Handlers : sock[h] # 0 => sock'[h] = sock[h]
  <2>1. CASE UNCHANGED sock
    BY <2>1
  <2>2. ASSUME NEW g \in Handlers, Deliver(g)
        PROVE  \A h \in Handlers : sock[h] # 0 => sock'[h] = sock[h]
    <3>1. sock[g] = 0
      BY <2>2 DEF Deliver, Server!Receive, Server!Goto, WireInv, Served
    <3> QED
      BY <2>2, <3>1 DEF Deliver, WireInv, Served
  <2> QED
    BY <2>1, <2>2
       DEF Next, ClientSends, ClientWorks, ClientTimesOut, ClientReads, ServerWorks, Over, vars
<1> QED
  BY <1>1 DEF OnceEach

(* The handler that answered a guess was the one to take the session, if   *)
(* it is the first guess and no datagram was delivered twice.              *)
LEMMA FirstGuessTakes ==
    ASSUME WireInv, OnceEach, NEW h \in Handlers, ClientReads(h), cpc = "awaitGuess",
           Len(talk) = 1
    PROVE  SP!Taken(h) /\ sock[h] = 2
<1>1. /\ InFlight /\ Len(sent) = 2
      /\ out.state = cur /\ cur \in Token
  BY DEF WireInv, InFlight, Numbered, OneState
<1>2. sock[h] = 2 /\ reply[h] # NoReply /\ req[h].state = cur /\ req[h].ma = "valid"
  BY <1>1, AnswerFitsRequest DEF ClientReads
<1>3. PICK k \in Handlers : SP!Taken(k) /\ req[k].state = cur
  BY <1>1, <1>2, Replies DEF WireInv
<1>4. pc[k] # "idle"
  BY <1>3 DEF SP!Taken
<1>5. /\ sock[k] \in Nat /\ sock[k] <= 2 /\ sock[k] # 0 /\ req[k] = sent[sock[k]]
  BY <1>1, <1>4 DEF WireInv, Served
<1>6. sent[1].state = NoState
  BY DEF WireInv, OneState
<1>7. sock[k] = 2
  BY <1>1, <1>3, <1>5, <1>6, ServerConstants
<1> QED
  BY <1>2, <1>3, <1>7 DEF OnceEach

(* What a recorded turn does to the talk and to the guesses in it. *)
LEMMA TalkGrows ==
    ASSUME WireInv, NEW r, Fits(r), CP!Record(r), InFlight
    PROVE  /\ Len(talk) \in Nat /\ Len(talk') = Len(talk) + 1
           /\ \A k \in 1 .. Len(talk) : talk'[k] = talk[k]
           /\ talk'[Len(talk')].sent = out /\ talk'[Len(talk')].got = r
           /\ Guesses \subseteq 1 .. Len(talk)
           /\ Guesses' = Guesses \cup (IF cpc = "awaitGuess" THEN {Len(talk')} ELSE {})
           /\ cpc = "awaitFirst" => Guesses = {} /\ found = -1
           /\ cpc = "awaitGuess" => /\ Guesses = 2 .. Len(talk) /\ Len(talk) >= 1
                                    /\ out.otp \in Nat /\ found = -1
<1>1. Guesses = CP!Guesses /\ Guesses' = CP!Guesses'
  BY DEF Guesses, Client!Guesses, CP!Guesses
<1>2. /\ Len(talk) \in Nat /\ Len(talk') = Len(talk) + 1
      /\ \A k \in 1 .. Len(talk) : talk'[k] = talk[k]
      /\ talk'[Len(talk')].sent = out /\ talk'[Len(talk')].got = r
      /\ CP!Guesses' = CP!Guesses \cup (IF cpc = "awaitGuess" THEN {Len(talk')} ELSE {})
      /\ DOMAIN talk = 1 .. Len(talk)
  BY CP!Recorded, ClientConstants DEF WireInv, Fits, InFlight
<1>3. Guesses \subseteq 1 .. Len(talk)
  BY <1>1, <1>2 DEF CP!Guesses
<1>4. cpc = "awaitFirst" => Guesses = {} /\ found = -1
  BY <1>1 DEF WireInv, CP!TriedInv, CP!Guessing, CP!Guesses
<1>5. cpc = "awaitGuess" => /\ CP!Guesses = 2 .. i + 1 /\ Len(talk) = i + 1 /\ i \in Nat
                            /\ out.otp \in Nat /\ found = -1
  BY DEF WireInv, CP!CTypeOK, CP!TriedInv, CP!Guessing, CP!Made
<1> QED
  BY <1>1, <1>2, <1>3, <1>4, <1>5

(* Every step keeps VerdictInv. *)
LEMMA VerdictStep == VerdictInv /\ [Next]_vars => VerdictInv'
<1> SUFFICES ASSUME VerdictInv, [Next]_vars PROVE VerdictInv'
  OBVIOUS
<1>0. WireInv /\ WireInv'
  BY WireStep DEF VerdictInv
<1> USE <1>0
<1>a. FoundWasAccepted /\ SamePattern /\ FirstTook
  BY DEF VerdictInv
<1>f. /\ OnceEach' => OnceEach
      /\ \A h \in Handlers : reply[h] # NoReply =>
            /\ reply'[h] # NoReply /\ sock'[h] = sock[h] /\ req'[h] = req[h]
            /\ SP!Taken(h) => SP!Taken(h)'
            /\ SP!Accepted(h) => SP!Accepted(h)'
  BY RepliedStays, OnceEachBefore
<1>1. ASSUME UNCHANGED <<talk, found, probed, patternAt, baseline>>,
             cpc' = "ended" => (failed' = "otp accepted" <=> found # -1)
      PROVE  VerdictInv'
  <2>1. Guesses' = Guesses
    BY <1>1 DEF Guesses, Client!Guesses
  <2>2. FoundWasAccepted'
    BY <1>1, <1>a, <1>f DEF FoundWasAccepted, SP!Accepted
  <2>3. SamePattern'
    BY <1>1, <1>a, <2>1 DEF SamePattern
  <2>4. FirstTook'
    BY <1>1, <1>a, <1>f, <2>1 DEF FirstTook
  <2> QED
    BY <2>2, <2>3, <2>4 DEF VerdictInv
<1>2. CASE ClientSends
  BY <1>1, <1>2, SameClient
     DEF ClientSends, CP!Send, CP!SendFirst, CP!SendGuess, CP!SendCheck, CP!Await
<1>3. CASE ClientWorks
  BY <1>1, <1>3, SameClient DEF ClientWorks, CP!Local, CP!LoopDone, CP!Summarise,
     WireInv, CP!TriedInv, CP!Done
<1>4. ASSUME UNCHANGED clientVars PROVE VerdictInv'
  BY <1>1, <1>4, <1>a DEF clientVars, FoundWasAccepted
<1>5. ASSUME NEW r, Fits(r), CP!Get(r), UNCHANGED <<serverVars, sent, sock>>,
             r.kind = "message" => \E h \in Handlers : ClientReads(h) /\ r = AsAnswer(reply[h])
      PROVE  VerdictInv'
  <2>1. InFlight /\ CP!Record(r) /\ r.kind \in {"timeout", "message"}
    BY <1>5, TurnOver DEF Fits
  <2>2. /\ Len(talk) \in Nat /\ Len(talk') = Len(talk) + 1
        /\ \A k \in 1 .. Len(talk) : talk'[k] = talk[k]
        /\ talk'[Len(talk')].sent = out /\ talk'[Len(talk')].got = r
        /\ Guesses \subseteq 1 .. Len(talk)
        /\ Guesses' = Guesses \cup (IF cpc = "awaitGuess" THEN {Len(talk')} ELSE {})
        /\ cpc = "awaitFirst" => Guesses = {} /\ found = -1
        /\ cpc = "awaitGuess" => /\ Guesses = 2 .. Len(talk) /\ Len(talk) >= 1
                                 /\ out.otp \in Nat /\ found = -1
    BY <1>5, <2>1, TalkGrows
  <2>3. /\ \A k \in Guesses : talk'[k] = talk[k]
        /\ Guesses \subseteq Guesses'
        /\ cpc # "awaitGuess" => Guesses' = Guesses
    BY <2>2
  <2>4. CASE CP!FirstAnswer(r)
    <3>1. /\ cpc = "awaitFirst" /\ UNCHANGED <<baseline, patternAt, found, probed>>
          /\ cpc' = "ended" => failed' = "first request"
      BY <2>4 DEF CP!FirstAnswer, CP!Fail
    <3>2. Guesses' = {} /\ found' = -1
      BY <2>2, <3>1
    <3> QED
      BY <1>a, <3>1, <3>2, <2>2 DEF VerdictInv, FoundWasAccepted, SamePattern, FirstTook
  <2>5. CASE CP!CheckAnswer(r)
    <3>1. /\ cpc = "awaitCheck" /\ cpc' = "checks"
          /\ UNCHANGED <<baseline, patternAt, found>>
          /\ probed' = (probed \/ (r.kind = "message" /\ r.code = 2))
      BY <2>5 DEF CP!CheckAnswer
    <3>2. ~(r.kind = "message" /\ r.code = 2)
      <4>1. SUFFICES ASSUME r.kind = "message", r.code = 2 PROVE FALSE
        OBVIOUS
      <4>2. PICK h \in Handlers : ClientReads(h) /\ r = AsAnswer(reply[h])
        BY <1>5, <4>1
      <4>3. SP!Accepted(h) /\ req[h].state \in Token
        BY <4>1, <4>2, Replies DEF ClientReads, WireInv
      <4>4. req[h].state = out.state /\ out.state \notin Token
        BY <2>1, <3>1, <4>2, AnswerFitsRequest DEF WireInv, OneState
      <4> QED
        BY <4>3, <4>4
    <3>3. Guesses' = Guesses
      BY <2>3, <3>1
    <3>4. FoundWasAccepted'
      BY <1>a, <1>f, <3>1, <3>2 DEF FoundWasAccepted, SP!Accepted
    <3>5. SamePattern'
      BY <1>a, <2>3, <3>1, <3>3 DEF SamePattern
    <3>6. FirstTook'
      BY <1>a, <1>f, <2>3, <3>1, <3>3 DEF FirstTook
    <3> QED
      BY <3>4, <3>5, <3>6 DEF VerdictInv
  <2>6. CASE CP!GuessAccepted(r) \/ CP!GuessNotAccepted(r)
    <3>1. cpc = "awaitGuess" /\ cpc' # "ended" /\ UNCHANGED probed
      BY <2>6 DEF CP!GuessAccepted, CP!GuessNotAccepted
    <3>2. Guesses' = 2 .. Len(talk') /\ Len(talk') >= 2 /\ Len(talk') \in Guesses'
      BY <2>2, <3>1
    <3>3. ASSUME r.kind = "message"
          PROVE  \E h \in Handlers :
                    /\ ClientReads(h) /\ r = AsAnswer(reply[h]) /\ reply[h] # NoReply
                    /\ req[h].state \in Token /\ req[h].cred = out.otp
                    /\ r.code = 2 <=> SP!Accepted(h)
                    /\ r.code # 2 => CP!Fingerprint(r) = Rejection
                    /\ SP!Taken(h) /\ req[h].cred = Otp => SP!Accepted(h)
      <4>1. PICK h \in Handlers : ClientReads(h) /\ r = AsAnswer(reply[h])
        BY <1>5, <3>3
      <4>2. out.otp \in Nat /\ out.state \in Token
        BY <2>2, <3>1 DEF WireInv, OneState
      <4>3. req[h].state \in Token /\ req[h].cred = out.otp /\ reply[h] # NoReply
        BY <2>1, <4>1, <4>2, AnswerFitsRequest DEF ClientReads
      <4> QED
        BY <4>1, <4>3, Replies DEF WireInv
    <3>4. \/ CP!GuessAccepted(r) /\ found' = out.otp /\ r.kind = "message" /\ r.code = 2
             /\ UNCHANGED <<patternAt, baseline>>
          \/ CP!GuessNotAccepted(r) /\ found' = found /\ CP!NotePattern(r)
             /\ (r.kind = "message" => r.code # 2)
      BY <2>6 DEF CP!GuessAccepted, CP!GuessNotAccepted
    <3>5. FoundWasAccepted'
      BY <1>a, <1>f, <2>2, <3>1, <3>3, <3>4 DEF FoundWasAccepted
    <3>6. SamePattern'
      <4>1. CASE r.kind = "timeout"
        BY <2>2, <3>2, <4>1 DEF SamePattern
      <4>2. CASE \E k \in Guesses : talk[k].got.kind = "timeout"
        BY <2>3, <4>2 DEF SamePattern
      <4>3. CASE r.kind = "message" /\ patternAt = -1 /\ baseline \in {<<>>, <<Rejection>>}
        BY <3>3, <3>4, <4>3 DEF SamePattern, CP!NotePattern
      <4> QED
        BY <1>a, <2>1, <4>1, <4>2, <4>3 DEF SamePattern
    <3>7. FirstTook'
      <4>1. \A k \in Guesses' : talk'[k].sent.otp \in Nat
        BY <1>a, <2>2, <2>3, <3>1 DEF FirstTook
      <4>2. ASSUME talk'[2].got.kind = "message", OnceEach'
            PROVE  \E h \in Handlers :
                      /\ SP!Taken(h)' /\ reply'[h] # NoReply /\ sock'[h] = 2
                      /\ talk'[2].sent.otp = Otp => found' # -1
        <5>1. CASE Len(talk) = 1
          <6>1. talk'[2].sent = out /\ talk'[2].got = r /\ r.kind = "message" /\ OnceEach
            BY <1>f, <2>2, <4>2, <5>1
          <6>2. PICK h \in Handlers :
                    /\ ClientReads(h) /\ reply[h] # NoReply
                    /\ req[h].cred = out.otp
                    /\ r.code = 2 <=> SP!Accepted(h)
                    /\ SP!Taken(h) /\ req[h].cred = Otp => SP!Accepted(h)
            BY <3>3, <6>1
          <6>3. SP!Taken(h) /\ sock[h] = 2
            BY <3>1, <5>1, <6>1, <6>2, FirstGuessTakes
          <6>4. out.otp = Otp => found' # -1
            BY <2>2, <3>1, <3>4, <6>1, <6>2, <6>3
          <6> QED
            BY <1>f, <6>1, <6>2, <6>3, <6>4
        <5>2. CASE Len(talk) # 1
          <6>1. 2 \in Guesses /\ talk'[2] = talk[2]
            <7>1. Len(talk) \in Nat /\ Len(talk) >= 1 /\ Guesses = 2 .. Len(talk)
              BY <2>2, <3>1
            <7>2. 2 \in Guesses
              BY <5>2, <7>1
            <7> QED
              BY <2>3, <7>2
          <6>2. found # -1 => found' # -1
            BY <2>2, <3>1
          <6> QED
            BY <1>a, <1>f, <4>2, <6>1, <6>2 DEF FirstTook
        <5> QED
          BY <5>1, <5>2
      <4> QED
        BY <3>2, <4>1, <4>2 DEF FirstTook
    <3> QED
      BY <3>5, <3>6, <3>7 DEF VerdictInv
  <2> QED
    BY <1>5, <2>1, <2>4, <2>5, <2>6 DEF CP!Get, CP!GuessUnanswerable, CP!EmptyAnswer
<1>6. CASE ClientTimesOut
  <2> DEFINE r == [kind |-> "timeout"]
  <2>1. r \in CP!Heard /\ ~CP!OffersState(r) /\ r.kind = "timeout"
    BY DEF CP!Heard, CP!Failure, CP!OffersState
  <2>2. Fits(r)
    BY <2>1 DEF Fits
  <2>3. CP!Get(r) /\ UNCHANGED <<serverVars, sent, sock>>
    BY <1>6, SameClient DEF ClientTimesOut
  <2> HIDE DEF r
  <2> QED
    BY <1>5, <2>1, <2>2, <2>3
<1>7. ASSUME NEW h \in Handlers, ClientReads(h) PROVE VerdictInv'
  <2>1. CP!Get(AsAnswer(reply[h])) /\ UNCHANGED <<serverVars, sent, sock>>
    BY <1>7, SameClient DEF ClientReads
  <2>2. InFlight
    BY <2>1 DEF CP!Get, CP!FirstAnswer, CP!GuessAccepted, CP!GuessNotAccepted,
                CP!GuessUnanswerable, CP!EmptyAnswer, CP!CheckAnswer, InFlight
  <2> QED
    BY <1>5, <1>7, <2>1, <2>2, AnswerFitsRequest
<1>8. ASSUME NEW h \in Handlers, Deliver(h) \/ ServerWorks(h) PROVE UNCHANGED clientVars
  BY <1>8 DEF Deliver, ServerWorks
<1> QED
  BY <1>2, <1>3, <1>4, <1>6, <1>7, <1>8 DEF Next, Over, vars
-------------------------------------------------------------------------------
LEMMA VerdictAlways == Spec => []VerdictInv
  BY VerdictInit, VerdictStep, PTL DEF Spec

(* Whatever is lost, delayed, duplicated or reordered: a password the      *)
(* scenario reports is the one-time password, the server accepted it, and  *)
(* it judged no other guess.                                               *)
THEOREM FoundIsTheOneJudgedCorrect == Spec => []FoundIsTheOneJudged
<1>1. VerdictInv => FoundIsTheOneJudged
  <2> SUFFICES ASSUME VerdictInv, found # -1
               PROVE  /\ found = Otp
                      /\ \E h \in Judged : /\ Server!Accepted(h) /\ req[h].cred = found
                                          /\ \A g \in Judged : g = h
    BY DEF FoundIsTheOneJudged
  <2>0. WireInv
    BY DEF VerdictInv
  <2>1. PICK h \in Handlers : SP!Accepted(h) /\ req[h].cred = found
    BY DEF VerdictInv, FoundWasAccepted
  <2>2. /\ reply[h] # NoReply /\ SP!Taken(h) /\ req[h].state \in Token /\ found = Otp
    BY <2>0, <2>1, Replies DEF WireInv, SP!Accepted
  <2>3. \A g \in Handlers : SP!Taken(g) <=> Server!Taken(g)
    BY DEF SP!Taken, Server!Taken
  <2>4. h \in Judged /\ Server!Accepted(h)
    BY <2>1, <2>2, <2>3 DEF Judged, SP!Accepted, Server!Accepted
  <2>5. \A g \in Judged : SP!Taken(g) /\ req[g].state = cur
    <3>1. \A g \in Judged : g \in Handlers /\ SP!Taken(g) /\ req[g].state \in Token
      BY <2>3 DEF Judged
    <3>2. \A g \in Judged : pc[g] # "idle"
      BY <3>1 DEF SP!Taken
    <3>3. \A g \in Judged : sock[g] \in 1 .. Len(sent) /\ req[g] = sent[sock[g]]
      BY <2>0, <3>1, <3>2 DEF WireInv, Served
    <3> QED
      BY <2>0, <3>1, <3>3 DEF WireInv, OneState
  <2>6. \A g \in Judged : g = h
    BY <2>0, <2>4, <2>5 DEF WireInv, SP!OriginInv, SP!SessionInv, SP!SingleUse, Judged
  <2> QED
    BY <2>1, <2>2, <2>4, <2>6
<1> QED
  BY VerdictAlways, <1>1, PTL

(* The probes of state_checks are never accepted by the mock server.       *)
THEOREM ProbesNeverAcceptedCorrect == Spec => []ProbesNeverAccepted
<1>1. VerdictInv => ProbesNeverAccepted
  BY DEF VerdictInv, FoundWasAccepted, ProbesNeverAccepted
<1> QED
  BY VerdictAlways, <1>1, PTL

(* The client notes a change of pattern only when an answer to a guess got *)
(* lost.                                                                   *)
THEOREM NoticeMeansLossCorrect == Spec => []NoticeMeansLoss
<1>1. VerdictInv => NoticeMeansLoss
  BY DEF VerdictInv, SamePattern, NoticeMeansLoss
<1> QED
  BY VerdictAlways, <1>1, PTL

(* On a network that neither loses nor duplicates a guess, the scenario    *)
(* ends as its first guess does, however many it goes on to make.          *)
THEOREM FirstGuessDecidesCorrect == Spec => []FirstGuessDecides
<1>1. VerdictInv => FirstGuessDecides
  <2> SUFFICES ASSUME VerdictInv, cpc = "ended", Lossless,
                      NEW first \in Guesses, \A k \in Guesses : first <= k
               PROVE  (failed = "otp accepted") = (talk[first].sent.otp = Otp)
    BY DEF FirstGuessDecides
  <2>0. WireInv
    BY DEF VerdictInv
  <2>1. Len(talk) \in Nat /\ Guesses \subseteq 1 .. Len(talk)
    BY <2>0 DEF WireInv, CP!CTypeOK, Guesses, Client!Guesses
  <2>2. first = 2
    BY <2>1 DEF VerdictInv, FirstTook
  <2>3. OnceEach
    BY DEF Lossless, OnceEach
  <2>4. /\ talk[2].got.kind = "message" /\ talk[2].sent.otp \in Nat
    BY <2>2 DEF Lossless, VerdictInv, FirstTook
  <2>5. PICK h \in Handlers : /\ SP!Taken(h) /\ reply[h] # NoReply /\ sock[h] = 2
                              /\ talk[2].sent.otp = Otp => found # -1
    BY <2>2, <2>3, <2>4 DEF VerdictInv, FirstTook
  <2>6. req[h].cred = talk[2].sent.otp
    <3>1. req[h] = sent[2]
      BY <2>0, <2>5 DEF WireInv, Served
    <3>2. sent[2] = AsDatagram(talk[2].sent)
      BY <2>0, <2>1, <2>2 DEF WireInv, Numbered
    <3> QED
      BY <2>4, <3>1, <3>2 DEF AsDatagram
  <2>7. found # -1 => talk[2].sent.otp = Otp
    <3>1. SUFFICES ASSUME found # -1 PROVE talk[2].sent.otp = Otp
      OBVIOUS
    <3>2. PICK k \in Handlers : SP!Accepted(k) /\ req[k].cred = found
      BY <3>1 DEF VerdictInv, FoundWasAccepted
    <3>3. SP!Taken(k) /\ req[k].cred = Otp /\ req[k].state \in Token
      BY <2>0, <3>2, Replies DEF WireInv, SP!Accepted
    <3>4. \A g \in Handlers : SP!Taken(g) => req[g].state = cur
      <4>1. \A g \in Handlers : SP!Taken(g) => pc[g] # "idle" /\ req[g].state \in Token
        BY <2>0 DEF WireInv, SP!OriginInv, SP!OnPath, SP!Taken
      <4>2. \A g \in Handlers :
               SP!Taken(g) => sock[g] \in 1 .. Len(sent) /\ req[g] = sent[sock[g]]
        BY <2>0, <4>1 DEF WireInv, Served
      <4> QED
        BY <2>0, <4>1, <4>2 DEF WireInv, OneState
    <3>5. k = h
      BY <2>0, <2>5, <3>3, <3>4 DEF WireInv, SP!OriginInv, SP!SessionInv, SP!SingleUse
    <3> QED
      BY <2>6, <3>3, <3>5
  <2>8. failed = "otp accepted" <=> found # -1
    BY DEF VerdictInv, FoundWasAccepted
  <2> QED
    BY <2>2, <2>5, <2>7, <2>8
<1> QED
  BY VerdictAlways, <1>1, PTL
===============================================================================
