----------------------------- MODULE ClientV1Proofs -----------------------------
(***************************************************************************)
(* Theorems about the v1 RADIUS client.                                    *)
(*                                                                         *)
(* EapExchange, for any number of datagrams delivered, any timeout, any    *)
(* password and any strays: the server keeps what MockServerProofs proves  *)
(* of it.  LoginInv says what the client has sent, which of it each        *)
(* handler serves, and from which reply the client took its challenge and  *)
(* its verdict.                                                            *)
(*                                                                         *)
(* ByteFuzzer, for any command line and any number of iterations: what is  *)
(* sent is one mutation of what was asked for, and what dumpPacket shows   *)
(* of it is true to it as far as its lengths are; and the run ends.        *)
(***************************************************************************)
EXTENDS EapExchange, ByteFuzzer, SequenceTheorems, FiniteSetTheorems, WellFoundedInduction, TLAPS

SP == INSTANCE MockServerProofs WITH
    mode <- "eap-md5", Requests <- [m \in {"eap-md5"} |-> Requests]

(* What MockServer assumes of its constants. *)
LEMMA ServerConstants ==
    /\ IdMod \in Nat \ {0}
    /\ DOMAIN [m \in {"eap-md5"} |-> Requests] \subseteq SP!Modes
    /\ \A k \in DOMAIN [m \in {"eap-md5"} |-> Requests] :
          [m \in {"eap-md5"} |-> Requests][k] \subseteq SP!Request
    /\ NoState \notin Token /\ Foreign \notin Token /\ NoToken \notin Token
    /\ NoHandler \notin Handlers
    /\ NoRequest \notin SP!Request /\ NoSession \notin SP!Session /\ NoReply \notin SP!Reply
  BY ServerAssumption, ClientAssumption
     DEF SP!Modes, SP!Request, SP!Session, SP!Reply, SP!Id, SP!Digest,
         Server!Request, Server!Session, Server!Reply, Server!Id, Server!Digest

(* The server's steps here are the steps MockServerProofs speaks of. *)
LEMMA SameServer ==
    ASSUME NEW h \in Handlers
    PROVE  /\ Server!Receive(h) => SP!Receive(h)
           /\ Server!Step(h) => SP!Step(h)
<1> USE DEF Server!Goto, SP!Goto, Server!Answer, SP!Answer, Server!Delivered, SP!Delivered,
            Server!PassesMA, SP!PassesMA, Server!KnownPassword, SP!KnownPassword,
            Server!OpensChallenge, SP!OpensChallenge, Server!PasswordOf, SP!PasswordOf,
            Server!AnswersChallenge, SP!AnswersChallenge, Server!ChapMatches, SP!ChapMatches,
            Server!AcceptsAtOnce, SP!AcceptsAtOnce, Server!AnswerFits, SP!AnswerFits,
            Server!NextId, SP!NextId, Server!Digest, SP!Digest, Server!Id, SP!Id
<1>1. Server!Receive(h) => SP!Receive(h)
  BY DEF Server!Receive, SP!Receive
<1>2. Server!Decide(h) => SP!Decide(h)
  BY DEF Server!Decide, SP!Decide
<1>3. Server!DrawToken(h) => SP!DrawToken(h)
  BY DEF Server!DrawToken, SP!DrawToken
<1>4. Server!BeginRound2(h) => SP!BeginRound2(h)
  BY DEF Server!BeginRound2, SP!BeginRound2
<1>5. Server!Lock(h) => SP!Lock(h)
  BY DEF Server!Lock, SP!Lock
<1>6. Server!Insert(h) => SP!Insert(h)
  BY DEF Server!Insert, SP!Insert
<1>7. Server!Lookup(h) => SP!Lookup(h)
  BY DEF Server!Lookup, SP!Lookup
<1>8. Server!Delete(h) => SP!Delete(h)
  BY DEF Server!Delete, SP!Delete
<1>9. Server!Unlock(h) => SP!Unlock(h)
  BY DEF Server!Unlock, SP!Unlock
<1>10. Server!WriteChallenge(h) => SP!WriteChallenge(h)
  BY DEF Server!WriteChallenge, SP!WriteChallenge
<1>11. Server!Judge(h) => SP!Judge(h)
  BY DEF Server!Judge, SP!Judge
<1> QED
  BY <1>1, <1>2, <1>3, <1>4, <1>5, <1>6, <1>7, <1>8, <1>9, <1>10, <1>11
     DEF Server!Step, SP!Step
-------------------------------------------------------------------------------
(* The client sends the identity and then at most one response, and every  *)
(* handler serves the one it was started for.                              *)
SentSoFar ==
    /\ cpc \in {"identity", "await1", "respond", "await2", "ended"}
    /\ cpc = "identity" => sent = <<>>
    /\ cpc \in {"await1", "respond"} => sent = <<Identity>>
    /\ cpc = "await2" => sent = <<Identity, Response(first)>>
    /\ cpc = "ended" => sent \in {<<>>, <<Identity>>, <<Identity, Response(first)>>}

Served ==
    /\ sock \in [Handlers -> 0 .. 2]
    /\ \A h \in Handlers :
          /\ pc[h] = "idle" <=> sock[h] = 0
          /\ sock[h] <= Len(sent)
          /\ sock[h] = 1 => req[h] = Identity
          /\ sock[h] = 2 => req[h] = Response(first)

(* The challenge the client answers is one the server opened for it. *)
Challenged ==
    ~odd /\ cpc \in {"respond", "await2"} =>
        \E h \in Handlers : /\ reply[h] # NoReply /\ reply[h].code = "challenge"
                            /\ sock[h] = 1 /\ first = AsAnswer(reply[h])

(* How the exchange may end. *)
Copied == \E g, h \in Handlers : g # h /\ sock[g] = 2 /\ sock[h] = 2
Judged ==
    /\ result = "accept" => \E h \in Handlers : SP!Accepted(h) /\ sock[h] = 2
    /\ cpc = "ended" /\ RightPassword /\ ~RequireMA /\ ~odd =>
          result \in {"accept", "timeout"} \/ Copied

LoginInv == SP!OriginInv /\ SentSoFar /\ Served /\ Challenged /\ Judged

LEMMA LoginInit == Init => LoginInv
<1> SUFFICES ASSUME Init PROVE LoginInv
  OBVIOUS
<1>1. SP!Init
  BY DEF Init, Server!Init, SP!Init
<1>2. SP!OriginInv
  BY <1>1, ServerConstants, SP!OriginInit
<1>3. /\ sent = <<>> /\ cpc = "identity" /\ result = "none"
      /\ sock = [h \in Handlers |-> 0] /\ pc = [h \in Handlers |-> "idle"]
  BY DEF Init, Server!Init
<1> QED
  BY <1>2, <1>3 DEF LoginInv, SentSoFar, Served, Challenged, Judged

LEMMA Responds ==
    ASSUME NEW a
    PROVE  /\ Response(a).state = a.state /\ Response(a).kind = "md5"
           /\ Response(a).ma = "absent" /\ Response(a).name = ClientUser
           /\ Response(a).cred = [id |-> a.id, pwd |-> pass, chal |-> a.value]
  BY DEF Response, Identity

(* What a reply of the server may be, and how the client sees it. *)
LEMMA Replies ==
    ASSUME LoginInv, NEW h \in Handlers, reply[h] # NoReply
    PROVE  /\ pc[h] = "done" /\ sock[h] \in {1, 2}
           /\ reply[h].code \in {"accept", "reject", "challenge"}
           /\ sock[h] = 1 => /\ reply[h].code # "accept"
                             /\ ~RequireMA => reply[h].code = "challenge"
           /\ sock[h] = 2 => reply[h].code # "challenge"
           /\ AsAnswer(reply[h]).size = "full" /\ AsAnswer(reply[h]).code = reply[h].code
           /\ reply[h].code = "challenge" => AsAnswer(reply[h]).eap = "md5"
<1>1. pc[h] = "done" /\ reply[h].code \in {"accept", "reject", "challenge"}
  BY DEF LoginInv, SP!OriginInv, SP!SessionInv, SP!Lookups, SP!Typed, SP!TypeOK, SP!Reply
<1>2. sock[h] \in {1, 2}
  BY <1>1 DEF LoginInv, Served
<1>3. CASE sock[h] = 1
  <2>1. /\ req[h].kind = "identity" /\ req[h].ma = "absent" /\ req[h].state = NoState
    BY <1>3 DEF LoginInv, Served, Identity
  <2>2. SP!OpensChallenge(req[h]) /\ (~RequireMA => SP!PassesMA(req[h]))
    BY <2>1 DEF SP!OpensChallenge, SP!PassesMA
  <2>3. ~RequireMA => reply[h].code = "challenge"
    BY <2>2 DEF LoginInv, SP!OriginInv, SP!Openers
  <2>4. reply[h].code # "accept"
    BY <2>1, ServerConstants DEF LoginInv, SP!OriginInv, SP!Verdicts, SP!Accepted
  <2> QED
    BY <1>1, <1>2, <1>3, <2>3, <2>4 DEF AsAnswer
<1>4. CASE sock[h] = 2
  <2>1. req[h].kind = "md5"
    BY <1>4, Responds DEF LoginInv, Served
  <2>2. ~SP!OpensChallenge(req[h])
    BY <2>1 DEF SP!OpensChallenge
  <2>3. reply[h].code # "challenge"
    BY <2>2, ServerConstants DEF LoginInv, SP!OriginInv, SP!Openers
  <2> QED
    BY <1>1, <1>2, <1>4, <2>3 DEF AsAnswer
<1> QED
  BY <1>2, <1>3, <1>4

(* A response to a challenge of this server, with the right password, is   *)
(* accepted unless a copy of it was first.                                 *)
LEMMA FitsUnlessCopied ==
    ASSUME LoginInv, ~odd, cpc = "await2", RightPassword, ~RequireMA,
           NEW h \in Handlers, reply[h] # NoReply, sock[h] = 2
    PROVE  reply[h].code = "accept" \/ Copied
<1>1. PICK g \in Handlers : /\ reply[g] # NoReply /\ reply[g].code = "challenge"
                            /\ sock[g] = 1 /\ first = AsAnswer(reply[g])
  BY DEF LoginInv, Challenged
<1>2. /\ reply[g].state \in Token /\ tok[g] = reply[g].state /\ tok[g] # NoToken
      /\ reply[g].id = SP!NextId(req[g].id)
  BY <1>1, ServerConstants DEF LoginInv, SP!OriginInv, SP!Openers
<1>3. /\ first.state = tok[g] /\ first.value = tok[g] /\ first.id = SP!NextId(req[g].id)
      /\ req[g] = Identity
  BY <1>1, <1>2 DEF AsAnswer, LoginInv, Served
<1>4. /\ req[h].state = tok[g] /\ req[h].kind = "md5" /\ req[h].ma = "absent"
      /\ req[h].cred = [id |-> first.id, pwd |-> pass, chal |-> tok[g]]
  BY <1>3, Responds DEF LoginInv, Served
<1>5. pc[h] = "done" /\ req[h] # NoRequest
  BY ServerConstants, Replies DEF LoginInv, SP!OriginInv, SP!SessionInv, SP!Typed, SP!Serving
<1>6. CASE sess[h] = NoSession
  <2>1. SP!PassesMA(req[h]) /\ SP!AnswersChallenge(req[h])
    BY <1>4 DEF SP!PassesMA, SP!AnswersChallenge
  <2>2. PICK k \in Handlers : SP!Taken(k) /\ req[k].state = tok[g]
    BY <1>2, <1>4, <1>5, <1>6, <2>1 DEF LoginInv, SP!OriginInv, SP!UnknownMeansTaken
  <2>3. k # h /\ pc[k] # "idle"
    BY <1>6, <2>2 DEF SP!Taken
  <2>4. sock[k] = 2
    BY <1>2, <2>2, <2>3, ServerConstants DEF LoginInv, Served, Identity
  <2> QED
    BY <2>3, <2>4 DEF Copied
<1>7. CASE sess[h] # NoSession
  <2>1. sess[h] = SP!Opened(req[g])
    BY <1>2, <1>4, <1>7 DEF LoginInv, SP!OriginInv, SP!StoredAsOpened
  <2>2. sess[h].user = ClientUser /\ sess[h].id = first.id
    BY <1>3, <2>1 DEF SP!Opened, Identity
  <2>3. pass = SP!PasswordOf(ClientUser)
    BY DEF RightPassword, Server!PasswordOf, SP!PasswordOf
  <2>4. SP!AnswerFits(req[h], sess[h])
    BY <1>4, <2>2, <2>3 DEF SP!AnswerFits
  <2>5. SP!Taken(h)
    BY <1>5, <1>7 DEF SP!Taken
  <2> QED
    BY <2>4, <2>5 DEF LoginInv, SP!OriginInv, SP!FittingAccepted, SP!Accepted
<1> QED
  BY <1>6, <1>7

(* A handler that has replied is done. *)
LEMMA RepliedStays ==
    ASSUME LoginInv, [Next]_vars, NEW h \in Handlers, reply[h] # NoReply
    PROVE  /\ reply'[h] = reply[h] /\ sock'[h] = sock[h]
           /\ SP!Accepted(h)' <=> SP!Accepted(h)
<1>1. pc[h] = "done"
  BY DEF LoginInv, SP!OriginInv, SP!SessionInv, SP!Lookups
<1>2. CASE UNCHANGED <<serverVars, sock>>
  BY <1>2 DEF serverVars, SP!Accepted
<1>3. ASSUME NEW g \in Handlers, Deliver(g)
      PROVE  reply'[h] = reply[h] /\ sock'[h] = sock[h]
  <2>1. g # h
    BY <1>1, <1>3 DEF Deliver, Server!Receive, Server!Goto
  <2> QED
    BY <1>3, <2>1 DEF Deliver, Server!Receive
<1>4. ASSUME NEW g \in Handlers, ServerWorks(g)
      PROVE  reply'[h] = reply[h] /\ sock'[h] = sock[h]
  <2>1. SP!Step(g) /\ sock' = sock
    BY <1>4, SameServer DEF ServerWorks, flow
  <2>2. DOMAIN reply = Handlers /\ g # h
    BY <1>1, <2>1
       DEF LoginInv, SP!OriginInv, SP!SessionInv, SP!Typed, SP!TypeOK,
           SP!Step, SP!Decide, SP!DrawToken, SP!BeginRound2, SP!Lock, SP!Insert, SP!Lookup,
           SP!Delete, SP!Unlock, SP!WriteChallenge, SP!Judge, SP!Goto
  <2> QED
    BY <2>1, <2>2
       DEF SP!Step, SP!Decide, SP!DrawToken, SP!BeginRound2, SP!Lock, SP!Insert, SP!Lookup,
           SP!Delete, SP!Unlock, SP!WriteChallenge, SP!Judge, SP!Answer
<1>5. \/ UNCHANGED <<serverVars, sock>>
      \/ \E g \in Handlers : Deliver(g) \/ ServerWorks(g)
  BY DEF Next, Client, SendIdentity, SendResponse, Send, TooLate, TimesOut, Tick, ReadsStray,
         Reads, Get, Over, vars, flow
<1> QED
  BY <1>2, <1>3, <1>4, <1>5 DEF SP!Accepted

(* How the tuple of what was sent grows. *)
LEMMA AppendToOne == ASSUME NEW x, NEW y PROVE Append(<<x>>, y) = <<x, y>>
<1> DEFINE s == Append(<<x>>, y)
           t == <<x, y>>
<1>1. <<x>> \in Seq({x, y}) /\ t \in Seq({x, y}) /\ Len(t) = 2 /\ t[1] = x /\ t[2] = y
  OBVIOUS
<1>2. s \in Seq({x, y}) /\ Len(s) = 2 /\ s[1] = x /\ s[2] = y
  BY <1>1
<1> HIDE DEF s, t
<1>3. \A m \in 1 .. Len(s) : s[m] = t[m]
  BY <1>1, <1>2
<1>4. s = t
  BY <1>1, <1>2, <1>3, SeqEqual
<1> QED
  BY <1>4 DEF s, t

(* Every step keeps LoginInv. *)
LEMMA LoginStep == LoginInv /\ [Next]_vars => LoginInv'
<1> SUFFICES ASSUME LoginInv, [Next]_vars PROVE LoginInv'
  OBVIOUS
<1>r. \A h \in Handlers : reply[h] # NoReply =>
         /\ reply'[h] = reply[h] /\ sock'[h] = sock[h]
         /\ SP!Accepted(h)' <=> SP!Accepted(h)
  BY RepliedStays
<1>s. ASSUME UNCHANGED serverVars PROVE SP!OriginInv'
  <2>1. UNCHANGED SP!vars
    BY <1>s DEF serverVars, SP!vars
  <2> QED
    BY <2>1, ServerConstants, SP!OriginStep DEF LoginInv
<1>a. \A h \in Handlers : SP!Accepted(h) => reply[h] # NoReply
  BY DEF SP!Accepted
(* A step of the client alone changes nothing the handlers have. *)
<1>c. ASSUME UNCHANGED <<serverVars, sock, pass>>,
             SentSoFar', Challenged', Judged',
             Len(sent') >= Len(sent),
             (\E h \in Handlers : sock[h] = 2) => Response(first)' = Response(first)
      PROVE  LoginInv'
  <2>1. SP!OriginInv'
    BY <1>c, <1>s
  <2>2. Identity' = Identity
    BY DEF Identity
  <2>3. Len(sent) \in Nat /\ Len(sent') \in Nat
    BY <1>c, <2>2 DEF LoginInv, SentSoFar
  <2>4. Served'
    BY <1>c, <2>2, <2>3 DEF LoginInv, Served, serverVars
  <2> QED
    BY <1>c, <2>1, <2>4 DEF LoginInv
<1>u. ASSUME first' = first, pass' = pass PROVE Response(first)' = Response(first)
  BY <1>u DEF Response, Identity
(* The first answer leads on, and nothing has been sent in return. *)
<1>f. ASSUME cpc = "await1", cpc' = "respond", Challenged', Judged',
             UNCHANGED <<serverVars, sent, sock, pass>>
      PROVE  LoginInv'
  <2>1. Identity' = Identity /\ sent = <<Identity>> /\ Len(sent) = 1
    BY <1>f DEF LoginInv, SentSoFar, Identity
  <2>2. \A h \in Handlers : sock[h] # 2
    BY <2>1 DEF LoginInv, Served
  <2>3. SentSoFar' /\ Len(sent') >= Len(sent)
    BY <1>f, <2>1 DEF SentSoFar
  <2> QED
    BY <1>c, <1>f, <2>2, <2>3
(* Steps of the others, and of the clock. *)
<1>k. ASSUME UNCHANGED <<cpc, first, result, sent, odd, pass>>,
             \A h \in Handlers : sock[h] # 0 => sock'[h] = sock[h]
      PROVE  SentSoFar' /\ Challenged' /\ Judged'
  <2>1. Identity' = Identity /\ Response(first)' = Response(first)
    BY <1>k, <1>u DEF Identity
  <2>2. SentSoFar'
    BY <1>k, <2>1 DEF LoginInv, SentSoFar
  <2>3. \A h \in Handlers : reply[h] # NoReply => AsAnswer(reply[h])' = AsAnswer(reply[h])
    BY <1>r DEF AsAnswer
  <2>4. Challenged'
    BY <1>k, <1>r, <2>3 DEF LoginInv, Challenged
  <2>5. (RightPassword' <=> RightPassword) /\ (Copied => Copied')
    BY <1>k DEF RightPassword, Copied, Server!PasswordOf
  <2>6. Judged'
    BY <1>k, <1>r, <1>a, <2>5 DEF LoginInv, Judged
  <2> QED
    BY <2>2, <2>4, <2>6
<1>n. ASSUME UNCHANGED <<serverVars, cpc, first, result, sent, sock, odd, pass>>
      PROVE  LoginInv'
  <2>1. SentSoFar' /\ Challenged' /\ Judged'
    BY <1>k, <1>n
  <2>2. Len(sent') >= Len(sent)
    BY <1>n DEF LoginInv, SentSoFar
  <2> QED
    BY <1>c, <1>n, <1>u, <2>1, <2>2
<1>1. CASE SendIdentity
  <2>1. /\ cpc = "identity" /\ cpc' = "await1" /\ sent' = Append(sent, Identity)
        /\ UNCHANGED <<serverVars, first, result, sock, pass, odd>>
    BY <1>1 DEF SendIdentity, Send
  <2>2. sent = <<>> /\ sent' = <<Identity>> /\ Identity' = Identity
    <3>1. sent = <<>> /\ Identity' = Identity
      BY <2>1 DEF LoginInv, SentSoFar, Identity
    <3> QED
      BY <2>1, <3>1
  <2>3. SentSoFar' /\ Challenged'
    BY <2>1, <2>2 DEF SentSoFar, Challenged
  <2>4. Judged'
    BY <2>1, <1>r, <1>a DEF LoginInv, Judged
  <2>5. Len(sent') >= Len(sent)
    BY <2>2
  <2> QED
    BY <1>c, <1>u, <2>1, <2>3, <2>4, <2>5
<1>2. CASE SendResponse
  <2>1. /\ cpc = "respond" /\ cpc' = "await2" /\ sent' = Append(sent, Response(first))
        /\ UNCHANGED <<serverVars, first, result, sock, pass, odd>>
    BY <1>2 DEF SendResponse, Send
  <2>2. /\ sent = <<Identity>> /\ sent' = <<Identity, Response(first)>>
        /\ Identity' = Identity /\ Response(first)' = Response(first)
    <3>1. sent = <<Identity>> /\ Identity' = Identity
      BY <2>1 DEF LoginInv, SentSoFar, Identity
    <3> QED
      BY <2>1, <1>u, <3>1, AppendToOne
  <2>3. SentSoFar'
    BY <2>1, <2>2 DEF SentSoFar
  <2>4. Challenged'
    <3>1. \A h \in Handlers : AsAnswer(reply[h])' = AsAnswer(reply[h])
      BY <2>1 DEF AsAnswer, serverVars
    <3> QED
      BY <2>1, <3>1 DEF LoginInv, Challenged, serverVars
  <2>5. Judged'
    BY <2>1, <1>r, <1>a DEF LoginInv, Judged
  <2>6. Len(sent') >= Len(sent)
    BY <2>2
  <2> QED
    BY <1>c, <2>1, <2>2, <2>3, <2>4, <2>5, <2>6
(* The end of a run, and that it leaves all but the verdict in place. *)
<1>e. ASSUME cpc \in {"identity", "await1", "respond", "await2"}, cpc' = "ended",
             UNCHANGED <<serverVars, first, sent, sock, pass>>, Judged'
      PROVE  LoginInv'
  <2>1. Identity' = Identity /\ Response(first)' = Response(first)
    BY <1>e, <1>u DEF Identity
  <2>2. SentSoFar' /\ Challenged' /\ Len(sent') >= Len(sent)
    BY <1>e, <2>1 DEF LoginInv, SentSoFar, Challenged
  <2> QED
    BY <1>c, <1>e, <2>1, <2>2
<1>3. CASE TooLate \/ TimesOut
  <2>1. /\ cpc \in {"identity", "await1", "respond", "await2"} /\ cpc' = "ended"
        /\ result' = "timeout" /\ UNCHANGED <<serverVars, first, sent, sock, pass>>
    BY <1>3 DEF TooLate, TimesOut, Return, Awaiting, flow
  <2>2. Judged'
    BY <2>1 DEF Judged
  <2> QED
    BY <1>e, <2>1, <2>2
<1>4. CASE Tick
  <2>1. UNCHANGED <<serverVars, cpc, first, result, sent, sock, odd, pass>>
    BY <1>4 DEF Tick, clientVars
  <2> QED
    BY <1>n, <2>1
<1>5. CASE ReadsStray
  <2>1. PICK a \in Strays : Get(a)
    BY <1>5 DEF ReadsStray
  <2>2. odd' = TRUE /\ UNCHANGED <<serverVars, sent, sock, pass>>
    BY <1>5, <2>1 DEF ReadsStray, Get
  <2>3. CASE FirstAnswer(a)
    <3>1. CASE cpc' = "ended"
      <4>1. cpc = "await1" /\ first' = first /\ result' # "accept"
        BY <2>3, <3>1 DEF FirstAnswer, Return
      <4>2. Judged'
        BY <2>2, <4>1 DEF Judged
      <4> QED
        BY <1>e, <2>2, <3>1, <4>1, <4>2
    <3>2. CASE cpc' # "ended"
      <4>1. cpc = "await1" /\ cpc' = "respond" /\ result' = result
        BY <2>3, <3>2 DEF FirstAnswer, Return
      <4>2. Challenged' /\ Judged'
        BY <2>2, <4>1, <1>r, <1>a DEF LoginInv, Challenged, Judged
      <4> QED
        BY <1>f, <2>2, <4>1, <4>2
    <3> QED
      BY <3>1, <3>2
  <2>4. CASE SecondAnswer(a)
    <3>1. cpc = "await2" /\ cpc' = "ended" /\ first' = first /\ result' # "accept"
      BY <2>4, StrayAssumption DEF SecondAnswer, Return
    <3>2. Judged'
      BY <2>2, <3>1 DEF Judged
    <3> QED
      BY <1>e, <2>2, <3>1, <3>2
  <2> QED
    BY <2>1, <2>3, <2>4 DEF Get
<1>6. ASSUME NEW h \in Handlers, Reads(h) PROVE LoginInv'
  <2> DEFINE a == AsAnswer(reply[h])
  <2>1. /\ reply[h] # NoReply /\ sock[h] = Len(sent) /\ Get(a) /\ odd' = odd
        /\ UNCHANGED <<serverVars, sent, sock, pass>>
    BY <1>6 DEF Reads, Get
  <2>2. a.size = "full" /\ a.code = reply[h].code /\ (a.code = "challenge" => a.eap = "md5")
    BY <2>1, Replies
  <2>3. CASE FirstAnswer(a)
    <3>1. cpc = "await1" /\ sock[h] = 1
      BY <2>1, <2>3 DEF FirstAnswer, LoginInv, SentSoFar
    <3>2. reply[h].code # "accept" /\ (~RequireMA => reply[h].code = "challenge")
      BY <2>1, <3>1, Replies
    <3>3. CASE reply[h].code = "challenge"
      <4>1. cpc' = "respond" /\ first' = a /\ result' = result
        BY <2>2, <2>3, <3>3 DEF FirstAnswer
      <4>2. a' = AsAnswer(reply[h])
        BY <2>1 DEF AsAnswer, serverVars
      <4>3. Challenged'
        BY <2>1, <3>1, <3>3, <4>1, <4>2 DEF Challenged, serverVars
      <4>4. Judged'
        BY <2>1, <4>1, <1>r, <1>a DEF LoginInv, Judged
      <4> QED
        BY <1>f, <2>1, <3>1, <4>1, <4>3, <4>4
    <3>4. CASE reply[h].code # "challenge"
      <4>1. cpc' = "ended" /\ result' = "error" /\ first' = first
        BY <2>2, <2>3, <3>4 DEF FirstAnswer, Return
      <4>2. Judged'
        BY <3>2, <3>4, <4>1 DEF Judged
      <4> QED
        BY <1>e, <2>1, <3>1, <4>1, <4>2
    <3> QED
      BY <3>3, <3>4
  <2>4. CASE SecondAnswer(a)
    <3>1. /\ cpc = "await2" /\ cpc' = "ended" /\ first' = first
          /\ result' = reply[h].code
      BY <2>2, <2>4 DEF SecondAnswer, Return
    <3>2. sock[h] = 2
      BY <2>1, <3>1 DEF LoginInv, SentSoFar
    <3>3. reply[h].code = "accept" => SP!Accepted(h)'
      BY <2>1 DEF SP!Accepted, serverVars
    <3>4. ~odd /\ RightPassword /\ ~RequireMA => reply[h].code = "accept" \/ Copied
      BY <2>1, <3>1, <3>2, FitsUnlessCopied
    <3>5. RightPassword' = RightPassword /\ Copied' = Copied
      BY <2>1 DEF RightPassword, Copied, Server!PasswordOf
    <3>6. Judged'
      BY <2>1, <3>1, <3>2, <3>3, <3>4, <3>5 DEF Judged
    <3> QED
      BY <1>e, <2>1, <3>1, <3>6
  <2> QED
    BY <2>1, <2>3, <2>4 DEF Get
<1>7. ASSUME NEW h \in Handlers, Deliver(h) PROVE LoginInv'
  <2>1. UNCHANGED <<cpc, first, result, sent, odd, pass>>
    BY <1>7 DEF Deliver, clientVars
  <2>2. PICK n \in DOMAIN sent : /\ Server!Receive(h) /\ req'[h] = sent[n]
                                  /\ sock' = [sock EXCEPT ![h] = n]
    BY <1>7 DEF Deliver
  <2>3. /\ pc[h] = "idle" /\ pc' = [pc EXCEPT ![h] = "start"]
        /\ \A g \in Handlers : g # h => req'[g] = req[g]
    BY <2>2 DEF Server!Receive, Server!Goto
  <2>4. SP!OriginInv'
    BY <2>2, SameServer, ServerConstants, SP!OriginStep DEF LoginInv, SP!Next
  <2>5. Identity' = Identity /\ Response(first)' = Response(first)
    BY <2>1, <1>u DEF Identity
  <2>6. /\ n \in 1 .. 2 /\ n <= Len(sent)
        /\ n = 1 => sent[n] = Identity
        /\ n = 2 => sent[n] = Response(first)
    <3>1. sent \in {<<>>, <<Identity>>, <<Identity, Response(first)>>}
      BY DEF LoginInv, SentSoFar
    <3>2. CASE sent = <<>>
      BY <2>2, <3>2
    <3>3. CASE sent = <<Identity>>
      BY <2>2, <3>3
    <3>4. CASE sent = <<Identity, Response(first)>>
      BY <2>2, <3>4
    <3> QED
      BY <3>1, <3>2, <3>3, <3>4
  <2>7. DOMAIN pc = Handlers
    BY DEF LoginInv, SP!OriginInv, SP!SessionInv, SP!Typed, SP!TypeOK
  <2>8. Served'
    BY <2>1, <2>2, <2>3, <2>5, <2>6, <2>7 DEF LoginInv, Served
  <2>9. sock[h] = 0
    BY <2>3 DEF LoginInv, Served
  <2>10. SentSoFar' /\ Challenged' /\ Judged'
    BY <1>k, <2>1, <2>2, <2>5, <2>9 DEF LoginInv, Served
  <2> QED
    BY <2>4, <2>8, <2>10 DEF LoginInv
<1>8. ASSUME NEW h \in Handlers, ServerWorks(h) PROVE LoginInv'
  <2>1. UNCHANGED <<cpc, first, result, sent, sock, odd, pass>> /\ SP!Step(h)
    BY <1>8, SameServer DEF ServerWorks, clientVars, flow
  <2>2. /\ req' = req
        /\ \A g \in Handlers : pc'[g] = "idle" <=> pc[g] = "idle"
    BY <2>1
       DEF LoginInv, SP!OriginInv, SP!SessionInv, SP!Typed, SP!TypeOK,
           SP!Step, SP!Decide, SP!DrawToken, SP!BeginRound2, SP!Lock, SP!Insert, SP!Lookup,
           SP!Delete, SP!Unlock, SP!WriteChallenge, SP!Judge, SP!Goto
  <2>3. SP!OriginInv'
    BY <2>1, ServerConstants, SP!OriginStep DEF LoginInv, SP!Next
  <2>4. Identity' = Identity /\ Response(first)' = Response(first)
    BY <2>1, <1>u DEF Identity
  <2>5. Served'
    BY <2>1, <2>2, <2>4 DEF LoginInv, Served
  <2>6. SentSoFar' /\ Challenged' /\ Judged'
    BY <1>k, <2>1, <2>4
  <2> QED
    BY <2>3, <2>5, <2>6 DEF LoginInv
<1>9. CASE UNCHANGED vars
  <2>1. UNCHANGED <<serverVars, cpc, first, result, sent, sock, odd, pass>>
    BY <1>9 DEF vars, clientVars, flow
  <2> QED
    BY <1>n, <2>1
<1> QED
  BY <1>1, <1>2, <1>3, <1>4, <1>5, <1>6, <1>7, <1>8, <1>9 DEF Next, Client, Over
-------------------------------------------------------------------------------
(* An accept is believed only from the server, which judged the response   *)
(* to the challenge of a request of this client: on the password that is   *)
(* the user's, whatever strays and copies there were.                      *)
THEOREM PassMeansJudgedCorrect == Spec => []PassMeansJudged
<1>1. LoginInv => PassMeansJudged
  <2> SUFFICES ASSUME LoginInv, ExitsZero, Expect = "accept"
               PROVE  /\ RightPassword
                      /\ \E h \in Handlers :
                          Server!Accepted(h) /\ sock[h] = 2 /\ req[h].state = first.state
    BY DEF PassMeansJudged
  <2>1. PICK h \in Handlers : SP!Accepted(h) /\ sock[h] = 2
    BY DEF ExitsZero, LoginInv, Judged
  <2>2. req[h].state = first.state /\ req[h].cred.pwd = pass
    <3>1. req[h] = Response(first)
      BY <2>1 DEF LoginInv, Served
    <3>2. req[h].cred = [id |-> first.id, pwd |-> pass, chal |-> first.value]
      BY <3>1, Responds
    <3> QED
      BY <3>1, <3>2, Responds
  <2>3. SP!AcceptEarned
    BY ServerConstants, SP!OriginEarns DEF LoginInv
  <2>4. PICK g \in Handlers : /\ reply[g] # NoReply
                              /\ req[h].cred.pwd = SP!PasswordOf(req[g].name)
    <3>1. PICK g \in Handlers :
             /\ reply[g] # NoReply
             /\ req[h].cred = [id   |-> (req[g].id + 1) % IdMod,
                               pwd  |-> SP!PasswordOf(req[g].name),
                               chal |-> tok[g]]
      BY <2>1, <2>3 DEF SP!AcceptEarned
    <3>2. req[h].cred.pwd = SP!PasswordOf(req[g].name)
      BY <3>1
    <3> QED
      BY <3>1, <3>2
  <2>5. req[g].name = ClientUser
    <3>1. sock[g] \in {1, 2}
      BY <2>4, Replies
    <3>2. req[g] \in {Identity, Response(first)}
      BY <3>1 DEF LoginInv, Served
    <3>3. Identity.name = ClientUser
      BY DEF Identity
    <3>4. Response(first).name = ClientUser
      BY Responds
    <3> QED
      BY <3>2, <3>3, <3>4
  <2>6. RightPassword
    BY <2>2, <2>4, <2>5 DEF RightPassword, Server!PasswordOf, SP!PasswordOf
  <2> QED
    BY <2>1, <2>2, <2>6 DEF Server!Accepted, SP!Accepted
<1> QED
  BY LoginInit, LoginStep, <1>1, PTL DEF Spec

(* The right password fails against this server only by time, or because   *)
(* the response was delivered twice: a lost session has been taken by a    *)
(* copy of it, and a response that finds its session fits it.              *)
THEOREM FailMeansNetworkCorrect == Spec => []FailMeansNetwork
<1>1. LoginInv => FailMeansNetwork
  BY DEF LoginInv, Judged, Copied, FailMeansNetwork, ExitsZero
<1> QED
  BY LoginInit, LoginStep, <1>1, PTL DEF Spec

-------------------------------------------------------------------------------
(* ByteFuzzer: the packet of an iteration is at most one mutation away     *)
(* from the one that was asked for.                                        *)
Attribute == [type : Byte, value : Seq(Byte), over : Int]
PacketType == [code : Int, id : Int, attrs : Seq(Attribute), over : Int]

OneAway(p, q) ==
    \/ /\ q.attrs = p.attrs
       /\ Cardinality({f \in {"code", "id", "over"} : q[f] # p[f]}) <= 1
    \/ /\ q.attrs # p.attrs /\ q = [p EXCEPT !.attrs = q.attrs]
       /\ \/ q.attrs = <<>>
          \/ Front(q.attrs) = p.attrs
          \/ /\ Len(q.attrs) = Len(p.attrs)
             /\ \E n \in DOMAIN p.attrs :
                /\ \A m \in DOMAIN p.attrs \ {n} : q.attrs[m] = p.attrs[m]
                /\ q.attrs[n].type = p.attrs[n].type
                /\ q.attrs[n].value = p.attrs[n].value \/ q.attrs[n].over = p.attrs[n].over

LEMMA ZerosType == ASSUME NEW n \in Nat PROVE Zeros(n) \in Seq(Byte)
<1>1. 0 \in Byte
  BY FuzzerAssumption DEF Byte
<1> QED
  BY <1>1 DEF Zeros

(* encryptPAP pads to a multiple of 16. *)
LEMMA PaddedIsNat == ASSUME NEW n \in Nat PROVE 16 * ((n + 15) \div 16) \in Nat
  OBVIOUS

(* What the command line asks for is a packet. *)
LEMMA AttrType ==
    ASSUME NEW s \in Spec1, Parses(s)
    PROVE  parseAttrSpec(s) \in Attribute
<1>1. s.type \in Byte /\ s.len \in Int /\ s.size \in Nat /\ s.kind \in {"str", "int", "ip", "hex", "pwd"}
  BY DEF Spec1, Parses
<1>2. PayloadSize(s) \in Nat
  BY <1>1, PaddedIsNat DEF PayloadSize
<1>3. Zeros(PayloadSize(s)) \in Seq(Byte)
  BY <1>2, ZerosType
<1> QED
  BY <1>1, <1>3 DEF parseAttrSpec, Attribute

LEMMA PapPacketType ==
    ASSUME command \in Command, NEW id \in Byte
    PROVE  buildPAPPacket(id) \in PacketType
<1>1. command.username \in Nat /\ command.password \in Nat /\ id \in Int /\ 1 \in Byte /\ 2 \in Byte
  BY FuzzerAssumption DEF Command, Byte
<1> DEFINE size == IF command.password = 0 THEN 16 ELSE 16 * ((command.password + 15) \div 16)
<1>2. size \in Nat
  BY <1>1, PaddedIsNat
<1> HIDE DEF size
<1>6. Zeros(command.username) \in Seq(Byte) /\ Zeros(size) \in Seq(Byte)
  BY <1>1, <1>2, ZerosType
<1>7. \A t \in Byte, v \in Seq(Byte) : Attr(t, v) \in Attribute
  BY DEF Attr, Derived, Attribute
<1>8. AttrUserName \in Byte /\ AttrUserPassword \in Byte
  BY <1>1 DEF AttrUserName, AttrUserPassword
<1>3. Attr(AttrUserName, Zeros(command.username)) \in Attribute
  BY <1>6, <1>7, <1>8
<1>4. Attr(AttrUserPassword, Zeros(size)) \in Attribute
  BY <1>6, <1>7, <1>8
<1>5. << Attr(AttrUserName, Zeros(command.username)), Attr(AttrUserPassword, Zeros(size)) >>
        \in Seq(Attribute)
  BY <1>3, <1>4
<1> QED
  BY <1>1, <1>5 DEF buildPAPPacket, Packet, PacketType, Derived, size

LEMMA RawPacketType ==
    ASSUME command \in Command, NEW id \in Byte, Builds, FromFlags
    PROVE  buildRawPacketFromFlags(id) \in PacketType
<1>1. /\ command.attrs \in Seq(Spec1) /\ command.id \in Int /\ command.code \in Int
      /\ ByteMod \in Nat \ {0} /\ id \in Int
  BY FuzzerAssumption DEF Command, Byte
<1>2. \A n \in DOMAIN command.attrs : parseAttrSpec(command.attrs[n]) \in Attribute
  BY <1>1, AttrType DEF Builds
<1>3. [n \in DOMAIN command.attrs |-> parseAttrSpec(command.attrs[n])] \in Seq(Attribute)
  BY <1>1, <1>2
<1>4. command.id % ByteMod \in Int
  BY <1>1
<1> QED
  BY <1>1, <1>3, <1>4 DEF buildRawPacketFromFlags, Packet, PacketType, Derived

-------------------------------------------------------------------------------
(* The mutations, by what they leave alone. *)

LEMMA HeaderChanged ==
    ASSUME NEW p, NEW q, q.attrs = p.attrs, NEW g,
           \A f \in {"code", "id", "over"} \ {g} : q[f] = p[f]
    PROVE  OneAway(p, q)
<1> DEFINE S == {f \in {"code", "id", "over"} : q[f] # p[f]}
<1>1. S \subseteq {g}
  OBVIOUS
<1>2. IsFiniteSet({g}) /\ Cardinality({g}) = 1
  BY FS_Singleton
<1>3. Cardinality(S) <= 1
  BY <1>1, <1>2, FS_Subset
<1> QED
  BY <1>3 DEF OneAway

LEMMA Untouched == ASSUME NEW p PROVE OneAway(p, p)
  BY HeaderChanged

LEMMA AttrsChanged ==
    ASSUME NEW p \in PacketType, NEW x,
           \/ x = <<>>
           \/ Front(x) = p.attrs
           \/ /\ Len(x) = Len(p.attrs)
              /\ \E n \in DOMAIN p.attrs :
                 /\ \A m \in DOMAIN p.attrs \ {n} : x[m] = p.attrs[m]
                 /\ x[n].type = p.attrs[n].type
                 /\ x[n].value = p.attrs[n].value \/ x[n].over = p.attrs[n].over
    PROVE  OneAway(p, [p EXCEPT !.attrs = x])
<1> DEFINE q == [p EXCEPT !.attrs = x]
<1>1. q.attrs = x
  BY DEF PacketType
<1>2. CASE x = p.attrs
  <2>1. q = p
    BY <1>2 DEF PacketType
  <2> QED
    BY <2>1, Untouched
<1>3. CASE x # p.attrs
  <2>1. q = [p EXCEPT !.attrs = q.attrs]
    BY <1>1
  <2> HIDE DEF q
  <2>2. OneAway(p, q)
    BY <1>1, <1>3, <2>1 DEF OneAway
  <2> QED
    BY <2>2 DEF q
<1> QED
  BY <1>2, <1>3

LEMMA AttrReplaced ==
    ASSUME NEW p \in PacketType, NEW n \in DOMAIN p.attrs, NEW a, a.type = p.attrs[n].type,
           a.value = p.attrs[n].value \/ a.over = p.attrs[n].over
    PROVE  OneAway(p, At(p, n, a))
<1> DEFINE x == [p.attrs EXCEPT ![n] = a]
<1>1. p.attrs \in Seq(Attribute)
  BY DEF PacketType
<1>2. Len(x) = Len(p.attrs) /\ x[n] = a /\ \A m \in DOMAIN p.attrs \ {n} : x[m] = p.attrs[m]
  BY <1>1
<1>3. At(p, n, a) = [p EXCEPT !.attrs = x]
  BY DEF At
<1> HIDE DEF x
<1>4. \E k \in DOMAIN p.attrs :
         /\ \A m \in DOMAIN p.attrs \ {k} : x[m] = p.attrs[m]
         /\ x[k].type = p.attrs[k].type
         /\ x[k].value = p.attrs[k].value \/ x[k].over = p.attrs[k].over
  <2>1. /\ x[n].type = p.attrs[n].type
        /\ x[n].value = p.attrs[n].value \/ x[n].over = p.attrs[n].over
    BY <1>2
  <2> WITNESS n \in DOMAIN p.attrs
  <2> QED
    BY <1>2, <2>1
<1>5. OneAway(p, [p EXCEPT !.attrs = x])
  BY <1>2, <1>4, AttrsChanged
<1> QED
  BY <1>3, <1>5

LEMMA AttrAdded ==
    ASSUME NEW p \in PacketType, NEW a
    PROVE  OneAway(p, Add(p, a))
<1> DEFINE x == Append(p.attrs, a)
<1>1. p.attrs \in Seq(Attribute)
  BY DEF PacketType
<1>2. Front(x) = p.attrs
  <2>1. p.attrs \in Seq(Attribute \cup {a}) /\ a \in Attribute \cup {a}
    BY <1>1
  <2> QED
    BY <2>1 DEF Front
<1> HIDE DEF x
<1>3. OneAway(p, [p EXCEPT !.attrs = x])
  BY <1>2, AttrsChanged
<1> QED
  BY <1>3 DEF Add, x

(* The mutations of a value keep its length byte, given or derived. *)
LEMMA ValueChanged ==
    ASSUME NEW p \in PacketType, NEW n \in DOMAIN p.attrs, NEW v
    PROVE  OneAway(p, At(p, n, [p.attrs[n] EXCEPT !.value = v]))
<1>1. p.attrs[n] \in Attribute
  BY DEF PacketType
<1> DEFINE a == [p.attrs[n] EXCEPT !.value = v]
<1>2. a.type = p.attrs[n].type /\ a.over = p.attrs[n].over
  BY <1>1 DEF Attribute
<1> HIDE DEF a
<1>3. OneAway(p, At(p, n, a))
  BY <1>2, AttrReplaced
<1> QED
  BY <1>3 DEF a

LEMMA MutationIsOneAway ==
    ASSUME NEW p \in PacketType, NEW q \in fuzzMutation(p)
    PROVE  OneAway(p, q)
<1>1. CASE q = p
  BY <1>1, Untouched
<1>2. CASE q \in BitflipValue(p)
  <2>1. PICK n \in DOMAIN p.attrs :
          \E m \in DOMAIN p.attrs[n].value : \E b \in Flipped(p.attrs[n].value[m]) :
             q = At(p, n, [p.attrs[n] EXCEPT !.value[m] = b])
    BY <1>2 DEF BitflipValue
  <2>2. \A m, b : [p.attrs[n] EXCEPT !.value[m] = b]
                     = [p.attrs[n] EXCEPT !.value = [p.attrs[n].value EXCEPT ![m] = b]]
    OBVIOUS
  <2> QED
    BY <2>1, <2>2, ValueChanged
<1>3. CASE q \in TruncateValue(p)
  <2>2. PICK n \in DOMAIN p.attrs : \E m \in 0 .. Len(p.attrs[n].value) - 1 :
          q = At(p, n, [p.attrs[n] EXCEPT !.value = SubSeq(p.attrs[n].value, 1, m)])
    BY <1>3 DEF TruncateValue
  <2>1. PICK v : q = At(p, n, [p.attrs[n] EXCEPT !.value = v])
    BY <2>2
  <2> QED
    BY <2>1, ValueChanged
<1>4. CASE q \in OversizeValue(p)
  <2>1. PICK n \in DOMAIN p.attrs, pad \in RandomValue(PadSizes) :
          q = At(p, n, [p.attrs[n] EXCEPT !.value = p.attrs[n].value \o pad])
    BY <1>4 DEF OversizeValue
  <2> QED
    BY <2>1, ValueChanged
<1>5. CASE q \in EmptyValue(p)
  <2>1. PICK n \in DOMAIN p.attrs : q = At(p, n, [p.attrs[n] EXCEPT !.value = <<>>])
    BY <1>5 DEF EmptyValue
  <2> QED
    BY <2>1, ValueChanged
<1>6. CASE q \in BadLengthByte(p)
  <2>1. PICK n \in DOMAIN p.attrs, l \in Byte : q = At(p, n, [p.attrs[n] EXCEPT !.over = l])
    BY <1>6 DEF BadLengthByte
  <2>2. p.attrs[n] \in Attribute
    BY DEF PacketType
  <2>3. /\ [p.attrs[n] EXCEPT !.over = l].type = p.attrs[n].type
        /\ [p.attrs[n] EXCEPT !.over = l].value = p.attrs[n].value
    BY <2>2 DEF Attribute
  <2> QED
    BY <2>1, <2>3, AttrReplaced
<1>7. CASE q \in DuplicateAttr(p) \cup GarbageAttr(p)
  <2>1. PICK a : q = Add(p, a)
    BY <1>7 DEF DuplicateAttr, GarbageAttr
  <2> QED
    BY <2>1, AttrAdded
<1>8. CASE q \in CorruptTotalLength(p)
  <2>1. PICK l : q = [p EXCEPT !.over = l]
    BY <1>8 DEF CorruptTotalLength
  <2>2. q.attrs = p.attrs /\ \A f \in {"code", "id", "over"} \ {"over"} : q[f] = p[f]
    BY <2>1 DEF PacketType
  <2> QED
    BY <2>2, HeaderChanged
<1>9. CASE q \in InvalidCode(p)
  <2>1. PICK c : q = [p EXCEPT !.code = c]
    BY <1>9 DEF InvalidCode
  <2>2. q.attrs = p.attrs /\ \A f \in {"code", "id", "over"} \ {"code"} : q[f] = p[f]
    BY <2>1 DEF PacketType
  <2> QED
    BY <2>2, HeaderChanged
<1>10. CASE q \in ExtremeId(p)
  <2>1. PICK b : q = [p EXCEPT !.id = b]
    BY <1>10 DEF ExtremeId
  <2>2. q.attrs = p.attrs /\ \A f \in {"code", "id", "over"} \ {"id"} : q[f] = p[f]
    BY <2>1 DEF PacketType
  <2> QED
    BY <2>2, HeaderChanged
<1>11. CASE q \in StripAttributes(p)
  <2>1. q = [p EXCEPT !.attrs = <<>>]
    BY <1>11 DEF StripAttributes
  <2> QED
    BY <2>1, AttrsChanged
<1> QED
  BY <1>1, <1>2, <1>3, <1>4, <1>5, <1>6, <1>7, <1>8, <1>9, <1>10, <1>11 DEF fuzzMutation

(* Between two iterations the base is the packet that was asked for. *)
FuzzedInv ==
    /\ command \in Commands
    /\ phase \in {"send", "mutate", "next"} => base = asked /\ asked \in PacketType
    /\ phase = "next" => OneAway(asked, pkt)

LEMMA FuzzedStep == FuzzedInv /\ [BNext]_bvars => FuzzedInv'
<1> SUFFICES ASSUME FuzzedInv, [BNext]_bvars PROVE FuzzedInv'
  OBVIOUS
<1>1. CASE BuildBase
  <2>1. command \in Command /\ command' = command
    BY <1>1, FuzzerAssumption DEF BuildBase, FuzzedInv
  <2>2. CASE ~Builds
    BY <1>1, <2>1, <2>2 DEF BuildBase, Exit, FuzzedInv
  <2>3. CASE Builds
    <3>1. PICK id \in RandomBytes :
             base' = IF FromFlags THEN buildRawPacketFromFlags(id) ELSE buildPAPPacket(id)
      BY <1>1, <2>3 DEF BuildBase
    <3>2. id \in Byte
      BY <3>1, FuzzerAssumption
    <3>3. base' \in PacketType
      BY <2>1, <2>3, <3>1, <3>2, RawPacketType, PapPacketType
    <3>4. asked' = base' /\ phase' \in {"mutate", "send"}
      BY <1>1, <2>3 DEF BuildBase
    <3> QED
      BY <2>1, <3>3, <3>4 DEF FuzzedInv
  <2> QED
    BY <2>2, <2>3
<1>2. CASE Exchange
  <2>1. PICK r \in Responses : CASE r.kind = "error" -> Exit(1)
                                 [] r.kind = "empty" -> Exit(2)
                                 [] r.kind = "packet" -> Exit(checkExpectation(r.code))
    BY <1>2 DEF Exchange
  <2>2. r.kind \in {"error", "empty", "packet"}
    BY FuzzerAssumption DEF Received
  <2>3. phase' = "ended"
    BY <2>1, <2>2 DEF Exit
  <2>4. command' = command
    BY <1>2 DEF Exchange
  <2> QED
    BY <2>3, <2>4 DEF FuzzedInv
<1>3. CASE Mutate
  <2>1. /\ phase = "mutate" /\ pkt' \in fuzzMutation(base) /\ phase' = "next"
        /\ UNCHANGED <<command, base, asked>>
    BY <1>3 DEF Mutate
  <2>2. OneAway(asked, pkt')
    BY <2>1, MutationIsOneAway DEF FuzzedInv
  <2> QED
    BY <2>1, <2>2 DEF FuzzedInv
<1>4. CASE ExchangeRaw
  BY <1>4 DEF ExchangeRaw, FuzzedInv
<1>5. CASE Done
  BY <1>5 DEF Done, Exit, FuzzedInv
<1>6. CASE UNCHANGED bvars
  BY <1>6 DEF bvars, FuzzedInv
<1> QED
  BY <1>1, <1>2, <1>3, <1>4, <1>5, <1>6 DEF BNext, BClient

(* For any command line, any number of iterations and any random values:   *)
(* a fuzzed packet is the one asked for with one thing done to it          *)
(* (fuzzMutation); runFuzz never mutates what it has mutated before.       *)
THEOREM OneMutationCorrect == BSpec => []OneMutation
<1>1. BInit => FuzzedInv
  BY DEF BInit, FuzzedInv
<1>2. FuzzedInv => OneMutation
  BY DEF FuzzedInv, OneMutation, OneAway
<1> QED
  BY <1>1, FuzzedStep, <1>2, PTL DEF BSpec

-------------------------------------------------------------------------------
(* Induction over the natural numbers, for sets. *)
LEMMA SetInduction ==
    ASSUME NEW S, 0 \in S, \A n \in Nat : n \in S => n + 1 \in S
    PROVE  Nat \subseteq S
<1> SUFFICES ASSUME Nat \ S # {} PROVE FALSE
  OBVIOUS
<1> DEFINE R == OpToRel(<, Nat)
<1>1. IsWellFoundedOn(R, Nat) /\ \A m, n \in Nat : m < n => <<m, n>> \in R
  BY NatLessThanWellFounded, Zenon DEF OpToRel
<1> HIDE DEF R
<1>2. PICK n \in Nat \ S : \A m \in Nat \ S : <<m, n>> \notin R
  <2> DEFINE T == Nat \ S
  <2>1. T \subseteq Nat
    OBVIOUS
  <2>3. T # {}
    OBVIOUS
  <2>4. IsWellFoundedOn(R, Nat)
    BY <1>1
  <2> HIDE DEF T
  <2>2. \E n \in T : \A m \in T : ~(<<m, n>> \in R)
    BY <2>1, <2>3, <2>4, WFMin, Zenon
  <2> QED
    BY <2>2 DEF T
<1>3. n - 1 \in Nat /\ (n - 1) + 1 = n /\ n - 1 < n /\ n \in Nat
  BY <1>2
<1>4. n - 1 \in Nat \ S
  BY <1>2, <1>3
<1> QED
  BY <1>1, <1>2, <1>3, <1>4

(* FlattenSeq: its value is the last of the growing concatenations. *)
Grows(f, seqs) ==
    /\ f[0] = <<>>
    /\ \A n \in 1 .. Len(seqs) : f[n] = f[n - 1] \o seqs[n]

LEMMA Flattens ==
    ASSUME NEW S, NEW seqs \in Seq(Seq(S))
    PROVE  \E f \in [0 .. Len(seqs) -> Seq(S)] : Grows(f, seqs) /\ FlattenSeq(seqs) = f[Len(seqs)]
<1> DEFINE N == Len(seqs)
<1>1. N \in Nat /\ \A n \in 1 .. N : seqs[n] \in Seq(S)
  OBVIOUS
<1>e. <<>> \in Seq(S)
  OBVIOUS
<1> DEFINE Val(g, n) == IF n = 1 THEN seqs[n] ELSE g[n - 1] \o seqs[n]
           Solves(g, n) == g \in [1 .. N -> Seq(S)] /\ \A m \in 1 .. N : m <= n => g[m] = Val(g, m)
           Solved == {n \in Nat : \E g : Solves(g, n)}
<1>2. 0 \in Solved
  <2>1. \A m \in 1 .. N : ~(m <= 0)
    BY <1>1
  <2> DEFINE g == [n \in 1 .. N |-> <<>>]
  <2>2. g \in [1 .. N -> Seq(S)]
    BY <1>e
  <2> HIDE DEF Val, g
  <2>3. Solves(g, 0)
    BY <2>1, <2>2
  <2> QED
    BY <2>3
<1>3. ASSUME NEW n \in Nat, n \in Solved PROVE n + 1 \in Solved
  <2> HIDE DEF Val
  <2>1. PICK g : Solves(g, n)
    BY <1>3
  <2>2. CASE n + 1 > N
    <3>1. \A m \in 1 .. N : m <= n
      BY <1>1, <2>2
    <3>2. Solves(g, n + 1)
      BY <2>1, <3>1
    <3> QED
      BY <3>2
  <2>3. CASE n + 1 <= N
    <3> DEFINE v == Val(g, n + 1)
               h == [g EXCEPT ![n + 1] = v]
    <3>1. v \in Seq(S)
      <4>1. n # 0 => n \in 1 .. N
        BY <1>1, <2>3
      <4>2. n # 0 => g[n] \in Seq(S)
        BY <2>1, <4>1
      <4>3. seqs[n + 1] \in Seq(S)
        BY <1>1, <2>3
      <4> QED
        BY <4>2, <4>3 DEF Val
    <3> HIDE DEF v
    <3>2. h \in [1 .. N -> Seq(S)] /\ h[n + 1] = v /\ \A m \in 1 .. N : m # n + 1 => h[m] = g[m]
      BY <1>1, <2>1, <2>3, <3>1
    <3> HIDE DEF h
    <3>3. \A m \in 1 .. N : m <= n + 1 => Val(h, m) = Val(g, m)
      <4>1. ASSUME NEW m \in 1 .. N, m <= n + 1, m # 1 PROVE h[m - 1] = g[m - 1]
        <5>1. m - 1 \in 1 .. N /\ m - 1 # n + 1
          BY <1>1, <4>1
        <5> QED
          BY <3>2, <5>1
      <4> QED
        BY <4>1 DEF Val
    <3>4. \A m \in 1 .. N : m <= n + 1 => h[m] = Val(g, m)
      <4>1. \A m \in 1 .. N : m <= n + 1 => m <= n \/ m = n + 1
        BY <1>1
      <4>2. \A m \in 1 .. N : m <= n => m # n + 1
        BY <1>1
      <4> QED
        BY <2>1, <3>2, <4>1, <4>2 DEF v
    <3>5. Solves(h, n + 1)
      BY <3>2, <3>3, <3>4
    <3> QED
      BY <3>5
  <2> QED
    BY <1>1, <2>2, <2>3
<1>4. PICK g : Solves(g, N)
  <2> HIDE DEF Solved
  <2>1. Nat \subseteq Solved
    BY <1>2, <1>3, SetInduction
  <2> QED
    BY <1>1, <2>1 DEF Solved
<1> DEFINE Def(h) == [n \in 1 .. N |-> Val(h, n)]
<1>5. g = Def(g)
  <2> HIDE DEF Val
  <2> QED
    BY <1>1, <1>4
<1>6. PICK c : c = Def(c) /\ (N # 0 => FlattenSeq(seqs) = c[N])
  <2> DEFINE c == CHOOSE h : h = Def(h)
  <2>1. N # 0 => FlattenSeq(seqs) = c[N]
    BY DEF FlattenSeq
  <2> HIDE DEF Def
  <2>2. c = Def(c)
    BY <1>5
  <2> QED
    BY <2>1, <2>2
<1>7. \A n \in 1 .. N : c[n] = Val(c, n)
  <2> HIDE DEF Val
  <2> QED
    BY <1>6
<1>8. c \in [1 .. N -> Seq(S)]
  <2> DEFINE In == {n \in Nat : n \in 1 .. N => c[n] \in Seq(S)}
  <2>1. 0 \in In
    OBVIOUS
  <2>2. ASSUME NEW n \in Nat, n \in In PROVE n + 1 \in In
    <3> SUFFICES ASSUME n + 1 \in 1 .. N PROVE c[n + 1] \in Seq(S)
      BY <2>2
    <3>1. c[n + 1] = Val(c, n + 1)
      BY <1>7
    <3>2. n # 0 => c[n] \in Seq(S)
      BY <1>1, <2>2
    <3>3. seqs[n + 1] \in Seq(S)
      BY <1>1
    <3> QED
      BY <3>1, <3>2, <3>3
  <2> HIDE DEF In
  <2>3. Nat \subseteq In
    BY <2>1, <2>2, SetInduction
  <2>4. \A n \in 1 .. N : c[n] \in Seq(S)
    BY <2>3 DEF In
  <2>5. c = [n \in 1 .. N |-> c[n]]
    <3> HIDE DEF Val
    <3> QED
      BY <1>6
  <2> QED
    BY <2>4, <2>5
<1> DEFINE f == [n \in 0 .. N |-> IF n = 0 THEN <<>> ELSE c[n]]
<1>9. f \in [0 .. N -> Seq(S)] /\ Grows(f, seqs)
  <2>1. f \in [0 .. N -> Seq(S)]
    BY <1>1, <1>8
  <2>2. ASSUME NEW n \in 1 .. N PROVE f[n] = f[n - 1] \o seqs[n]
    <3>1. CASE n = 1
      <4>1. f[n] = seqs[n] /\ f[n - 1] = <<>>
        BY <1>1, <1>7, <3>1
      <4> QED
        BY <1>1, <4>1, ConcatEmptySeq
    <3>2. CASE n # 1
      <4>1. n \in 0 .. N /\ n - 1 \in 0 .. N /\ n - 1 # 0 /\ n # 0
        BY <1>1, <3>2
      <4>2. f[n] = c[n] /\ f[n - 1] = c[n - 1]
        BY <4>1
      <4>3. c[n] = c[n - 1] \o seqs[n]
        BY <1>7, <3>2
      <4> HIDE DEF f
      <4> QED
        BY <4>2, <4>3
    <3> QED
      BY <3>1, <3>2
  <2>3. f[0] = <<>>
    BY <1>1
  <2> QED
    BY <2>1, <2>2, <2>3 DEF Grows
<1>10. FlattenSeq(seqs) = f[N]
  <2>1. CASE N = 0
    <3>1. seqs = <<>> /\ FlattenSeq(seqs) = seqs
      BY <2>1 DEF FlattenSeq
    <3> QED
      BY <2>1, <3>1
  <2>2. CASE N # 0
    <3>1. f[N] = c[N]
      BY <1>1, <2>2
    <3> HIDE DEF f, Val
    <3> QED
      BY <1>6, <2>2, <3>1
  <2> QED
    BY <2>1, <2>2
<1> QED
  BY <1>9, <1>10

LEMMA Joined ==
    ASSUME NEW S, NEW s \in Seq(S), NEW t \in Seq(S)
    PROVE  /\ Len(s \o t) = Len(s) + Len(t)
           /\ \A k \in 1 .. Len(s) : (s \o t)[k] = s[k]
           /\ \A k \in 1 .. Len(t) : (s \o t)[Len(s) + k] = t[k]
<1>1. Len(s) \in Nat /\ Len(t) \in Nat
  OBVIOUS
<1>2. \A k \in 1 .. Len(s) + Len(t) : (s \o t)[k] = IF k <= Len(s) THEN s[k] ELSE t[k - Len(s)]
  BY ConcatProperties
<1>3. ASSUME NEW k \in 1 .. Len(t) PROVE (s \o t)[Len(s) + k] = t[k]
  <2>1. Len(s) + k \in 1 .. Len(s) + Len(t) /\ ~(Len(s) + k <= Len(s)) /\ (Len(s) + k) - Len(s) = k
    BY <1>1
  <2>2. (s \o t)[Len(s) + k] = t[(Len(s) + k) - Len(s)]
    BY <1>2, <2>1, Zenon
  <2> QED
    BY <2>1, <2>2, Zenon
<1>4. ASSUME NEW k \in 1 .. Len(s) PROVE (s \o t)[k] = s[k]
  <2>1. k \in 1 .. Len(s) + Len(t) /\ k <= Len(s)
    BY <1>1
  <2> QED
    BY <1>2, <2>1, Zenon
<1> QED
  BY <1>3, <1>4, ConcatProperties

LEMMA GrowsBy ==
    ASSUME NEW S, NEW seqs \in Seq(Seq(S)), NEW f \in [0 .. Len(seqs) -> Seq(S)], Grows(f, seqs)
    PROVE  \A n \in 1 .. Len(seqs) : Len(f[n]) = Len(f[n - 1]) + Len(seqs[n])
<1> TAKE n \in 1 .. Len(seqs)
<1>1. f[n - 1] \in Seq(S) /\ seqs[n] \in Seq(S) /\ f[n] = f[n - 1] \o seqs[n]
  BY DEF Grows
<1>2. Len(f[n - 1] \o seqs[n]) = Len(f[n - 1]) + Len(seqs[n])
  BY <1>1, Joined
<1> QED
  BY <1>1, <1>2

(* What is concatenated first comes first. *)
Begins(s, t) == Len(s) <= Len(t) /\ \A k \in 1 .. Len(s) : t[k] = s[k]

LEMMA GrowsKeeping ==
    ASSUME NEW S, NEW seqs \in Seq(Seq(S)), NEW f \in [0 .. Len(seqs) -> Seq(S)], Grows(f, seqs),
           NEW n \in 0 .. Len(seqs), NEW m \in n .. Len(seqs)
    PROVE  Begins(f[n], f[m])
<1> DEFINE Keeps(k) == Len(f[n]) <= Len(f[k]) /\ \A x \in 1 .. Len(f[n]) : f[k][x] = f[n][x]
           In == {d \in Nat : n + d <= Len(seqs) => Keeps(n + d)}
<1>1. \A k \in 0 .. Len(seqs) : Len(f[k]) \in Nat
  OBVIOUS
<1>2. 0 \in In
  BY <1>1
<1>3. ASSUME NEW d \in Nat, d \in In PROVE d + 1 \in In
  <2> DEFINE p == n + d
             q == n + d + 1
  <2> SUFFICES ASSUME q <= Len(seqs) PROVE Keeps(q)
    OBVIOUS
  <2>1. q \in 1 .. Len(seqs) /\ p \in 0 .. Len(seqs) /\ q - 1 = p
    OBVIOUS
  <2>2. Keeps(p)
    BY <1>3, <2>1
  <2> HIDE DEF In, p, q
  <2>3. f[p] \in Seq(S) /\ seqs[q] \in Seq(S) /\ f[q] = f[p] \o seqs[q]
    <3>1. f[q] = f[q - 1] \o seqs[q]
      BY <2>1 DEF Grows
    <3>2. f[p] \in Seq(S) /\ seqs[q] \in Seq(S)
      BY <2>1
    <3> QED
      BY <2>1, <3>1, <3>2
  <2>4. Len(f[q]) = Len(f[p]) + Len(seqs[q]) /\ \A k \in 1 .. Len(f[p]) : f[q][k] = f[p][k]
    <3> DEFINE x == f[p]
               y == seqs[q]
    <3>1. x \in Seq(S) /\ y \in Seq(S)
      BY <2>3
    <3> HIDE DEF x, y
    <3>2. Len(x \o y) = Len(x) + Len(y) /\ \A k \in 1 .. Len(x) : (x \o y)[k] = x[k]
      BY <3>1, Joined
    <3> QED
      BY <2>3, <3>2, Zenon DEF x, y
  <2>5. Len(f[n]) \in Nat /\ Len(f[p]) \in Nat /\ Len(f[q]) \in Nat /\ Len(seqs[q]) \in Nat
    BY <1>1, <2>1, <2>3
  <2>6. Len(f[n]) <= Len(f[q])
    <3>1. \A a, c, e, g \in Nat : a <= c /\ e = c + g => a <= e
      OBVIOUS
    <3> QED
      BY <2>2, <2>4, <2>5, <3>1, Zenon
  <2>7. \A x \in 1 .. Len(f[n]) : x \in 1 .. Len(f[p])
    BY <2>2, <2>5
  <2> QED
    BY <2>2, <2>4, <2>6, <2>7, Zenon
<1> HIDE DEF In
<1>4. Nat \subseteq In
  BY <1>2, <1>3, SetInduction
<1>5. m - n \in Nat /\ n + (m - n) = m /\ m <= Len(seqs)
  OBVIOUS
<1>6. m - n \in In
  BY <1>4, <1>5
<1> QED
  BY <1>5, <1>6 DEF In, Begins

(* How long it becomes is a matter of lengths. *)
SameLengths(s, t) == \A k \in DOMAIN t : Len(s[k]) = Len(t[k])

LEMMA GrowAlike ==
    ASSUME NEW S, NEW seqs \in Seq(Seq(S)), NEW f \in [0 .. Len(seqs) -> Seq(S)], Grows(f, seqs),
           NEW seqs2 \in Seq(Seq(S)), NEW g \in [0 .. Len(seqs2) -> Seq(S)], Grows(g, seqs2),
           Len(seqs2) <= Len(seqs), SameLengths(seqs, seqs2)
    PROVE  SameLengths(f, g)
<1> DEFINE In == {n \in Nat : n <= Len(seqs2) => Len(g[n]) = Len(f[n])}
<1>f. \A n \in 1 .. Len(seqs) : Len(f[n]) = Len(f[n - 1]) + Len(seqs[n])
  BY GrowsBy
<1>g. \A n \in 1 .. Len(seqs2) : Len(g[n]) = Len(g[n - 1]) + Len(seqs2[n])
  BY GrowsBy
<1>1. 0 \in In
  BY DEF Grows
<1>2. ASSUME NEW n \in Nat, n \in In PROVE n + 1 \in In
  <2> SUFFICES ASSUME n + 1 <= Len(seqs2) PROVE Len(g[n + 1]) = Len(f[n + 1])
    OBVIOUS
  <2>1. n + 1 \in 1 .. Len(seqs) /\ n + 1 \in 1 .. Len(seqs2) /\ (n + 1) - 1 = n
    OBVIOUS
  <2>2. Len(f[n + 1]) = Len(f[(n + 1) - 1]) + Len(seqs[n + 1])
    BY <1>f, <2>1
  <2>3. Len(g[n + 1]) = Len(g[(n + 1) - 1]) + Len(seqs2[n + 1])
    BY <1>g, <2>1
  <2>4. Len(g[n]) = Len(f[n])
    BY <1>2, <2>1
  <2>5. Len(seqs2[n + 1]) = Len(seqs[n + 1]) /\ (n + 1) - 1 = n
    BY <2>1 DEF SameLengths
  <2> QED
    BY <2>2, <2>3, <2>4, <2>5, Zenon
<1> HIDE DEF In
<1>3. Nat \subseteq In
  BY <1>1, <1>2, SetInduction
<1> QED
  BY <1>3 DEF In, SameLengths
-------------------------------------------------------------------------------
(* decodeAttrs: the lines from each offset on. *)
Entry == [type : Int, value : Seq(Int), malformed : BOOLEAN]
Line(type, value, malformed) == [type |-> type, value |-> value, malformed |-> malformed]

FromHere(b, D, o) ==
    LET left == Len(b) - o + 1
        declared == b[o + 1]
    IN  IF left = 0 THEN <<>>
        ELSE IF left < 2 THEN <<Line(0, <<>>, TRUE)>>
        ELSE IF declared < 2 THEN <<Line(b[o], <<>>, TRUE)>>
        ELSE IF declared > left THEN <<Line(b[o], SubSeq(b, o + 2, Len(b)), TRUE)>>
        ELSE <<Line(b[o], SubSeq(b, o + 2, o + declared - 1), FALSE)>> \o D[o + declared]

(* The decoder stops, or goes on further down. *)
LEMMA StopsOrGoesOn ==
    ASSUME NEW b \in Seq(Int), NEW D, NEW o \in 1 .. Len(b) + 1
    PROVE  \/ FromHere(b, D, o) = <<>>
           \/ \E e \in Entry : FromHere(b, D, o) = <<e>>
           \/ \E e \in Entry, k \in o + 1 .. Len(b) + 1 :
                 ~e.malformed /\ FromHere(b, D, o) = <<e>> \o D[k]
<1> DEFINE left == Len(b) - o + 1
           declared == b[o + 1]
<1>1. \A t \in Int, v \in Seq(Int), m \in BOOLEAN : Line(t, v, m) \in Entry /\ Line(t, v, m).malformed = m
  BY DEF Line, Entry
<1>2. Line(0, <<>>, TRUE) \in Entry
  BY DEF Line, Entry
<1>3. CASE left < 2
  BY <1>2, <1>3, Zenon DEF FromHere
<1>4. CASE left >= 2
  <2>1. ~(left = 0) /\ ~(left < 2) /\ o \in 1 .. Len(b) /\ o + 1 \in 1 .. Len(b)
    BY <1>4
  <2>2. b[o] \in Int /\ declared \in Int
    BY <2>1
  <2>3. CASE declared < 2
    <3>1. Line(b[o], <<>>, TRUE) \in Entry
      BY <2>2 DEF Line, Entry
    <3> QED
      BY <2>1, <2>3, <3>1, Zenon DEF FromHere
  <2>4. CASE ~(declared < 2) /\ declared > left
    <3>1. SubSeq(b, o + 2, Len(b)) \in Seq(Int)
      OBVIOUS
    <3>2. Line(b[o], SubSeq(b, o + 2, Len(b)), TRUE) \in Entry
      BY <2>2, <3>1 DEF Line, Entry
    <3> QED
      BY <2>1, <2>4, <3>2, Zenon DEF FromHere
  <2>5. CASE ~(declared < 2) /\ ~(declared > left)
    <3> DEFINE e == Line(b[o], SubSeq(b, o + 2, o + declared - 1), FALSE)
    <3>1. o + declared \in o + 1 .. Len(b) + 1 /\ o + declared - 1 \in Int /\ o + declared - 1 <= Len(b)
      <4>1. \A x \in Int, y \in Nat : ~(x < 2) /\ ~(x > y - o + 1) =>
               o + x \in o + 1 .. y + 1 /\ o + x - 1 \in Int /\ o + x - 1 <= y
        OBVIOUS
      <4>2. Len(b) \in Nat
        OBVIOUS
      <4> QED
        BY <2>2, <2>5, <4>1, <4>2, Zenon
    <3>2. SubSeq(b, o + 2, o + declared - 1) \in Seq(Int)
      BY <3>1
    <3>3. e \in Entry /\ ~e.malformed
      BY <2>2, <3>2 DEF Line, Entry
    <3>4. FromHere(b, D, o) = <<e>> \o D[o + declared]
      BY <2>1, <2>5, Zenon DEF FromHere
    <3> QED
      BY <3>1, <3>3, <3>4, Zenon
  <2> QED
    BY <2>3, <2>4, <2>5
<1>5. left < 2 \/ left >= 2
  OBVIOUS
<1> QED
  BY <1>3, <1>4, <1>5, Zenon

LEMMA FromHereType ==
    ASSUME NEW b \in Seq(Int), NEW D, NEW o \in 1 .. Len(b) + 1,
           \A k \in o + 1 .. Len(b) + 1 : D[k] \in Seq(Entry)
    PROVE  FromHere(b, D, o) \in Seq(Entry)
<1>1. CASE FromHere(b, D, o) = <<>>
  BY <1>1
<1>2. ASSUME NEW e \in Entry, FromHere(b, D, o) = <<e>> PROVE FromHere(b, D, o) \in Seq(Entry)
  BY <1>2
<1>3. ASSUME NEW e \in Entry, NEW k \in o + 1 .. Len(b) + 1, FromHere(b, D, o) = <<e>> \o D[k]
      PROVE  FromHere(b, D, o) \in Seq(Entry)
  <2>1. <<e>> \in Seq(Entry) /\ D[k] \in Seq(Entry)
    OBVIOUS
  <2> QED
    BY <1>3, <2>1, ConcatProperties
<1> QED
  BY <1>1, <1>2, <1>3, StopsOrGoesOn

LEMMA FromHereDepends ==
    ASSUME NEW b \in Seq(Int), NEW D, NEW E, NEW o \in 1 .. Len(b) + 1,
           \A k \in o + 1 .. Len(b) + 1 : D[k] = E[k]
    PROVE  FromHere(b, D, o) = FromHere(b, E, o)
<1> DEFINE left == Len(b) - o + 1
           declared == b[o + 1]
<1>1. ASSUME left >= 2, declared >= 2, declared <= left
      PROVE  D[o + declared] = E[o + declared]
  <2>1. o + 1 \in 1 .. Len(b)
    BY <1>1
  <2>2. declared \in Int
    BY <2>1
  <2>3. o + declared \in o + 1 .. Len(b) + 1
    BY <1>1, <2>2
  <2> QED
    BY <2>3
<1>2. left >= 2 => declared \in Int
  <2>1. left >= 2 => o + 1 \in 1 .. Len(b)
    OBVIOUS
  <2> QED
    BY <2>1
<1> QED
  BY <1>1, <1>2 DEF FromHere

LEMMA Decodes ==
    ASSUME NEW b \in Seq(Int)
    PROVE  \E D \in [1 .. Len(b) + 1 -> Seq(Entry)] :
              /\ \A o \in 1 .. Len(b) + 1 : D[o] = FromHere(b, D, o)
              /\ decodeAttrs(b) = D[1]
<1> DEFINE N == Len(b) + 1
           Solves(D, n) == /\ D \in [1 .. N -> Seq(Entry)]
                           /\ \A o \in 1 .. N : o + n > N => D[o] = FromHere(b, D, o)
           Solved == {n \in Nat : \E D : Solves(D, n)}
<1>1. N \in Nat \ {0}
  OBVIOUS
<1>2. 0 \in Solved
  <2>1. \A o \in 1 .. N : ~(o + 0 > N)
    BY <1>1
  <2> DEFINE D == [o \in 1 .. N |-> <<>>]
  <2>2. D \in [1 .. N -> Seq(Entry)]
    OBVIOUS
  <2> HIDE DEF D
  <2>3. Solves(D, 0)
    BY <2>1, <2>2
  <2> QED
    BY <2>3
<1>3. ASSUME NEW n \in Nat, n \in Solved PROVE n + 1 \in Solved
  <2>1. PICK D : Solves(D, n)
    BY <1>3
  <2>2. CASE n >= N
    <3>1. \A o \in 1 .. N : o + n > N
      BY <1>1, <2>2
    <3>2. Solves(D, n + 1)
      BY <2>1, <3>1
    <3> QED
      BY <3>2
  <2>3. CASE n < N
    <3> DEFINE q == N - n
               v == FromHere(b, D, q)
               E == [D EXCEPT ![q] = v]
    <3>1. q \in 1 .. N
      BY <1>1, <2>3
    <3>2. v \in Seq(Entry)
      BY <2>1, <3>1, FromHereType
    <3> HIDE DEF v
    <3>3. E \in [1 .. N -> Seq(Entry)] /\ E[q] = v /\ \A o \in 1 .. N : o # q => E[o] = D[o]
      BY <2>1, <3>1, <3>2
    <3> HIDE DEF E
    <3>4. ASSUME NEW o \in 1 .. N, o + (n + 1) > N PROVE E[o] = FromHere(b, E, o)
      <4>1. o >= q
        BY <1>1, <3>4
      <4>2. \A k \in o + 1 .. N : k \in 1 .. N /\ k # q
        BY <1>1, <3>1, <4>1
      <4>3. FromHere(b, D, o) = FromHere(b, E, o)
        BY <3>3, <4>2, FromHereDepends
      <4>4. CASE o = q
        BY <3>3, <4>3, <4>4 DEF v
      <4>5. CASE o > q
        <5>1. o + n > N /\ o # q
          BY <1>1, <3>1, <4>5
        <5> QED
          BY <2>1, <3>3, <4>3, <5>1
      <4> QED
        BY <1>1, <3>1, <4>1, <4>4, <4>5
    <3>5. Solves(E, n + 1)
      BY <3>3, <3>4
    <3> QED
      BY <3>5
  <2> QED
    BY <1>1, <2>2, <2>3
<1>4. PICK D : Solves(D, N)
  <2> HIDE DEF Solved
  <2>1. Nat \subseteq Solved
    BY <1>2, <1>3, SetInduction
  <2> QED
    BY <1>1, <2>1 DEF Solved
<1> DEFINE Def(E) == [o \in 1 .. N |-> FromHere(b, E, o)]
<1>5. D = Def(D)
  <2>1. \A o \in 1 .. N : o + N > N
    BY <1>1
  <2> QED
    BY <1>4, <2>1
<1>6. PICK c : c = Def(c) /\ decodeAttrs(b) = c[1]
  <2> DEFINE c == CHOOSE E : E = Def(E)
  <2>1. decodeAttrs(b) = c[1]
    BY DEF decodeAttrs, FromHere, Line
  <2> HIDE DEF Def
  <2>2. c = Def(c)
    BY <1>5
  <2> QED
    BY <2>1, <2>2
<1>7. \A o \in 1 .. N : c[o] = FromHere(b, c, o)
  BY <1>6
<1>8. c \in [1 .. N -> Seq(Entry)]
  <2> DEFINE In == {n \in Nat : \A o \in 1 .. N : o + n > N => c[o] \in Seq(Entry)}
  <2>1. 0 \in In
    BY <1>1
  <2>2. ASSUME NEW n \in Nat, n \in In PROVE n + 1 \in In
    <3> SUFFICES ASSUME NEW o \in 1 .. N, o + (n + 1) > N PROVE c[o] \in Seq(Entry)
      OBVIOUS
    <3>1. \A k \in o + 1 .. N : k \in 1 .. N /\ k + n > N
      BY <1>1
    <3>2. \A k \in o + 1 .. N : c[k] \in Seq(Entry)
      BY <2>2, <3>1
    <3> QED
      BY <1>7, <3>2, FromHereType
  <2> HIDE DEF In
  <2>3. N \in In
    BY <1>1, <2>1, <2>2, SetInduction
  <2>4. \A o \in 1 .. N : c[o] \in Seq(Entry)
    <3>1. \A o \in 1 .. N : o + N > N
      BY <1>1
    <3> QED
      BY <2>3, <3>1 DEF In
  <2>5. c = [o \in 1 .. N |-> c[o]]
    BY <1>6
  <2> QED
    BY <2>4, <2>5
<1> QED
  BY <1>6, <1>7, <1>8

(* An attribute the datagram holds whole, under its true length. *)
LEMMA TellsOne ==
    ASSUME NEW b \in Seq(Int), NEW D, NEW o \in 1 .. Len(b), NEW n \in Nat,
           b[o + 1] = 2 + n, o + n + 1 <= Len(b)
    PROVE  FromHere(b, D, o) = <<Line(b[o], SubSeq(b, o + 2, o + n + 1), FALSE)>> \o D[o + n + 2]
<1>1. /\ ~(Len(b) - o + 1 = 0) /\ ~(Len(b) - o + 1 < 2)
      /\ ~(2 + n < 2) /\ ~(2 + n > Len(b) - o + 1)
      /\ o + (2 + n) - 1 = o + n + 1 /\ o + (2 + n) = o + n + 2
  OBVIOUS
<1> QED
  BY <1>1, Zenon DEF FromHere

(* Whatever the datagram is, the decoder goes on only from a line that is  *)
(* not malformed.                                                          *)
LEMMA OnlyLastMalformed ==
    ASSUME NEW b \in Seq(Int)
    PROVE  \A n \in DOMAIN decodeAttrs(b) :
              decodeAttrs(b)[n].malformed => n = Len(decodeAttrs(b))
<1>1. PICK D \in [1 .. Len(b) + 1 -> Seq(Entry)] :
         /\ \A o \in 1 .. Len(b) + 1 : D[o] = FromHere(b, D, o)
         /\ decodeAttrs(b) = D[1]
  BY Decodes
<1> DEFINE N == Len(b) + 1
           Fine(s) == \A n \in 1 .. Len(s) : s[n].malformed => n = Len(s)
           In == {n \in Nat : \A o \in 1 .. N : o + n > N => Fine(D[o])}
<1>2. N \in Nat \ {0}
  OBVIOUS
<1>3. 0 \in In
  <2>1. \A o \in 1 .. N : ~(o + 0 > N)
    BY <1>2
  <2> QED
    BY <2>1
<1>4. ASSUME NEW n \in Nat, n \in In PROVE n + 1 \in In
  <2> SUFFICES ASSUME NEW o \in 1 .. N, o + (n + 1) > N PROVE Fine(D[o])
    OBVIOUS
  <2>1. \A k \in o + 1 .. N : k \in 1 .. N /\ k + n > N
    BY <1>2
  <2>2. \A k \in o + 1 .. N : Fine(D[k])
    BY <1>4, <2>1
  <2> HIDE DEF In
  <2>3. CASE D[o] = <<>>
    BY <2>3
  <2>4. ASSUME NEW e \in Entry, D[o] = <<e>> PROVE Fine(D[o])
    BY <2>4
  <2>5. ASSUME NEW e \in Entry, NEW k \in o + 1 .. N, ~e.malformed, D[o] = <<e>> \o D[k]
        PROVE  Fine(D[o])
    <3> DEFINE s == D[k]
               t == D[o]
    <3>1. <<e>> \in Seq(Entry) /\ Len(<<e>>) = 1 /\ <<e>>[1] = e
      OBVIOUS
    <3>6. s \in Seq(Entry)
      BY <2>1
    <3>2. Fine(s)
      BY <2>2
    <3>3. t = <<e>> \o s
      BY <2>5
    <3> HIDE DEF s, t
    <3>4. Len(t) = 1 + Len(s) /\ t[1] = e /\ \A x \in 1 .. Len(s) : t[1 + x] = s[x]
      BY <3>1, <3>3, <3>6
    <3>5. ASSUME NEW x \in 1 .. Len(t), t[x].malformed PROVE x = Len(t)
      <4>1. Len(s) \in Nat
        BY <3>6
      <4>2. x # 1
        BY <2>5, <3>4, <3>5
      <4>3. x - 1 \in 1 .. Len(s) /\ 1 + (x - 1) = x
        BY <3>4, <4>1, <4>2
      <4>4. s[x - 1].malformed
        BY <3>4, <3>5, <4>3
      <4>5. x - 1 = Len(s)
        BY <3>2, <4>3, <4>4
      <4> QED
        BY <3>4, <4>1, <4>5
    <3> QED
      BY <3>5 DEF t
  <2>6. D[o] = FromHere(b, D, o)
    BY <1>1
  <2> QED
    BY <2>3, <2>4, <2>5, <2>6, StopsOrGoesOn
<1> HIDE DEF In
<1>5. N \in In
  BY <1>2, <1>3, <1>4, SetInduction
<1>6. Fine(D[1])
  <2>1. 1 \in 1 .. N /\ 1 + N > N
    BY <1>2
  <2> QED
    BY <1>5, <2>1 DEF In
<1>7. DOMAIN D[1] = 1 .. Len(D[1])
  <2>1. 1 \in 1 .. N
    BY <1>2
  <2> QED
    BY <2>1
<1> QED
  BY <1>1, <1>6, <1>7
-------------------------------------------------------------------------------
(* Where the attributes of a packet are in its body. *)
Encoded(a) == <<a.type, lengthByte(a)>> \o a.value

LEMMA ByteModNat == ByteMod \in Nat \ {0} /\ ByteMod * ByteMod \in Nat \ {0} /\ Byte \subseteq Int
<1>1. ByteMod \in Nat \ {0}
  BY FuzzerAssumption
<1>2. \A m \in Nat \ {0} : m * m \in Nat \ {0}
  OBVIOUS
<1> QED
  BY <1>1, <1>2 DEF Byte

LEMMA LengthByteIsInt == ASSUME NEW a \in Attribute PROVE lengthByte(a) \in Int
<1>1. a.over \in Int /\ 2 + Len(a.value) \in Int
  BY DEF Attribute
<1>2. a.over % ByteMod \in Int /\ (2 + Len(a.value)) % ByteMod \in Int
  BY <1>1, ByteModNat
<1> QED
  BY <1>2 DEF lengthByte

LEMMA EncodedAs ==
    ASSUME NEW a \in Attribute
    PROVE  /\ Encoded(a) \in Seq(Int) /\ a.value \in Seq(Int)
           /\ Len(a.value) \in Nat /\ Len(Encoded(a)) = 2 + Len(a.value)
           /\ Encoded(a)[1] = a.type /\ Encoded(a)[2] = lengthByte(a)
           /\ \A k \in 1 .. Len(a.value) : Encoded(a)[2 + k] = a.value[k]
<1>1. a.type \in Int /\ a.value \in Seq(Int) /\ Len(a.value) \in Nat
  <2>1. a.type \in Byte /\ a.value \in Seq(Byte)
    BY DEF Attribute
  <2>2. a.value \in Seq(Int)
    BY <2>1, ByteModNat, SeqMonotonic
  <2> QED
    BY <2>1, <2>2, ByteModNat, LenProperties
<1> DEFINE t == a.type
           l == lengthByte(a)
           h == <<t, l>>
           v == a.value
<1>2. t \in Int /\ l \in Int
  BY <1>1, LengthByteIsInt
<1> HIDE DEF t, l
<1>3. h \in Seq(Int) /\ Len(h) = 2 /\ h[1] = t /\ h[2] = l
  BY <1>2
<1> HIDE DEF h, v
<1>7. v \in Seq(Int)
  BY <1>1 DEF v
<1>4. /\ h \o v \in Seq(Int) /\ Len(h \o v) = Len(h) + Len(v)
      /\ \A k \in 1 .. Len(h) : (h \o v)[k] = h[k]
      /\ \A k \in 1 .. Len(v) : (h \o v)[Len(h) + k] = v[k]
  <2>1. h \in Seq(Int)
    BY <1>3
  <2> QED
    BY <1>7, <2>1, Joined
<1>5. 1 \in 1 .. Len(h) /\ 2 \in 1 .. Len(h)
  BY <1>3
<1>6. Encoded(a) = h \o v
  BY DEF Encoded, h, t, l, v
<1> QED
  BY <1>1, <1>3, <1>4, <1>5, <1>6, Zenon DEF t, l, v

(* Room for an attribute, as SizeOf measures it. *)
LEMMA RoomFor ==
    ASSUME NEW v \in Seq(Int)
    PROVE  <<0, 0>> \o v \in Seq(Int) /\ Len(<<0, 0>> \o v) = 2 + Len(v)
<1>1. <<0, 0>> \in Seq(Int) /\ Len(<<0, 0>>) = 2
  OBVIOUS
<1> QED
  BY <1>1, ConcatProperties

Layout(p, size) ==
    LET attrs == p.attrs
        body == Body(p)
    IN  /\ size[0] = 0 /\ size[Len(attrs)] = Len(body)
        /\ \A n \in 1 .. Len(attrs) :
              /\ size[n] = size[n - 1] + 2 + Len(attrs[n].value) /\ size[n] <= Len(body)
              /\ body[size[n - 1] + 1] = attrs[n].type
              /\ body[size[n - 1] + 2] = lengthByte(attrs[n])
              /\ \A k \in 1 .. Len(attrs[n].value) : body[size[n - 1] + 2 + k] = attrs[n].value[k]

LEMMA LaidOut ==
    ASSUME NEW p, p.attrs \in Seq(Attribute)
    PROVE  /\ Body(p) \in Seq(Int)
           /\ \E size \in [0 .. Len(p.attrs) -> Nat] :
                /\ Layout(p, size)
                /\ \A n \in 0 .. Len(p.attrs) : SizeOf(SubSeq(p.attrs, 1, n)) = size[n]
<1> DEFINE attrs == p.attrs
           N == Len(attrs)
           seqs == [n \in DOMAIN attrs |-> Encoded(attrs[n])]
<1>1. N \in Nat /\ DOMAIN attrs = 1 .. N /\ \A n \in 1 .. N : attrs[n] \in Attribute
  OBVIOUS
<1>2. \A n \in 1 .. N : /\ Encoded(attrs[n]) \in Seq(Int) /\ attrs[n].value \in Seq(Int)
                        /\ Len(attrs[n].value) \in Nat
                        /\ Len(Encoded(attrs[n])) = 2 + Len(attrs[n].value)
  BY <1>1, EncodedAs
<1>3. seqs \in Seq(Seq(Int)) /\ Len(seqs) = N /\ \A n \in 1 .. N : seqs[n] = Encoded(attrs[n])
  BY <1>1, <1>2
<1>4. Body(p) = FlattenSeq(seqs)
  BY Zenon DEF Body, Encoded
<1> HIDE DEF seqs, N
<1>5. PICK f \in [0 .. N -> Seq(Int)] : Grows(f, seqs) /\ FlattenSeq(seqs) = f[N]
  BY <1>3, Flattens
<1> DEFINE size == [n \in 0 .. N |-> Len(f[n])]
<1>6. size \in [0 .. N -> Nat] /\ \A n \in 0 .. N : size[n] = Len(f[n])
  BY <1>5
<1> HIDE DEF size
<1>7. Body(p) \in Seq(Int) /\ Body(p) = f[N] /\ size[N] = Len(Body(p))
  BY <1>1, <1>4, <1>5, <1>6
<1>8. size[0] = 0
  BY <1>1, <1>5, <1>6 DEF Grows
<1>9. ASSUME NEW n \in 1 .. N
      PROVE  /\ size[n] = size[n - 1] + 2 + Len(attrs[n].value) /\ size[n] <= Len(Body(p))
             /\ Body(p)[size[n - 1] + 1] = attrs[n].type
             /\ Body(p)[size[n - 1] + 2] = lengthByte(attrs[n])
             /\ \A k \in 1 .. Len(attrs[n].value) : Body(p)[size[n - 1] + 2 + k] = attrs[n].value[k]
  <2> DEFINE e == Encoded(attrs[n])
             v == attrs[n].value
             s == f[n - 1]
             t == f[n]
             b == Body(p)
  <2>1. n \in 0 .. N /\ n - 1 \in 0 .. N /\ N \in n .. N
    BY <1>1
  <2>2. s \in Seq(Int) /\ e \in Seq(Int) /\ Len(v) \in Nat /\ Len(e) = 2 + Len(v)
    BY <1>2, <1>5, <2>1
  <2>3. t = s \o e
    BY <1>3, <1>5 DEF Grows
  <2>4. e[1] = attrs[n].type /\ e[2] = lengthByte(attrs[n]) /\ \A k \in 1 .. Len(v) : e[2 + k] = v[k]
    BY <1>1, EncodedAs
  <2>5. size[n - 1] = Len(s) /\ size[n] = Len(t)
    BY <1>6, <2>1
  <2>6. Len(t) <= Len(b) /\ \A k \in 1 .. Len(t) : b[k] = t[k]
    <3>1. /\ f \in [0 .. Len(seqs) -> Seq(Int)] /\ seqs \in Seq(Seq(Int))
          /\ n \in 0 .. Len(seqs) /\ N \in n .. Len(seqs)
      BY <1>3, <1>5, <2>1
    <3>2. Len(f[n]) <= Len(f[N]) /\ \A k \in 1 .. Len(f[n]) : f[N][k] = f[n][k]
      <4>1. Begins(f[n], f[N])
        BY <1>5, <3>1, GrowsKeeping
      <4> QED
        BY <4>1, Zenon DEF Begins
    <3> QED
      BY <1>7, <3>2
  <2> HIDE DEF e, v, s, t, b
  <2>7. Len(t) = Len(s) + Len(e) /\ \A k \in 1 .. Len(e) : t[Len(s) + k] = e[k]
    <3>1. s \in Seq(Int) /\ e \in Seq(Int)
      BY <2>2
    <3>2. Len(s \o e) = Len(s) + Len(e) /\ \A k \in 1 .. Len(e) : (s \o e)[Len(s) + k] = e[k]
      BY <3>1, Joined
    <3> QED
      BY <2>3, <3>2
  <2>8. Len(s) \in Nat
    BY <2>2
  <2>9. \A k \in 1 .. Len(e) : Len(s) + k \in 1 .. Len(t)
    BY <2>2, <2>7, <2>8
  <2>10. \A k \in 1 .. Len(e) : b[Len(s) + k] = e[k]
    BY <2>6, <2>7, <2>9, Zenon
  <2>11. 1 \in 1 .. Len(e) /\ 2 \in 1 .. Len(e) /\ \A k \in 1 .. Len(v) : 2 + k \in 1 .. Len(e)
    BY <2>2
  <2>12. \A k \in 1 .. Len(v) : Len(s) + (2 + k) = Len(s) + 2 + k
    BY <2>8
  <2>13. \A k \in 1 .. Len(v) : b[Len(s) + 2 + k] = v[k]
    BY <2>4, <2>10, <2>11, <2>12
  <2>14. Len(t) = Len(s) + 2 + Len(v)
    BY <2>2, <2>7, <2>8
  <2> QED
    BY <2>4, <2>5, <2>6, <2>10, <2>11, <2>13, <2>14, Zenon DEF b, v
<1>10. Layout(p, size)
  BY <1>7, <1>8, <1>9 DEF Layout, N
<1>11. ASSUME NEW n \in 0 .. N PROVE SizeOf(SubSeq(attrs, 1, n)) = size[n]
  <2> DEFINE part == SubSeq(attrs, 1, n)
             rooms == [k \in DOMAIN part |-> <<0, 0>> \o part[k].value]
  <2>1. part \in Seq(Attribute) /\ Len(part) = n /\ DOMAIN part = 1 .. n
        /\ \A k \in 1 .. n : part[k] = attrs[k]
    BY <1>1 DEF N
  <2>2. \A k \in 1 .. n : k \in 1 .. N
    BY <1>1
  <2>3. \A k \in 1 .. n : /\ <<0, 0>> \o part[k].value \in Seq(Int)
                          /\ Len(<<0, 0>> \o part[k].value) = Len(Encoded(attrs[k]))
    BY <1>2, <2>1, <2>2, RoomFor
  <2>4. SizeOf(part) = Len(FlattenSeq(rooms))
    BY Zenon DEF SizeOf
  <2>5. /\ rooms \in Seq(Seq(Int)) /\ Len(rooms) = n
        /\ \A k \in 1 .. n : rooms[k] = <<0, 0>> \o part[k].value
    <3>1. rooms = [k \in 1 .. n |-> <<0, 0>> \o part[k].value]
      BY <2>1
    <3>2. \A k \in 1 .. n : <<0, 0>> \o part[k].value \in Seq(Int)
      BY <2>3
    <3>3. n \in Nat
      BY <1>1
    <3> HIDE DEF part, rooms
    <3> QED
      BY <3>1, <3>2, <3>3
  <2> HIDE DEF part, rooms
  <2>6. PICK g \in [0 .. n -> Seq(Int)] : Grows(g, rooms) /\ FlattenSeq(rooms) = g[n]
    BY <2>5, Flattens
  <2>7. \A k \in 1 .. n : Len(rooms[k]) = Len(seqs[k])
    BY <1>3, <2>2, <2>3, <2>5
  <2>8. n <= N /\ n \in 0 .. n
    BY <1>1
  <2>9. Len(g[n]) = Len(f[n])
    <3>1. f \in [0 .. Len(seqs) -> Seq(Int)] /\ g \in [0 .. Len(rooms) -> Seq(Int)]
      BY <1>3, <1>5, <2>5, <2>6
    <3>2. SameLengths(seqs, rooms)
      BY <2>5, <2>7 DEF SameLengths
    <3>3. Len(rooms) <= Len(seqs)
      BY <1>3, <2>5, <2>8
    <3>4. SameLengths(f, g)
      BY <1>3, <1>5, <2>5, <2>6, <3>1, <3>2, <3>3, GrowAlike
    <3> QED
      BY <2>6, <2>8, <3>4 DEF SameLengths
  <2> QED
    BY <1>6, <2>4, <2>6, <2>9 DEF part
<1> QED
  BY <1>6, <1>7, <1>10, <1>11 DEF N

(* What the length field leaves of the body. *)
LEMMA ShownOf ==
    ASSUME NEW p, Body(p) \in Seq(Int), p.over \in Int
    PROVE  /\ Shown(Build(p)) \in Seq(Int) /\ Len(Shown(Build(p))) <= Len(Body(p))
           /\ \A k \in 1 .. Len(Shown(Build(p))) : Shown(Build(p))[k] = Body(p)[k]
<1> DEFINE field == IF p.over >= 0 THEN p.over ELSE 20 + Len(Body(p))
           raw == Build(p)
           b == Body(p)
<1>1. field \in Int
  OBVIOUS
<1>2. raw.length = field % (ByteMod * ByteMod) /\ raw.body = b
  BY DEF Build
<1>3. raw.length \in Int
  BY <1>1, <1>2, ByteModNat
<1>4. b \in Seq(Int) /\ Len(b) \in Nat
  OBVIOUS
<1> HIDE DEF raw, b
<1>5. CASE raw.length >= 20 /\ raw.length <= 20 + Len(b)
  <2> DEFINE l == raw.length - 20
  <2>1. l \in 0 .. Len(b)
    BY <1>3, <1>4, <1>5
  <2>2. Shown(raw) = SubSeq(b, 1, l)
    BY <1>2, <1>5 DEF Shown
  <2> HIDE DEF l
  <2> QED
    BY <1>4, <2>1, <2>2 DEF raw, b
<1>6. CASE ~(raw.length >= 20 /\ raw.length <= 20 + Len(b))
  <2>1. Shown(raw) = b
    BY <1>2, <1>6 DEF Shown
  <2> QED
    BY <1>4, <2>1 DEF raw, b
<1> QED
  BY <1>5, <1>6

(* The dump d of the packet p, as DumpFaithful wants it. *)
Told(p, n) ==
    /\ \A m \in 1 .. n : Truthful(p.attrs[m])
    /\ SizeOf(SubSeq(p.attrs, 1, n)) <= Len(Shown(Build(p)))
Tells(p, d) ==
    /\ \A n \in DOMAIN p.attrs : Told(p, n) =>
          /\ n <= Len(d) /\ ~d[n].malformed
          /\ d[n].type = p.attrs[n].type /\ d[n].value = p.attrs[n].value
    /\ Told(p, Len(p.attrs)) /\ Len(Shown(Build(p))) = SizeOf(p.attrs) => Len(d) = Len(p.attrs)
    /\ \A n \in DOMAIN d : d[n].malformed => n = Len(d)

LEMMA TruthfulLength ==
    ASSUME NEW a \in Attribute, Truthful(a)
    PROVE  lengthByte(a) = 2 + Len(a.value)
<1>1. a.over \in Int /\ Len(a.value) \in Nat
  BY DEF Attribute
<1>2. CASE a.over >= 0
  BY <1>2 DEF Truthful, lengthByte
<1>3. CASE ~(a.over >= 0)
  <2>1. 2 + Len(a.value) < ByteMod
    BY <1>3 DEF Truthful
  <2>2. (2 + Len(a.value)) % ByteMod = 2 + Len(a.value)
    <3>1. \A x, m \in Nat : x < m => x % m = x
      OBVIOUS
    <3>2. 2 + Len(a.value) \in Nat /\ ByteMod \in Nat
      BY <1>1, ByteModNat
    <3> QED
      BY <2>1, <3>1, <3>2, Zenon
  <2> QED
    BY <1>3, <2>2 DEF lengthByte
<1> QED
  BY <1>2, <1>3

(* The lines of the first n attributes, and whatever follows them. *)
LinesThen(s, attrs, n, rest) ==
    /\ Len(s) = n + Len(rest)
    /\ \A k \in 1 .. n : s[k] = Line(attrs[k].type, attrs[k].value, FALSE)
    /\ \A k \in 1 .. Len(rest) : s[n + k] = rest[k]

LEMMA DumpTells ==
    ASSUME NEW p, p.attrs \in Seq(Attribute), p.over \in Int
    PROVE  Tells(p, dumpPacket(Build(p)))
<1> DEFINE attrs == p.attrs
           N == Len(attrs)
           body == Body(p)
           b == Shown(Build(p))
           L == Len(b)
           d == dumpPacket(Build(p))
<1>1. N \in Nat /\ DOMAIN attrs = 1 .. N /\ \A n \in 1 .. N : attrs[n] \in Attribute
  OBVIOUS
<1>2. PICK size \in [0 .. N -> Nat] :
         /\ Layout(p, size)
         /\ \A n \in 0 .. N : SizeOf(SubSeq(attrs, 1, n)) = size[n]
  BY LaidOut
<1>3. body \in Seq(Int) /\ b \in Seq(Int) /\ L <= Len(body) /\ \A k \in 1 .. L : b[k] = body[k]
  BY LaidOut, ShownOf
<1>4. PICK D \in [1 .. L + 1 -> Seq(Entry)] :
         /\ \A o \in 1 .. L + 1 : D[o] = FromHere(b, D, o)
         /\ d = D[1]
  BY <1>3, Decodes DEF dumpPacket
<1>5. /\ size[0] = 0 /\ size[N] = Len(body)
      /\ \A n \in 1 .. N :
            /\ size[n] = size[n - 1] + 2 + Len(attrs[n].value) /\ size[n] <= Len(body)
            /\ body[size[n - 1] + 1] = attrs[n].type
            /\ body[size[n - 1] + 2] = lengthByte(attrs[n])
            /\ \A k \in 1 .. Len(attrs[n].value) : body[size[n - 1] + 2 + k] = attrs[n].value[k]
  BY <1>2, Zenon DEF Layout
<1>6. \A n \in 0 .. N : Told(p, n) <=> (\A m \in 1 .. n : Truthful(attrs[m])) /\ size[n] <= L
  BY <1>2 DEF Told
<1>l. L \in Nat
  BY <1>3
<1> HIDE DEF attrs, N, body, b, L, d
(* One attribute more. *)
<1>7. ASSUME NEW n \in 1 .. N, Truthful(attrs[n]), size[n] <= L
      PROVE  D[size[n - 1] + 1]
               = <<Line(attrs[n].type, attrs[n].value, FALSE)>> \o D[size[n] + 1]
  <2> DEFINE o == size[n - 1] + 1
             v == attrs[n].value
  <2>1. size[n - 1] \in Nat /\ size[n] \in Nat /\ attrs[n] \in Attribute
    BY <1>1, <1>2
  <2>2. v \in Seq(Int) /\ Len(v) \in Nat
    BY <2>1, EncodedAs
  <2>3. size[n] = size[n - 1] + 2 + Len(v)
    BY <1>5
  <2>4. /\ o \in 1 .. L /\ o + 1 \in 1 .. L /\ o \in 1 .. L + 1
        /\ o + Len(v) + 1 <= L /\ o + Len(v) + 1 = size[n] /\ o + Len(v) + 2 = size[n] + 1
    <3> DEFINE x == size[n - 1]
               y == size[n]
               l == Len(v)
    <3>1. x \in Nat /\ y \in Nat /\ l \in Nat /\ y = x + 2 + l /\ y <= L
      BY <1>7, <2>1, <2>2, <2>3
    <3> HIDE DEF x, y, l
    <3>2. /\ x + 1 \in 1 .. L /\ x + 1 + 1 \in 1 .. L /\ x + 1 \in 1 .. L + 1
          /\ x + 1 + l + 1 <= L /\ x + 1 + l + 1 = y /\ x + 1 + l + 2 = y + 1
      BY <1>l, <3>1
    <3> QED
      BY <3>2, Zenon DEF x, y, l
  <2>5. b[o] = attrs[n].type
    BY <1>3, <1>5, <2>4
  <2>6. b[o + 1] = 2 + Len(v)
    <3>1. o + 1 = size[n - 1] + 2
      BY <2>1
    <3>2. body[o + 1] = lengthByte(attrs[n])
      BY <1>5, <3>1
    <3>3. b[o + 1] = body[o + 1]
      BY <1>3, <2>4
    <3>4. lengthByte(attrs[n]) = 2 + Len(v)
      BY <1>7, <2>1, TruthfulLength
    <3> QED
      BY <3>2, <3>3, <3>4, Zenon
  <2>7. \A k \in 1 .. Len(v) : b[o + 2 + k - 1] = v[k]
    <3> TAKE k \in 1 .. Len(v)
    <3>1. o + 2 + k - 1 = size[n - 1] + 2 + k /\ size[n - 1] + 2 + k \in 1 .. L
      <4> DEFINE x == size[n - 1]
                 y == size[n]
                 l == Len(v)
      <4>1. x \in Nat /\ l \in Nat /\ x + 1 + l + 1 <= L /\ k \in 1 .. l
        BY <2>1, <2>2, <2>4
      <4> HIDE DEF x, y, l
      <4>2. x + 1 + 2 + k - 1 = x + 2 + k /\ x + 2 + k \in 1 .. L
        BY <1>l, <4>1
      <4> QED
        BY <4>2, Zenon DEF x, y, l
    <3>2. body[size[n - 1] + 2 + k] = v[k]
      BY <1>5
    <3> QED
      BY <1>3, <3>1, <3>2
  <2> HIDE DEF o, v
  <2>8. SubSeq(b, o + 2, o + Len(v) + 1) = v
    <3> DEFINE x == SubSeq(b, o + 2, o + Len(v) + 1)
    <3>1. o \in Nat
      BY <2>4
    <3>2. x \in Seq(Int) /\ Len(x) = Len(v) /\ \A k \in 1 .. Len(v) : x[k] = b[o + 2 + k - 1]
      <4> DEFINE i1 == o + 2
                 i2 == o + Len(v) + 1
      <4>1. i1 \in Int /\ i2 \in Int /\ i1 \in Nat \ {0} /\ i2 <= Len(b) /\ i2 - i1 + 1 = Len(v)
            /\ (i1 <= i2 \/ Len(v) = 0)
        BY <2>2, <2>4, <3>1 DEF L
      <4> HIDE DEF i1, i2
      <4>2. \A k \in i1 .. i2 : b[k] \in Int
        BY <1>3, <4>1
      <4>3. /\ SubSeq(b, i1, i2) \in Seq(Int)
            /\ Len(SubSeq(b, i1, i2)) = IF i1 <= i2 THEN i2 - i1 + 1 ELSE 0
            /\ \A k \in 1 .. i2 - i1 + 1 : SubSeq(b, i1, i2)[k] = b[i1 + k - 1]
        BY <4>1, <4>2, SubSeqProperties
      <4>4. Len(SubSeq(b, i1, i2)) = Len(v)
        BY <2>2, <4>1, <4>3
      <4> QED
        BY <4>1, <4>3, <4>4, Zenon DEF i1, i2
    <3> HIDE DEF x
    <3>3. \A k \in 1 .. Len(x) : x[k] = v[k]
      BY <2>7, <3>2
    <3>4. x = v
      BY <2>2, <3>2, <3>3, SeqEqual
    <3> QED
      BY <3>4 DEF x
  <2>9. FromHere(b, D, o)
          = <<Line(b[o], SubSeq(b, o + 2, o + Len(v) + 1), FALSE)>> \o D[o + Len(v) + 2]
    BY <1>3, <2>2, <2>4, <2>6, TellsOne DEF L
  <2>10. D[o] = FromHere(b, D, o)
    BY <1>4, <2>4
  <2> QED
    BY <2>4, <2>5, <2>8, <2>9, <2>10, Zenon DEF o, v
(* All the attributes that can be told. *)
<1> DEFINE Goes(n) == LinesThen(D[1], attrs, n, D[size[n] + 1])
           In == {n \in Nat : n <= N /\ Told(p, n) => Goes(n)}
<1>8. 0 \in In
  <2>1. size[0] + 1 = 1 /\ D[1] \in Seq(Entry)
    BY <1>5, <1>4, <1>l
  <2>2. \A s \in Seq(Entry) : LinesThen(s, attrs, 0, s)
    BY DEF LinesThen
  <2> QED
    BY <2>1, <2>2
<1>9. ASSUME NEW n \in Nat, n \in In PROVE n + 1 \in In
  <2> DEFINE m == n + 1
  <2> SUFFICES ASSUME m <= N, Told(p, m) PROVE Goes(m)
    OBVIOUS
  <2>1. m \in 1 .. N /\ m \in 0 .. N /\ n \in 0 .. N /\ m - 1 = n /\ \A k \in 1 .. n : k \in 1 .. m
    BY <1>1
  <2>2. size[n] \in Nat /\ size[m] \in Nat /\ size[n] <= size[m] /\ size[m] <= L
    <3>1. size[n] \in Nat /\ size[m] \in Nat /\ size[m] <= L
      BY <1>2, <1>6, <2>1
    <3>2. attrs[m] \in Attribute
      BY <1>1, <2>1
    <3>3. Len(attrs[m].value) \in Nat
      BY <3>2, EncodedAs
    <3>4. size[m] = size[n] + 2 + Len(attrs[m].value)
      BY <1>5, <2>1
    <3> QED
      BY <3>1, <3>3, <3>4
  <2>3. \A k \in 1 .. m : Truthful(attrs[k])
    BY <1>6, <2>1
  <2>4. Told(p, n)
    BY <1>6, <1>l, <2>1, <2>2, <2>3
  <2>5. Goes(n)
    BY <1>9, <2>1, <2>4
  <2> DEFINE e == Line(attrs[m].type, attrs[m].value, FALSE)
             t == D[size[n] + 1]
             u == D[size[m] + 1]
  <2>6. t = <<e>> \o u
    <3>1. Truthful(attrs[m])
      BY <2>1, <2>3
    <3> QED
      BY <1>7, <2>1, <2>2, <3>1
  <2>7. D[1] \in Seq(Entry) /\ u \in Seq(Entry) /\ t \in Seq(Entry)
    <3>1. size[n] + 1 \in 1 .. L + 1 /\ size[m] + 1 \in 1 .. L + 1 /\ 1 \in 1 .. L + 1
      BY <1>l, <2>2
    <3> QED
      BY <1>4, <3>1
  <2>8. e \in Entry
    <3>1. attrs[m] \in Attribute
      BY <1>1, <2>1
    <3> QED
      BY <3>1, EncodedAs, ByteModNat DEF Line, Entry, Attribute
  <2> HIDE DEF m, e, t, u, In
  <2>9. LinesThen(D[1], attrs, m, u)
    <3> DEFINE s == D[1]
    <3>1. /\ Len(s) = n + Len(t)
          /\ \A k \in 1 .. n : s[k] = Line(attrs[k].type, attrs[k].value, FALSE)
          /\ \A k \in 1 .. Len(t) : s[n + k] = t[k]
      BY <2>5 DEF LinesThen, t
    <3>2. Len(t) = 1 + Len(u) /\ t[1] = e /\ \A k \in 1 .. Len(u) : t[1 + k] = u[k]
      <4>1. <<e>> \in Seq(Entry) /\ Len(<<e>>) = 1 /\ <<e>>[1] = e
        BY <2>8
      <4>2. /\ Len(<<e>> \o u) = Len(<<e>>) + Len(u)
            /\ \A k \in 1 .. Len(<<e>>) : (<<e>> \o u)[k] = <<e>>[k]
            /\ \A k \in 1 .. Len(u) : (<<e>> \o u)[Len(<<e>>) + k] = u[k]
        BY <2>7, <4>1, Joined
      <4> QED
        BY <2>6, <4>1, <4>2
    <3>3. Len(u) \in Nat /\ Len(t) \in Nat /\ Len(s) \in Nat
      BY <2>7
    <3> HIDE DEF s
    <3>4. m = n + 1
      BY DEF m
    <3>5. Len(s) = m + Len(u)
      BY <3>1, <3>2, <3>3, <3>4
    <3>6. s[m] = e
      <4>1. 1 \in 1 .. Len(t)
        BY <3>2, <3>3
      <4> QED
        BY <3>1, <3>2, <3>4, <4>1
    <3>7. \A k \in 1 .. m : s[k] = Line(attrs[k].type, attrs[k].value, FALSE)
      <4>1. \A k \in 1 .. m : k \in 1 .. n \/ k = m
        BY <3>4
      <4> QED
        BY <3>1, <3>6, <4>1 DEF e
    <3>8. \A k \in 1 .. Len(u) : s[m + k] = u[k]
      <4> TAKE k \in 1 .. Len(u)
      <4>1. 1 + k \in 1 .. Len(t) /\ n + (1 + k) = m + k
        BY <3>2, <3>3, <3>4
      <4> QED
        BY <3>1, <3>2, <4>1
    <3> QED
      BY <3>5, <3>7, <3>8 DEF LinesThen, s
  <2> QED
    BY <2>9 DEF u
<1> HIDE DEF In
<1>10. ASSUME NEW n \in 0 .. N, Told(p, n) PROVE Goes(n)
  <2>1. n \in In /\ n <= N
    <3>1. Nat \subseteq In
      BY <1>8, <1>9, SetInduction
    <3> QED
      BY <1>1, <3>1
  <2> QED
    BY <1>10, <2>1 DEF In
<1>11. ASSUME NEW n \in 1 .. N, Told(p, n)
       PROVE  /\ n <= Len(d) /\ ~d[n].malformed
              /\ d[n].type = attrs[n].type /\ d[n].value = attrs[n].value
  <2>1. n \in 0 .. N /\ n \in 1 .. n /\ n \in Nat
    BY <1>1
  <2>2. Goes(n)
    BY <1>10, <1>11, <2>1
  <2>3. Len(d) = n + Len(D[size[n] + 1]) /\ d[n] = Line(attrs[n].type, attrs[n].value, FALSE)
    BY <1>4, <2>1, <2>2 DEF LinesThen
  <2>4. Len(D[size[n] + 1]) \in Nat
    <3>1. size[n] \in Nat /\ size[n] <= L
      BY <1>2, <1>6, <1>11, <2>1
    <3>2. size[n] + 1 \in 1 .. L + 1
      BY <1>l, <3>1
    <3> QED
      BY <1>4, <3>2
  <2>5. n <= Len(d)
    BY <2>1, <2>3, <2>4
  <2> QED
    BY <2>3, <2>5 DEF Line
<1>12. ASSUME Told(p, N), L = SizeOf(attrs) PROVE Len(d) = N
  <2>1. SubSeq(attrs, 1, N) = attrs
    BY DEF N, attrs
  <2>2. N \in 0 .. N
    BY <1>1
  <2>3. size[N] = L
    BY <1>2, <1>12, <2>1, <2>2
  <2>4. Len(d) = N + Len(D[L + 1])
    BY <1>4, <1>10, <1>12, <2>2, <2>3 DEF LinesThen
  <2>5. D[L + 1] = <<>>
    <3>1. L + 1 \in 1 .. L + 1 /\ L - (L + 1) + 1 = 0
      BY <1>l
    <3>2. FromHere(b, D, L + 1) = <<>>
      BY <3>1, Zenon DEF FromHere, L
    <3> QED
      BY <1>4, <3>1, <3>2
  <2> QED
    BY <1>1, <2>4, <2>5
<1>13. \A n \in DOMAIN d : d[n].malformed => n = Len(d)
  BY <1>3, OnlyLastMalformed, Zenon DEF d, dumpPacket, b
<1> QED
  BY <1>1, <1>11, <1>12, <1>13 DEF Tells, attrs, N, b, L, d
-------------------------------------------------------------------------------
(* A mutation of a packet is a packet. *)
LEMMA WithAttr ==
    ASSUME NEW p \in PacketType, NEW n \in DOMAIN p.attrs, NEW a \in Attribute
    PROVE  At(p, n, a) \in PacketType
<1>1. p.attrs \in Seq(Attribute) /\ n \in 1 .. Len(p.attrs)
  BY DEF PacketType
<1>2. [p.attrs EXCEPT ![n] = a] \in Seq(Attribute)
  BY <1>1, ExceptSeq
<1>3. At(p, n, a) = [p EXCEPT !.attrs = [p.attrs EXCEPT ![n] = a]]
  BY DEF At
<1> HIDE DEF At
<1> QED
  BY <1>2, <1>3 DEF PacketType

LEMMA WithValue ==
    ASSUME NEW p \in PacketType, NEW n \in DOMAIN p.attrs, NEW v \in Seq(Byte)
    PROVE  At(p, n, [p.attrs[n] EXCEPT !.value = v]) \in PacketType
<1>1. p.attrs[n] \in Attribute
  BY DEF PacketType
<1>2. [p.attrs[n] EXCEPT !.value = v] \in Attribute
  BY <1>1 DEF Attribute
<1> QED
  BY <1>2, WithAttr

LEMMA WithMore ==
    ASSUME NEW p \in PacketType, NEW a \in Attribute
    PROVE  Add(p, a) \in PacketType
<1>1. Append(p.attrs, a) \in Seq(Attribute)
  BY DEF PacketType
<1> QED
  BY <1>1 DEF Add, PacketType

LEMMA RandomValueType ==
    ASSUME NEW sizes, sizes \subseteq Nat, NEW v \in RandomValue(sizes)
    PROVE  v \in Seq(Byte)
<1>1. PICK b \in RandomBytes, n \in sizes : v = Repeat(b, n)
  BY DEF RandomValue
<1>2. b \in Byte /\ n \in Nat
  BY <1>1, FuzzerAssumption
<1> QED
  BY <1>1, <1>2 DEF Repeat

LEMMA MutationType ==
    ASSUME NEW p \in PacketType, NEW q \in fuzzMutation(p)
    PROVE  q \in PacketType
<1>1. /\ p.attrs \in Seq(Attribute) /\ RandomBytes \subseteq Byte /\ Byte \subseteq Int
      /\ \A n \in DOMAIN p.attrs : p.attrs[n] \in Attribute /\ p.attrs[n].value \in Seq(Byte)
  <2>1. p.attrs \in Seq(Attribute) /\ RandomBytes \subseteq Byte /\ Byte \subseteq Int
    BY FuzzerAssumption, ByteModNat DEF PacketType
  <2>2. \A n \in DOMAIN p.attrs : p.attrs[n] \in Attribute
    BY <2>1
  <2>3. \A a \in Attribute : a.value \in Seq(Byte)
    BY DEF Attribute
  <2> QED
    BY <2>1, <2>2, <2>3
<1>2. CASE q \in BitflipValue(p)
  <2>5. PICK n \in DOMAIN p.attrs :
          \E m \in DOMAIN p.attrs[n].value : \E b \in Flipped(p.attrs[n].value[m]) :
             q = At(p, n, [p.attrs[n] EXCEPT !.value[m] = b])
    BY <1>2 DEF BitflipValue
  <2>6. PICK m \in DOMAIN p.attrs[n].value :
          \E b \in Flipped(p.attrs[n].value[m]) : q = At(p, n, [p.attrs[n] EXCEPT !.value[m] = b])
    BY <2>5
  <2>1. PICK b \in Flipped(p.attrs[n].value[m]) : q = At(p, n, [p.attrs[n] EXCEPT !.value[m] = b])
    BY <2>6
  <2>2. b \in Byte
    BY DEF Flipped
  <2>3. [p.attrs[n] EXCEPT !.value[m] = b]
          = [p.attrs[n] EXCEPT !.value = [p.attrs[n].value EXCEPT ![m] = b]]
    OBVIOUS
  <2>4. [p.attrs[n].value EXCEPT ![m] = b] \in Seq(Byte)
    <3>1. p.attrs[n].value \in Seq(Byte) /\ m \in 1 .. Len(p.attrs[n].value)
      BY <1>1
    <3> QED
      BY <2>2, <3>1, ExceptSeq
  <2> QED
    BY <2>1, <2>3, <2>4, WithValue
<1>3. CASE q \in TruncateValue(p)
  <2>3. PICK n \in DOMAIN p.attrs : \E m \in 0 .. Len(p.attrs[n].value) - 1 :
          q = At(p, n, [p.attrs[n] EXCEPT !.value = SubSeq(p.attrs[n].value, 1, m)])
    BY <1>3 DEF TruncateValue
  <2>1. PICK m \in 0 .. Len(p.attrs[n].value) - 1 :
          q = At(p, n, [p.attrs[n] EXCEPT !.value = SubSeq(p.attrs[n].value, 1, m)])
    BY <2>3
  <2>2. SubSeq(p.attrs[n].value, 1, m) \in Seq(Byte)
    <3>1. p.attrs[n].value \in Seq(Byte)
      BY <1>1
    <3>2. m \in Int /\ m <= Len(p.attrs[n].value)
      BY <3>1
    <3> QED
      BY <3>1, <3>2
  <2> QED
    BY <2>1, <2>2, WithValue
<1>4. CASE q \in OversizeValue(p)
  <2>1. PICK n \in DOMAIN p.attrs, pad \in RandomValue(PadSizes) :
          q = At(p, n, [p.attrs[n] EXCEPT !.value = p.attrs[n].value \o pad])
    BY <1>4 DEF OversizeValue
  <2>2. p.attrs[n].value \in Seq(Byte) /\ pad \in Seq(Byte)
    BY <1>1, FuzzerAssumption, RandomValueType
  <2>3. p.attrs[n].value \o pad \in Seq(Byte)
    BY <2>2, ConcatProperties
  <2> QED
    BY <2>1, <2>3, WithValue
<1>5. CASE q \in EmptyValue(p)
  <2>1. PICK n \in DOMAIN p.attrs : q = At(p, n, [p.attrs[n] EXCEPT !.value = <<>>])
    BY <1>5 DEF EmptyValue
  <2>2. <<>> \in Seq(Byte)
    OBVIOUS
  <2> QED
    BY <2>1, <2>2, WithValue
<1>6. CASE q \in BadLengthByte(p)
  <2>1. PICK n \in DOMAIN p.attrs, l \in Byte : q = At(p, n, [p.attrs[n] EXCEPT !.over = l])
    BY <1>6 DEF BadLengthByte
  <2>2. [p.attrs[n] EXCEPT !.over = l] \in Attribute
    BY <1>1 DEF Attribute
  <2> QED
    BY <2>1, <2>2, WithAttr
<1>7. CASE q \in DuplicateAttr(p)
  <2>1. PICK n \in DOMAIN p.attrs : q = Add(p, p.attrs[n])
    BY <1>7 DEF DuplicateAttr
  <2> QED
    BY <1>1, <2>1, WithMore
<1>8. CASE q \in GarbageAttr(p)
  <2>1. PICK t \in RandomBytes, v \in RandomValue(GarbageSizes) : q = Add(p, Attr(t, v))
    BY <1>8 DEF GarbageAttr
  <2>2. v \in Seq(Byte) /\ t \in Byte
    BY <1>1, FuzzerAssumption, RandomValueType
  <2>3. Attr(t, v) \in Attribute
    BY <2>2 DEF Attr, Derived, Attribute
  <2> QED
    BY <2>1, <2>3, WithMore
<1>9. CASE q \in CorruptTotalLength(p)
  <2>1. PICK d \in -20 .. 20 : q = [p EXCEPT !.over = 20 + Len(Body(p)) + d]
    BY <1>9 DEF CorruptTotalLength
  <2>2. Len(Body(p)) \in Nat
    BY <1>1, LaidOut, LenProperties
  <2>3. 20 + Len(Body(p)) + d \in Int
    BY <2>2
  <2> QED
    BY <2>1, <2>3 DEF PacketType
<1>10. CASE q \in InvalidCode(p)
  BY <1>1, <1>10 DEF InvalidCode, PacketType
<1>11. CASE q \in ExtremeId(p)
  <2>1. PICK b \in {0, 1, ByteMod \div 2 - 1, ByteMod \div 2, ByteMod - 1} : q = [p EXCEPT !.id = b]
    BY <1>11 DEF ExtremeId
  <2>2. b \in Int
    BY ByteModNat
  <2> QED
    BY <2>1, <2>2 DEF PacketType
<1>12. CASE q \in StripAttributes(p)
  <2>1. q = [p EXCEPT !.attrs = <<>>] /\ <<>> \in Seq(Attribute)
    BY <1>12 DEF StripAttributes
  <2> QED
    BY <2>1 DEF PacketType
<1> QED
  BY <1>2, <1>3, <1>4, <1>5, <1>6, <1>7, <1>8, <1>9, <1>10, <1>11, <1>12 DEF fuzzMutation

-------------------------------------------------------------------------------
(* DumpFaithful, of a packet and its dump. *)
LEMMA FaithfulStep == FuzzedInv /\ DumpFaithful /\ [BNext]_bvars => DumpFaithful'
<1> SUFFICES ASSUME FuzzedInv, DumpFaithful, [BNext]_bvars PROVE DumpFaithful'
  OBVIOUS
<1>1. ASSUME pkt' \in PacketType, dumped' = dumpPacket(Build(pkt')) PROVE DumpFaithful'
  <2>1. pkt'.attrs \in Seq(Attribute) /\ pkt'.over \in Int
    BY <1>1 DEF PacketType
  <2>2. Tells(pkt', dumped')
    BY <1>1, <2>1, DumpTells
  <2> QED
    BY <2>2, Zenon DEF Tells, Told, DumpFaithful
<1>2. ASSUME UNCHANGED <<pkt, dumped>> PROVE DumpFaithful'
  BY <1>2, Zenon DEF DumpFaithful
<1>3. CASE BuildBase
  BY <1>2, <1>3 DEF BuildBase
<1>4. CASE Exchange
  <2>1. phase = "send" /\ pkt' = base /\ dumped' = dumpPacket(Build(base))
    BY <1>4 DEF Exchange
  <2>2. base \in PacketType
    BY <2>1 DEF FuzzedInv
  <2> QED
    BY <1>1, <2>1, <2>2
<1>5. CASE Mutate
  <2>1. phase = "mutate" /\ pkt' \in fuzzMutation(base) /\ dumped' = dumpPacket(Build(pkt'))
    BY <1>5 DEF Mutate
  <2>2. base \in PacketType
    BY <2>1 DEF FuzzedInv
  <2>3. pkt' \in PacketType
    BY <2>1, <2>2, MutationType
  <2> QED
    BY <1>1, <2>1, <2>3
<1>6. CASE ExchangeRaw
  <2>1. pkt' = NoPacket
    BY <1>6 DEF ExchangeRaw
  <2> QED
    BY <2>1, Zenon DEF DumpFaithful
<1>7. CASE Done
  BY <1>2, <1>7 DEF Done
<1>8. CASE UNCHANGED bvars
  BY <1>2, <1>8 DEF bvars
<1> QED
  BY <1>3, <1>4, <1>5, <1>6, <1>7, <1>8 DEF BNext, BClient

(* For any command line, any mutation and any bytes: what dumpPacket shows *)
(* of a packet are its attributes, up to the first whose length byte is    *)
(* not its size or that the length field cuts, and only the last line it   *)
(* shows can be malformed (decodeAttrs).                                   *)
THEOREM DumpFaithfulCorrect == BSpec => []DumpFaithful
<1>1. BInit => FuzzedInv /\ DumpFaithful
  BY DEF BInit, FuzzedInv, DumpFaithful
<1> QED
  BY <1>1, FuzzedStep, FaithfulStep, PTL DEF BSpec

-------------------------------------------------------------------------------
(* How much a run has left to do: two steps for each iteration to come.    *)
IterationsLeft == IF i < command.iterations THEN command.iterations - i ELSE 0
RunLeft == CASE phase = "build"  -> 2 * IterationsLeft + 2
             [] phase = "mutate" -> 2 * IterationsLeft + 1
             [] phase = "next"   -> 2 * IterationsLeft
             [] phase = "send"   -> 1
             [] phase = "ended"  -> 0

Iterating ==
    /\ phase \in {"build", "mutate", "next", "send", "ended"}
    /\ i \in Nat /\ command.iterations \in Int
    /\ phase = "next" => i < command.iterations
    /\ i = 0 \/ i <= command.iterations
    /\ phase = "build" => asked = NoPacket
    /\ phase = "send" => command.mode # "fuzz"

(* A fuzz run that got its packet together is over with status 0 after the *)
(* iterations it was asked for.                                            *)
AllIterationsMade ==
    command.mode = "fuzz" /\ asked # NoPacket /\ phase = "ended" =>
        exit = 0 /\ i = IF command.iterations > 0 THEN command.iterations ELSE 0

(* Exchange is over whatever comes back. *)
LEMMA ExchangeEnds == ASSUME Exchange PROVE phase = "send" /\ phase' = "ended"
<1>1. PICK r \in Responses : CASE r.kind = "error" -> Exit(1)
                               [] r.kind = "empty" -> Exit(2)
                               [] r.kind = "packet" -> Exit(checkExpectation(r.code))
  BY DEF Exchange
<1>2. r.kind \in {"error", "empty", "packet"}
  BY FuzzerAssumption DEF Received
<1> QED
  BY <1>1, <1>2 DEF Exchange, Exit

LEMMA RunMoves ==
    ASSUME Iterating, BClient
    PROVE  /\ command' = command /\ (phase # "build" => asked' = asked)
           /\ \/ phase = "build" /\ phase' \in {"ended", "send", "mutate"} /\ i' = i
                 /\ (phase' = "ended" => asked' = asked)
                 /\ (phase' = "send" => command.mode # "fuzz")
              \/ phase = "send" /\ phase' = "ended" /\ i' = i
              \/ phase = "mutate" /\ phase' = "next" /\ i < command.iterations /\ i' = i
              \/ phase = "next" /\ phase' = "mutate" /\ i' = i + 1
              \/ phase = "mutate" /\ ~(i < command.iterations)
                 /\ phase' = "ended" /\ i' = i /\ exit' = 0
<1>1. CASE BuildBase
  BY <1>1 DEF BuildBase, Exit
<1>2. CASE Exchange
  BY <1>2, ExchangeEnds DEF Exchange
<1>3. CASE Mutate
  BY <1>3 DEF Mutate
<1>4. CASE ExchangeRaw
  BY <1>4 DEF ExchangeRaw
<1>5. CASE Done
  BY <1>5 DEF Done, Exit, Iterating
<1> QED
  BY <1>1, <1>2, <1>3, <1>4, <1>5 DEF BClient

LEMMA RunStep ==
    ASSUME Iterating, BClient
    PROVE  Iterating' /\ RunLeft \in Nat /\ RunLeft' \in Nat /\ RunLeft' < RunLeft
<1>1. /\ i \in Nat /\ command.iterations \in Int
      /\ i' \in {i, i + 1} /\ command' = command
  BY RunMoves DEF Iterating
<1>2. /\ IterationsLeft \in Nat
      /\ i' = i => IterationsLeft' = IterationsLeft
      /\ i' = i + 1 /\ i < command.iterations => IterationsLeft' = IterationsLeft - 1
      /\ i < command.iterations => IterationsLeft > 0
  BY <1>1 DEF IterationsLeft
<1> HIDE DEF IterationsLeft
<1>3. Iterating'
  BY <1>1, RunMoves DEF Iterating
<1> QED
  BY <1>1, <1>2, <1>3, RunMoves DEF Iterating, RunLeft

(* For any command line and anything that comes back: every step leaves    *)
(* less to do, so a fuzz run makes the iterations it was asked for and no  *)
(* more, and then ends with status 0 (runFuzz).  FuzzReachesItsEnd adds    *)
(* that the steps are taken.                                               *)
THEOREM IterationsRunOut ==
    BSpec => [](RunLeft \in Nat) /\ [][RunLeft' < RunLeft]_bvars /\ []AllIterationsMade
<1>1. BInit => Iterating /\ AllIterationsMade
  BY FuzzerAssumption DEF BInit, Iterating, AllIterationsMade, Command
<1>2. Iterating /\ AllIterationsMade /\ [BNext]_bvars => (Iterating /\ AllIterationsMade)'
  <2>1. CASE BClient /\ Iterating /\ AllIterationsMade
    <3>1. AllIterationsMade'
      BY <2>1, RunMoves DEF Iterating, AllIterationsMade
    <3> QED
      BY <2>1, <3>1, RunStep
  <2>2. CASE UNCHANGED bvars
    BY <2>2 DEF bvars, Iterating, AllIterationsMade
  <2> QED
    BY <2>1, <2>2 DEF BNext
<1>3. Iterating => RunLeft \in Nat
  BY DEF Iterating, RunLeft, IterationsLeft
<1>4. Iterating /\ [BNext]_bvars => [RunLeft' < RunLeft]_bvars
  BY RunStep DEF BNext
<1> QED
  BY <1>1, <1>2, <1>3, <1>4, PTL DEF BSpec
==============================================================================
