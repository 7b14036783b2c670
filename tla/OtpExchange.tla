------------------------------ MODULE OtpExchange ------------------------------
(***************************************************************************)
(* The challenge scenario of the v2 client against the mock server in mode *)
(* pap+otp, over UDP: a datagram can be lost, delivered late, delivered    *)
(* twice, and out of order, in both directions.                            *)
(*                                                                         *)
(* Every request of the client goes out on a socket of its own, and the    *)
(* server answers the socket a datagram came from.  A datagram that is     *)
(* delivered starts a handler; loss is a datagram that never is.  The      *)
(* client reads one answer per request, or gives up at its deadline at any *)
(* moment; what arrives later finds the socket closed.                     *)
(***************************************************************************)
EXTENDS Integers, SequencesExt

CONSTANTS
    User, Pass, Otp, RequireMA, Handlers, Requests, Token, Name, Pwd, EmptyPwd,
    NoHandler, NoRequest, NoSession, NoToken, NoReply, NoState, Foreign,
    IntMax, OTPMin, OTPMax, MaxAttempts, RandomOrder, StateReuse, StateChecks, EmptyState,
    SeedUser, SeedPwd   \* User-Name and User-Password of the seed packet

VARIABLES
    sessions, mu, used, pc, req, tok, sess, reply,                        \* server
    cpc, out, cur, i, baseline, patternAt, found, probed, failed, talk,   \* client
    sent,       \* every request the client has sent, the last one included
    sock        \* which of them each handler serves

Server == INSTANCE MockServer WITH
    mode <- "pap+otp", Requests <- [m \in {"pap+otp"} |-> Requests], IdMod <- 1
Client == INSTANCE ChallengeClient WITH
    StateValue <- Token, Corrupted <- Foreign, Text <- {"", "Enter OTP: "},
    Answers <- {}

(* What MockServer and ChallengeClient assume of the constants given here. *)
ASSUME ServerAssumption ==
    /\ Requests \subseteq Server!Request
    /\ NoState \notin Token /\ Foreign \notin Token /\ NoToken \notin Token
    /\ NoHandler \notin Handlers
    /\ NoRequest \notin Server!Request /\ NoSession \notin Server!Session
    /\ NoReply \notin Server!Reply
ASSUME ClientAssumption ==
    /\ IntMax \in Nat
    /\ {OTPMin, OTPMax} \subseteq 0 .. IntMax /\ OTPMin <= OTPMax
    /\ MaxAttempts \in 1 .. IntMax
    /\ StateChecks \in Seq({"bit_flip", "truncate", "foreign", "drop"})
    /\ EmptyState \notin Token

serverVars == <<sessions, mu, used, pc, req, tok, sess, reply>>
clientVars == <<cpc, out, cur, i, baseline, patternAt, found, probed, failed, talk>>
vars == <<serverVars, clientVars, sent, sock>>

-------------------------------------------------------------------------------
(* A request of the client as the server reads it: the seed attributes,    *)
(* with User-Password replaced by the guess and State by the one in use.   *)
AsDatagram(o) ==
    [ma |-> "valid", kind |-> "plain", name |-> SeedUser,
     cred |-> IF o.otp = -1 THEN SeedPwd ELSE o.otp,
     attr60 |-> FALSE, id |-> 0, state |-> o.state]

(* A reply of the server as the client reads it. *)
AsAnswer(r) ==
    LET challenge == r.code = "challenge"
    IN  [kind |-> "message", parses |-> TRUE, state |-> r.state,
         code |-> CASE r.code = "accept" -> 2 [] r.code = "reject" -> 3 [] challenge -> 11,
         text |-> IF challenge THEN "Enter OTP: " ELSE ""]

Awaiting == out # NoRequest

Init == /\ Server!Init /\ Client!CInit
        /\ sent = <<>>
        /\ sock = [h \in Handlers |-> 0]

(* A client that panics on the way to a guess sends nothing. *)
ClientSends ==
    /\ Client!Send
    /\ sent' = IF cpc' = "panic" THEN sent ELSE Append(sent, AsDatagram(out'))
    /\ UNCHANGED <<serverVars, sock>>

ClientWorks == Client!Local /\ UNCHANGED <<serverVars, sent, sock>>

(* The network delivers a copy of a datagram, which starts a handler. *)
Deliver(h) ==
    /\ \E n \in DOMAIN sent :
        /\ Server!Receive(h)
        /\ req'[h] = sent[n]
        /\ sock' = [sock EXCEPT ![h] = n]
    /\ UNCHANGED <<clientVars, sent>>

ServerWorks(h) == Server!Step(h) /\ UNCHANGED <<clientVars, sent, sock>>

(* The client reads a reply to its outstanding request. *)
ClientReadsAnySocket(h) ==                                        \* faulty
    /\ Awaiting /\ reply[h] # NoReply
    /\ Client!Get(AsAnswer(reply[h]))
    /\ UNCHANGED <<serverVars, sent, sock>>
ClientReads(h) ==
    /\ Awaiting /\ reply[h] # NoReply /\ sock[h] = Len(sent)
    /\ Client!Get(AsAnswer(reply[h]))
    /\ UNCHANGED <<serverVars, sent, sock>>

(* conn.SetDeadline: the read gives up. *)
ClientTimesOut ==
    /\ Awaiting
    /\ Client!Get([kind |-> "timeout"])
    /\ UNCHANGED <<serverVars, sent, sock>>

Over == Client!Ended /\ UNCHANGED vars

Next == \/ ClientSends \/ ClientWorks \/ ClientTimesOut
        \/ \E h \in Handlers : Deliver(h) \/ ServerWorks(h) \/ ClientReads(h)
        \/ Over

Spec == Init /\ [][Next]_vars

-------------------------------------------------------------------------------
Guesses == Client!Guesses

(* The datagrams of guesses that the server judged on their password. *)
Judged == {h \in Handlers : /\ Server!Taken(h) /\ reply[h] # NoReply
                            /\ req[h].state \in Token}

(* The server accepted what the client reports as found, under the State   *)
(* of the client's own first round, and it judged no other guess: with a   *)
(* State that is good for one answer, a guess is only ever right at the    *)
(* first attempt the server gets to see (papOTPHandler deletes the session *)
(* whatever the verdict; runChallengeScenario replays the State).          *)
FoundIsTheOneJudged ==
    found # -1 =>
        /\ found = Otp
        /\ \E h \in Judged : /\ Server!Accepted(h) /\ req[h].cred = found
                             /\ \A g \in Judged : g = h

(* Against a server without a lock-out, only an answer that got lost makes *)
(* the client note a change of pattern.                                    *)
NoticeMeansLoss ==
    patternAt # -1 => \E k \in Guesses : talk[k].got.kind = "timeout"

(* A corrupted or missing State never gets an Access-Accept, whatever was  *)
(* lost before: the probes of state_checks find nothing on this server.    *)
ProbesNeverAccepted == ~probed

(* When no guess is lost or delivered twice, the verdict of the scenario   *)
(* is that of its first guess.                                             *)
Lossless == /\ \A k \in Guesses : talk[k].got.kind = "message"
            /\ \A g, h \in Handlers : sock[g] = sock[h] /\ sock[g] # 0 => g = h
FirstGuessDecides ==
    cpc = "ended" /\ Lossless =>
        \A first \in Guesses : (\A k \in Guesses : first <= k) =>
            (failed = "otp accepted") = (talk[first].sent.otp = Otp)

===============================================================================
