----------------------------- MODULE EapExchange -----------------------------
(***************************************************************************)
(* The EAP-MD5 mode of the v1 client, testEAPMD5 and main of               *)
(* src/RADIUS/client/v1/client.go, against the mock server in mode eap-md5 *)
(* over UDP, as in OtpExchange, and with a clock: both exchanges of the    *)
(* client run under one deadline.                                          *)
(*                                                                         *)
(* Other answers a socket may return, of servers unlike the mock one, are  *)
(* in Strays.  The password of the client is any, right or wrong.          *)
(***************************************************************************)
EXTENDS Naturals, Sequences

CONSTANTS
    User, Pass, Otp, RequireMA, Handlers, Requests, Token, Name, Pwd, EmptyPwd, IdMod,
    NoHandler, NoRequest, NoSession, NoToken, NoReply, NoState, Foreign,
    ClientUser,             \* flag -user of the client
    Expect,                 \* flag -expect
    Timeout,                \* flag -timeout, in ticks of the clock
    Strays

ASSUME ClientAssumption ==
    /\ ClientUser \in Name
    /\ Expect \in {"accept", "reject", "challenge", "any"}
    /\ Timeout \in Nat \ {0} /\ IdMod \in Nat /\ IdMod > 2

VARIABLES
    sessions, mu, used, pc, req, tok, sess, reply,  \* server
    sent,       \* the requests of the client, each on a socket of its own
    sock,       \* which of them each handler serves
    pass,       \* flag -pass of the client
    cpc,        \* where the client is
    first,      \* the answer to the first request
    result,     \* the code testEAPMD5 returns, or how it failed
    now,        \* the clock; the client is started at 0
    since,      \* when the current exchange was started
    odd         \* history: an answer was read that was a stray

Server == INSTANCE MockServer WITH
    mode <- "eap-md5", Requests <- [m \in {"eap-md5"} |-> Requests]

(* What MockServer assumes of the constants given here. *)
ASSUME ServerAssumption ==
    /\ Requests \subseteq Server!Request
    /\ NoState \notin Token /\ Foreign \notin Token /\ NoToken \notin Token
    /\ NoHandler \notin Handlers
    /\ NoRequest \notin Server!Request /\ NoSession \notin Server!Session
    /\ NoReply \notin Server!Reply

(* Nobody but the mock server says Access-Accept: this client does not     *)
(* verify what it reads and would believe anybody.                         *)
ASSUME StrayAssumption == \A a \in Strays : a.size # "empty" => a.code # "accept"

serverVars == <<sessions, mu, used, pc, req, tok, sess, reply>>
clientVars == <<cpc, first, result>>
flow == <<sent, sock, now, since, odd>>
vars == <<serverVars, clientVars, flow, pass>>

-------------------------------------------------------------------------------
(* size: "full" is a header at least, "short" less than that.  eap: what   *)
(* testEAPMD5 finds in the EAP-Message: nothing of use, an MD5 challenge   *)
(* cut short, or a whole one with its identifier and value.                *)
Answer == [size : {"empty", "short", "full"},
           code : {"accept", "reject", "challenge", "other"},
           eap  : {"unusable", "truncated", "md5"},
           id   : Server!Id, value : Token \cup {NoToken}, state : Token \cup {NoState}]

(* What the mock server writes, as the client reads it. *)
AsAnswer(r) ==
    [size |-> "full", code |-> r.code, id |-> r.id, state |-> r.state,
     eap |-> IF r.code = "challenge" THEN "md5" ELSE "unusable",
     value |-> IF r.code = "challenge" THEN r.state ELSE NoToken]

NoAnswer == [size |-> "empty", code |-> "other", eap |-> "unusable",
             id |-> 0, value |-> NoToken, state |-> NoState]

(* buildEAP(eapResponse, 1, identBody), without a Message-Authenticator *)
Identity ==
    [ma |-> "absent", kind |-> "identity", name |-> ClientUser, cred |-> EmptyPwd,
     attr60 |-> FALSE, id |-> 1, state |-> NoState]

(* MD5(ID || password || challenge), under the identifier of the challenge *)
ResponseKeepingId(a) ==                                          \* faulty
    [Identity EXCEPT !.kind = "md5", !.state = a.state,
        !.cred = [id |-> Identity.id, pwd |-> pass, chal |-> a.value]]
Response(a) ==
    [Identity EXCEPT !.kind = "md5", !.state = a.state, !.id = a.id,
        !.cred = [id |-> a.id, pwd |-> pass, chal |-> a.value]]

(* exchangeRaw: the timeout of the exchange, or the end of the context of  *)
(* the whole run if that is earlier.                                       *)
Deadline(start) == IF Timeout < start + Timeout THEN Timeout ELSE start + Timeout

(* Nothing happens later than this; the clock need not go on. *)
Horizon == 3 * Timeout

Awaiting == cpc \in {"await1", "await2"}

-------------------------------------------------------------------------------
Init ==
    /\ Server!Init /\ pass \in Pwd /\ odd = FALSE
    /\ sent = <<>> /\ sock = [h \in Handlers |-> 0]
    /\ cpc = "identity" /\ first = NoAnswer /\ result = "none"
    /\ now = 0 /\ since = 0

(* Time passes, but no read goes on beyond its deadline. *)
Tick ==
    /\ cpc # "ended" /\ now < Horizon
    /\ Awaiting => now < Deadline(since)
    /\ now' = now + 1
    /\ UNCHANGED <<serverVars, clientVars, sent, sock, since, odd, pass>>

Send(from, to, request) ==
    /\ cpc = from /\ now < Deadline(now)
    /\ cpc' = to
    /\ sent' = Append(sent, request) /\ since' = now
    /\ UNCHANGED <<serverVars, first, result, sock, now, odd, pass>>
SendIdentity == Send("identity", "await1", Identity)
SendResponse == Send("respond", "await2", Response(first))

Return(what) == cpc' = "ended" /\ result' = what /\ UNCHANGED first

(* The deadline has passed before the write: nothing is sent. *)
TooLate ==
    /\ cpc \in {"identity", "respond"} /\ now >= Deadline(now)
    /\ Return("timeout") /\ since' = now
    /\ UNCHANGED <<serverVars, sent, sock, now, odd, pass>>

(* resp1[0] and resp1[20:] of a datagram that is too short panic. *)
FirstAnswer(a) ==
    /\ cpc = "await1"
    /\ \/ a.size = "empty" /\ Return("panic")
       \/ a.size # "empty" /\ a.code # "challenge" /\ Return("error")
       \/ a.size = "short" /\ a.code = "challenge" /\ Return("panic")
       \/ a.size = "full" /\ a.code = "challenge" /\ a.eap # "md5" /\ Return("error")
       \/ /\ a.size = "full" /\ a.code = "challenge" /\ a.eap = "md5"
          /\ cpc' = "respond" /\ first' = a /\ UNCHANGED result

(* return resp2[0]; the EAP packet in it is only logged. *)
SecondAnswer(a) ==
    /\ cpc = "await2"
    /\ Return(IF a.size = "empty" THEN "panic" ELSE a.code)

Get(a) ==
    /\ FirstAnswer(a) \/ SecondAnswer(a)
    /\ UNCHANGED <<serverVars, sent, sock, now, since, pass>>

Reads(h) == reply[h] # NoReply /\ sock[h] = Len(sent) /\ Get(AsAnswer(reply[h])) /\ UNCHANGED odd
ReadsStray == odd' = TRUE /\ \E a \in Strays : Get(a)

TimesOut ==
    /\ Awaiting /\ now = Deadline(since)
    /\ Return("timeout")
    /\ UNCHANGED <<serverVars, flow, pass>>

Deliver(h) ==
    /\ \E n \in DOMAIN sent :
        /\ Server!Receive(h) /\ req'[h] = sent[n]
        /\ sock' = [sock EXCEPT ![h] = n]
    /\ UNCHANGED <<clientVars, sent, now, since, odd, pass>>

ServerWorks(h) == Server!Step(h) /\ UNCHANGED <<clientVars, flow, pass>>

Over == cpc = "ended" /\ UNCHANGED vars

Client == SendIdentity \/ SendResponse \/ TooLate \/ TimesOut
Next ==
    \/ Client \/ Tick \/ ReadsStray \/ Over
    \/ \E h \in Handlers : Reads(h) \/ Deliver(h) \/ ServerWorks(h)

Spec == Init /\ [][Next]_vars
-------------------------------------------------------------------------------
(* log.Fatalf of main on an error, or checkExpectation *)
ExitsZero ==
    /\ cpc = "ended" /\ result \notin {"panic", "error", "timeout"}
    /\ Expect = "any" \/ result = Expect

RightPassword == pass = Server!PasswordOf(ClientUser)

(* A run that expects an accept and passes was accepted by the server: for *)
(* the very challenge the client was sent, on the password of the user.    *)
PassMeansJudged ==
    ExitsZero /\ Expect = "accept" =>
        /\ RightPassword
        /\ \E h \in Handlers :
            Server!Accepted(h) /\ sock[h] = 2 /\ req[h].state = first.state

(* With the right password a run that expects an accept, and hears from    *)
(* this server only, fails only by time or because the network delivered   *)
(* the second request more than once: the copy that comes second is        *)
(* rejected, and its answer may come first.  (A server that is run with    *)
(* -require-ma turns this client away: it sends no Message-Authenticator.) *)
FailMeansNetwork ==
    cpc = "ended" /\ Expect = "accept" /\ RightPassword /\ ~RequireMA /\ ~odd /\ ~ExitsZero =>
        \/ result = "timeout"
        \/ \E g, h \in Handlers : g # h /\ sock[g] = 2 /\ sock[h] = 2
==============================================================================
