------------------------------ MODULE MockServer ------------------------------
(***************************************************************************)
(* The mock RADIUS server, src/RADIUS/server/mock/server.go.               *)
(*                                                                         *)
(* The process runs one of four modes.  The packet library starts a        *)
(* goroutine for every datagram, so the handlers of a mode run             *)
(* concurrently; the two-round modes share one map of sessions, keyed by   *)
(* the State attribute, under the mutex mu.  Here every datagram has its   *)
(* own handler h, the local steps of a handler are one action, and each    *)
(* statement of the two critical sections is an action of its own.         *)
(*                                                                         *)
(* randBytes is modelled as returning a value that was never returned      *)
(* before (16 random bytes), and MD5 and HMAC-MD5 as free of collisions.   *)
(***************************************************************************)
EXTENDS Naturals

CONSTANTS
    User, Pass,     \* flags -user and -pass: the one entry of users
    Otp,            \* flag -otp
    RequireMA,      \* flag -require-ma
    Handlers,       \* one per datagram that arrives
    Requests,       \* for each mode that is run, the requests that arrive
    Token,          \* what randBytes(16) returns
    Name, Pwd,      \* user names; passwords and one-time passwords
    EmptyPwd,       \* the empty string as a password
    IdMod,          \* EAP identifiers are one byte: 256 in the code
    NoState,        \* the request carries no State
    Foreign,        \* a State this process never issued
    NoHandler, NoRequest, NoSession, NoToken, NoReply

Modes == {"pap", "pap+otp", "chap", "eap-md5"}
Id == 0 .. IdMod - 1

(* A digest is MD5(identifier || password || challenge).  The challenge    *)
(* of an EAP session is drawn together with its State, so the State stands *)
(* for it; a CHAP challenge is attribute 60 or the Request Authenticator.  *)
Digest == [id : Id, pwd : Pwd, chal : Token \cup {"attr60", "authenticator"}]

(* kind: "plain" for PAP and well-formed CHAP; "malformed" fails the       *)
(* header or length checks made before anything is read; "md5short" is an  *)
(* EAP-MD5 response whose value is missing or longer than the message.     *)
Request == [ma    : {"absent", "valid", "invalid"},
            kind  : {"plain", "malformed", "identity", "md5", "md5short", "other"},
            name  : Name,
            cred  : Pwd \cup Digest,
            attr60: BOOLEAN,
            id    : Id,
            state : Token \cup {NoState, Foreign}]

Session == [user : Name, id : Id]
Reply   == [code : {"accept", "reject", "challenge"}, state : Token \cup {NoState}, id : Id]

ASSUME IdAssumption == IdMod \in Nat \ {0}
ASSUME RequestAssumption ==
    /\ DOMAIN Requests \subseteq Modes
    /\ \A m \in DOMAIN Requests : Requests[m] \subseteq Request
ASSUME ValueAssumption ==
    /\ NoState \notin Token /\ Foreign \notin Token /\ NoToken \notin Token
    /\ NoHandler \notin Handlers
    /\ NoRequest \notin Request /\ NoSession \notin Session /\ NoReply \notin Reply

VARIABLES
    mode,       \* flag -mode
    sessions,   \* otpSessions or eapSessions, whichever the mode uses
    mu,         \* the handler that holds mu, or NoHandler
    used,       \* what randBytes has returned so far
    pc,         \* where each handler is
    req,        \* the request each handler serves
    tok,        \* round 1: the State drawn by the handler
    sess,       \* round 2: the handler's copy of the session it looked up
    reply       \* what the handler wrote back

vars == <<mode, sessions, mu, used, pc, req, tok, sess, reply>>

-------------------------------------------------------------------------------
(* Decisions the handlers make on a request alone. *)

(* enforceMA: an absent Message-Authenticator is tolerated unless the flag *)
(* asks for one, an invalid one never is.                                  *)
PassesMA(r) == r.ma = "valid" \/ (r.ma = "absent" /\ ~RequireMA)

(* want, ok := users[user]; ok && pass == want *)
KnownPassword(r) == r.name = User /\ r.cred = Pass

(* users[name] without the ok check: the empty string for an unknown name *)
PasswordOf(name) == IF name = User THEN Pass ELSE EmptyPwd

(* chalID := eapID + 1 in a byte *)
NextId(id) == (id + 1) % IdMod

ChapMatches(r) ==
    /\ r.kind # "malformed"
    /\ r.name = User
    /\ r.cred \in Digest
    /\ r.cred.pwd = Pass
    /\ r.cred.chal = IF r.attr60 THEN "attr60" ELSE "authenticator"

(* The request opens a challenge: round 1 of a two-round mode. *)
OpensChallengeAnyUser(r) ==                                      \* faulty
    \/ mode = "pap+otp" /\ r.state = NoState /\ (r.name = User \/ r.cred = Pass)
    \/ mode = "eap-md5" /\ r.kind = "identity"
OpensChallenge(r) ==
    \/ mode = "pap+otp" /\ r.state = NoState /\ KnownPassword(r)
    \/ mode = "eap-md5" /\ r.kind = "identity"

(* The request answers a challenge: round 2 of a two-round mode.  In       *)
(* eap-md5 the State may be missing; the lookup then finds nothing.        *)
AnswersChallenge(r) ==
    \/ mode = "pap+otp" /\ r.state # NoState
    \/ mode = "eap-md5" /\ r.kind \in {"md5", "md5short"}

(* The single-round modes decide on the spot. *)
AcceptsAtOnce(r) ==
    \/ mode = "pap"  /\ KnownPassword(r)
    \/ mode = "chap" /\ ChapMatches(r)

(* Round 2: the answer r fits the session s that was opened under r.state. *)
AnswerFitsWithoutPassword(r, s) ==                               \* faulty
    \/ mode = "pap+otp" /\ r.cred = Otp
    \/ /\ mode = "eap-md5" /\ r.kind = "md5"
       /\ r.cred \in Digest /\ r.cred.id = s.id /\ r.cred.chal = r.state
AnswerFits(r, s) ==
    \/ mode = "pap+otp" /\ r.cred = Otp
    \/ /\ mode = "eap-md5" /\ r.kind = "md5"
       /\ r.cred = [id |-> s.id, pwd |-> PasswordOf(s.user), chal |-> r.state]

-------------------------------------------------------------------------------
Init ==
    /\ mode \in DOMAIN Requests
    /\ sessions = [t \in Token |-> NoSession]
    /\ mu = NoHandler
    /\ used = {}
    /\ pc = [h \in Handlers |-> "idle"]
    /\ req = [h \in Handlers |-> NoRequest]
    /\ tok = [h \in Handlers |-> NoToken]
    /\ sess = [h \in Handlers |-> NoSession]
    /\ reply = [h \in Handlers |-> NoReply]

Goto(h, from, to) == pc[h] = from /\ pc' = [pc EXCEPT ![h] = to]

Answer(h, code, state, id) ==
    reply' = [reply EXCEPT ![h] = [code |-> code, state |-> state, id |-> id]]

(* The State values some challenge has carried to the outside. *)
Delivered == {t \in Token : \E h \in Handlers : reply[h] # NoReply /\ reply[h].state = t}

(* A datagram arrives and the library starts its handler.  Nobody outside  *)
(* presents a State of this process before a challenge has carried it.     *)
Receive(h) ==
    /\ Goto(h, "idle", "start")
    /\ \E r \in Requests[mode] :
        /\ r.state \in Token => r.state \in Delivered
        /\ req' = [req EXCEPT ![h] = r]
    /\ UNCHANGED <<mode, sessions, mu, used, tok, sess, reply>>

(* Everything that ends in a reply before the map is touched: enforceMA,   *)
(* the header checks, the wrong first-round password, the unsupported EAP  *)
(* type, and the whole of papHandler and chapHandler.                      *)
Decide(h) ==
    LET r == req[h]
        accept == PassesMA(r) /\ AcceptsAtOnce(r)
    IN  /\ Goto(h, "start", "done")
        /\ ~(PassesMA(r) /\ (OpensChallenge(r) \/ AnswersChallenge(r)))
        /\ Answer(h, IF accept THEN "accept" ELSE "reject", NoState, r.id)
        /\ UNCHANGED <<mode, sessions, mu, used, req, tok, sess>>

(* Round 1: token := randBytes(16) *)
DrawTokenAndAnswer(h) ==                                         \* faulty
    /\ Goto(h, "start", "lockInsert")
    /\ PassesMA(req[h]) /\ OpensChallenge(req[h])
    /\ \E t \in Token \ used :
        /\ used' = used \cup {t}
        /\ tok' = [tok EXCEPT ![h] = t]
        /\ Answer(h, "challenge", t, NextId(req[h].id))
    /\ UNCHANGED <<mode, sessions, mu, req, sess>>
DrawToken(h) ==
    /\ Goto(h, "start", "lockInsert")
    /\ PassesMA(req[h]) /\ OpensChallenge(req[h])
    /\ \E t \in Token \ used :
        /\ used' = used \cup {t}
        /\ tok' = [tok EXCEPT ![h] = t]
    /\ UNCHANGED <<mode, sessions, mu, req, sess, reply>>

(* Round 2: the request carries a State to look up. *)
BeginRound2(h) ==
    /\ Goto(h, "start", "lockTake")
    /\ PassesMA(req[h]) /\ AnswersChallenge(req[h])
    /\ UNCHANGED <<mode, sessions, mu, used, req, tok, sess, reply>>

(* mu.Lock() *)
LockNotTaken(h) ==                                               \* faulty
    /\ \/ Goto(h, "lockInsert", "insert")
       \/ Goto(h, "lockTake", "lookup")
    /\ mu' = h
    /\ UNCHANGED <<mode, sessions, used, req, tok, sess, reply>>
Lock(h) ==
    /\ mu = NoHandler
    /\ \/ Goto(h, "lockInsert", "insert")
       \/ Goto(h, "lockTake", "lookup")
    /\ mu' = h
    /\ UNCHANGED <<mode, sessions, used, req, tok, sess, reply>>

(* otpSessions[string(token)] = ... / eapSessions[string(state)] = ... *)
Insert(h) ==
    LET s == [user |-> req[h].name, id |-> NextId(req[h].id)]
    IN  /\ Goto(h, "insert", "unlockInsert")
        /\ sessions' = [sessions EXCEPT ![tok[h]] = s]
        /\ UNCHANGED <<mode, mu, used, req, tok, sess, reply>>

(* sess, ok := ...Sessions[string(state)] *)
Lookup(h) ==
    LET t == req[h].state
        s == IF t \in Token THEN sessions[t] ELSE NoSession
    IN  /\ Goto(h, "lookup", IF s = NoSession THEN "unlockTake" ELSE "delete")
        /\ sess' = [sess EXCEPT ![h] = s]
        /\ UNCHANGED <<mode, sessions, mu, used, req, tok, reply>>

(* if ok { delete(...Sessions, string(state)) } *)
DeleteForgotten(h) ==                                            \* faulty
    /\ Goto(h, "delete", "unlockTake")
    /\ UNCHANGED <<mode, sessions, mu, used, req, tok, sess, reply>>
Delete(h) ==
    /\ Goto(h, "delete", "unlockTake")
    /\ sessions' = [sessions EXCEPT ![req[h].state] = NoSession]
    /\ UNCHANGED <<mode, mu, used, req, tok, sess, reply>>

(* mu.Unlock() *)
Unlock(h) ==
    /\ \/ Goto(h, "unlockInsert", "challenge")
       \/ Goto(h, "unlockTake", "judge")
    /\ mu' = NoHandler
    /\ UNCHANGED <<mode, sessions, used, req, tok, sess, reply>>

(* w.Write of the Access-Challenge *)
WriteChallenge(h) ==
    /\ Goto(h, "challenge", "done")
    /\ Answer(h, "challenge", tok[h], NextId(req[h].id))
    /\ UNCHANGED <<mode, sessions, mu, used, req, tok, sess>>

(* Round 2, after the critical section: an unknown State, an EAP value too *)
(* short and a wrong answer are rejected, the session being gone already.  *)
JudgeOnlyKnown(h) ==                                             \* faulty
    /\ Goto(h, "judge", "done")
    /\ IF sess[h] = NoSession THEN UNCHANGED reply
       ELSE Answer(h, IF AnswerFits(req[h], sess[h]) THEN "accept" ELSE "reject", NoState, 0)
    /\ UNCHANGED <<mode, sessions, mu, used, req, tok, sess>>
Judge(h) ==
    LET fits == sess[h] # NoSession /\ AnswerFits(req[h], sess[h])
    IN  /\ Goto(h, "judge", "done")
        /\ Answer(h, IF fits THEN "accept" ELSE "reject", NoState, req[h].id)
        /\ UNCHANGED <<mode, sessions, mu, used, req, tok, sess>>

Step(h) ==
    \/ Decide(h) \/ DrawToken(h) \/ BeginRound2(h)
    \/ Lock(h) \/ Insert(h) \/ Lookup(h) \/ Delete(h) \/ Unlock(h)
    \/ WriteChallenge(h) \/ Judge(h)

(* Every datagram has been served: the server waits for the next one. *)
Quiet == (\A h \in Handlers : pc[h] = "done") /\ UNCHANGED vars

Next == (\E h \in Handlers : Receive(h) \/ Step(h)) \/ Quiet

(* Goroutines are scheduled; nobody has to send a datagram.  Each handler  *)
(* locks mu once, so a lock that is released again is granted in the end   *)
(* under weak fairness of every handler.                                   *)
Spec == Init /\ [][Next]_vars
FairSpec == Spec /\ \A h \in Handlers : WF_vars(Step(h))

-------------------------------------------------------------------------------
Labels == {"idle", "start", "lockInsert", "insert", "unlockInsert", "challenge",
           "lockTake", "lookup", "delete", "unlockTake", "judge", "done"}

(* Every variable of the server has its type; the EAP identifier sent in a *)
(* challenge and kept in its session is a byte.                            *)
TypeOK ==
    /\ mode \in DOMAIN Requests
    /\ sessions \in [Token -> Session \cup {NoSession}]
    /\ mu \in Handlers \cup {NoHandler}
    /\ used \subseteq Token
    /\ pc \in [Handlers -> Labels]
    /\ req \in [Handlers -> Request \cup {NoRequest}]
    /\ tok \in [Handlers -> Token \cup {NoToken}]
    /\ sess \in [Handlers -> Session \cup {NoSession}]
    /\ reply \in [Handlers -> Reply \cup {NoReply}]

(* Round 2 of h has taken the session out of the map. *)
Taken(h) == sess[h] # NoSession /\ pc[h] \in {"unlockTake", "judge", "done"}

Accepted(h) == reply[h] # NoReply /\ reply[h].code = "accept"

(* One State buys one verdict: two datagrams that answer the same          *)
(* challenge, duplicated or sent at the same time, never both take its     *)
(* session (papOTPHandler and eapMD5Handler, lookup and delete under mu).  *)
SingleUse ==
    \A g, h \in Handlers :
        Taken(g) /\ Taken(h) /\ req[g].state = req[h].state => g = h

(* An answer that is turned away because its State is unknown, although    *)
(* this server sent that State in a challenge, came second: another        *)
(* datagram has taken the session.  In particular the session is in the    *)
(* map before the challenge that names it leaves.                          *)
ChallengeHonoured ==
    \A h \in Handlers :
        /\ pc[h] \in {"judge", "done"} /\ sess[h] = NoSession
        /\ req[h].state \in Token /\ PassesMA(req[h]) /\ AnswersChallenge(req[h])
        => \E g \in Handlers \ {h} : Taken(g) /\ req[g].state = req[h].state

(* Every Access-Accept is earned.  In the two-round modes the State it     *)
(* answers was drawn by a first-round request that passed the policy on    *)
(* Message-Authenticator and, with pap+otp, the password check, and the    *)
(* answer fits that very request: the one-time password, or the digest     *)
(* over the next identifier and the password of the user named there.      *)
AcceptEarned ==
    \A h \in Handlers : Accepted(h) =>
        /\ PassesMA(req[h])
        /\ mode \in {"pap+otp", "eap-md5"} =>
            \E g \in Handlers :
                /\ reply[g] # NoReply /\ reply[g].code = "challenge"
                /\ tok[g] = req[h].state
                /\ PassesMA(req[g]) /\ OpensChallenge(req[g])
                /\ mode = "pap+otp" => KnownPassword(req[g]) /\ req[h].cred = Otp
                /\ mode = "eap-md5" =>
                    req[h].cred = [id   |-> (req[g].id + 1) % IdMod,
                                   pwd  |-> PasswordOf(req[g].name),
                                   chal |-> tok[g]]

(* Every datagram whose handler was started is answered: no path through a *)
(* handler leaves without writing a reply or without giving mu back.       *)
Answered == \A h \in Handlers : pc[h] = "start" ~> reply[h] # NoReply

(* The life of each State, as SingleUseTokens tells it. *)
Taker(t) == {h \in Handlers : Taken(h) /\ req[h].state = t}
statusOf ==
    [t \in Token |->
        IF Taker(t) = {} THEN IF sessions[t] = NoSession THEN "unissued" ELSE "open"
        ELSE IF \A h \in Taker(t) : reply[h] = NoReply THEN "claimed"
        ELSE IF \E h \in Taker(t) : Accepted(h) THEN "accepted"
        ELSE "rejected"]
Tokens == INSTANCE SingleUseTokens WITH status <- statusOf

(* The server implements SingleUseTokens: the locked statements of the     *)
(* handlers act on the map as if each were a single step.                  *)
IssuesSingleUseTokens == Tokens!Spec
===============================================================================
