--------------------------- MODULE MockServerProofs ---------------------------
(***************************************************************************)
(* Theorems about MockServer, for any number of datagrams and any set of   *)
(* requests.  Typing is proved first; SessionInv says where the session of *)
(* a State can be while its challenge is drawn, stored and taken;          *)
(* OriginInv ties what a handler knows to the request that opened the      *)
(* challenge; and the stages of a handler lead it to its reply.            *)
(***************************************************************************)
EXTENDS MockServer, TLAPS

USE ValueAssumption

(* The identifier a challenge carries stays in a byte. *)
LEMMA NextIdType == \A id \in Id : NextId(id) \in Id
  BY IdAssumption DEF NextId, Id

(* A handler that has left "idle" serves a request. *)
Serving == \A h \in Handlers : pc[h] # "idle" => req[h] \in Request

(* A handler between lockInsert and the reply has drawn a State, and one   *)
(* that is about to delete has found a session under its State.            *)
Prepared == \A h \in Handlers :
    /\ pc[h] \in {"lockInsert", "insert", "unlockInsert", "challenge"} => tok[h] \in Token
    /\ pc[h] = "delete" => req[h].state \in Token

Typed == TypeOK /\ Serving /\ Prepared

LEMMA TypedInit == Init => Typed
  BY DEF Init, Typed, TypeOK, Serving, Prepared, Labels

(* Every step of every handler keeps Typed. *)
LEMMA TypedStep == Typed /\ [Next]_vars => Typed'
<1> SUFFICES ASSUME Typed, [Next]_vars PROVE Typed'
  OBVIOUS
<1> USE DEF Typed, TypeOK, Serving, Prepared, Labels
<1>1. CASE UNCHANGED vars
  BY <1>1 DEF vars
<1>2. ASSUME NEW h \in Handlers, Receive(h) PROVE Typed'
  BY <1>2, RequestAssumption DEF Receive, Goto
<1>3. ASSUME NEW h \in Handlers, Decide(h) PROVE Typed'
  <2>1. req[h] \in Request /\ req[h].id \in Id
    BY <1>3 DEF Decide, Goto, Request
  <2>2. \A code \in {"accept", "reject"} :
           [code |-> code, state |-> NoState, id |-> req[h].id] \in Reply
    BY <2>1 DEF Reply
  <2> QED
    BY <1>3, <2>1, <2>2 DEF Decide, Goto, Answer
<1>4. ASSUME NEW h \in Handlers, DrawToken(h) PROVE Typed'
  BY <1>4 DEF DrawToken, Goto
<1>5. ASSUME NEW h \in Handlers, BeginRound2(h) PROVE Typed'
  BY <1>5 DEF BeginRound2, Goto
<1>6. ASSUME NEW h \in Handlers, Lock(h) PROVE Typed'
  BY <1>6 DEF Lock, Goto
<1>7. ASSUME NEW h \in Handlers, Insert(h) PROVE Typed'
  <2>1. /\ req[h] \in Request
        /\ req[h].name \in Name /\ NextId(req[h].id) \in Id
    BY <1>7, NextIdType DEF Insert, Goto, Request
  <2>2. [user |-> req[h].name, id |-> NextId(req[h].id)] \in Session
    BY <2>1 DEF Session
  <2> QED
    BY <1>7, <2>2 DEF Insert, Goto
<1>8. ASSUME NEW h \in Handlers, Lookup(h) PROVE Typed'
  BY <1>8 DEF Lookup, Goto
<1>9. ASSUME NEW h \in Handlers, Delete(h) PROVE Typed'
  BY <1>9 DEF Delete, Goto
<1>10. ASSUME NEW h \in Handlers, Unlock(h) PROVE Typed'
  BY <1>10 DEF Unlock, Goto
<1>11. ASSUME NEW h \in Handlers, WriteChallenge(h) PROVE Typed'
  <2>1. NextId(req[h].id) \in Id
    BY <1>11, NextIdType DEF WriteChallenge, Goto, Request
  <2>2. [code |-> "challenge", state |-> tok[h], id |-> NextId(req[h].id)] \in Reply
    BY <1>11, <2>1 DEF WriteChallenge, Goto, Reply
  <2> QED
    BY <1>11, <2>2 DEF WriteChallenge, Goto, Answer
<1>12. ASSUME NEW h \in Handlers, Judge(h) PROVE Typed'
  <2>1. req[h] \in Request /\ req[h].id \in Id
    BY <1>12 DEF Judge, Goto, Request
  <2>2. \A code \in {"accept", "reject"} :
           [code |-> code, state |-> NoState, id |-> req[h].id] \in Reply
    BY <2>1 DEF Reply
  <2> QED
    BY <1>12, <2>2 DEF Judge, Goto, Answer
<1> QED
  BY <1>1, <1>2, <1>3, <1>4, <1>5, <1>6, <1>7, <1>8, <1>9, <1>10, <1>11, <1>12
     DEF Next, Step, Quiet

(* Every variable keeps its type, whatever requests arrive in whatever     *)
(* order: the handlers of server.go share no state but the session map.    *)
THEOREM TypeCorrect == Spec => []TypeOK
<1>1. Typed => TypeOK
  BY DEF Typed
<1> QED
  BY TypedInit, TypedStep, <1>1, PTL DEF Spec
-------------------------------------------------------------------------------
(* Where the session of a State is.  Only the holder of mu is inside a     *)
(* critical section; a State whose challenge is not in the map yet is in   *)
(* nobody else's hands; one that was taken is gone from the map for good.  *)
Critical == {"insert", "unlockInsert", "lookup", "delete", "unlockTake"}
Pending(h) == pc[h] \in {"lockInsert", "insert"}

Exclusive == \A h \in Handlers : pc[h] \in Critical => mu = h

Fresh ==
    /\ \A h \in Handlers : tok[h] # NoToken => tok[h] \in used
    /\ \A g, h \in Handlers : tok[g] = tok[h] /\ tok[g] # NoToken => g = h
    /\ \A t \in Token : sessions[t] # NoSession => t \in used
    /\ \A h \in Handlers : pc[h] \in {"idle", "start", "lockTake", "lookup", "delete",
                                       "unlockTake", "judge"} => tok[h] = NoToken

HoldsPending == \A h \in Handlers : Pending(h) =>
    /\ sessions[tok[h]] = NoSession
    /\ \A g \in Handlers : Taken(g) => req[g].state # tok[h]

Lookups == \A h \in Handlers :
    /\ pc[h] \notin {"delete", "unlockTake", "judge", "done"} => sess[h] = NoSession
    /\ pc[h] = "delete" => sess[h] # NoSession /\ sessions[req[h].state] = sess[h]
    /\ pc[h] # "done" => reply[h] = NoReply
    /\ Taken(h) => /\ req[h].state \in used
                   /\ sessions[req[h].state] = NoSession

SessionInv == Typed /\ Exclusive /\ Fresh /\ HoldsPending /\ Lookups /\ SingleUse

LEMMA SessionInit == Init => SessionInv
<1>1. Init => Typed
  BY TypedInit
<1> QED
  BY <1>1 DEF Init, SessionInv, Typed, TypeOK, Exclusive, Fresh, HoldsPending, Lookups,
              SingleUse, Taken, Pending, Critical

(* Every step of every handler keeps SessionInv. *)
LEMMA SessionStep == SessionInv /\ [Next]_vars => SessionInv'
<1> SUFFICES ASSUME SessionInv, [Next]_vars PROVE SessionInv'
  OBVIOUS
<1>0. Typed /\ Typed'
  BY TypedStep DEF SessionInv
<1> USE <1>0 DEF SessionInv, Typed, TypeOK, Serving, Prepared, Exclusive, Fresh, HoldsPending,
                 Lookups, SingleUse, Taken, Pending, Critical, Labels
<1>1. CASE UNCHANGED vars
  BY <1>1 DEF vars
<1>2. ASSUME NEW h \in Handlers, Receive(h) PROVE SessionInv'
  BY <1>2 DEF Receive, Goto
<1>3. ASSUME NEW h \in Handlers, Decide(h) PROVE SessionInv'
  BY <1>3 DEF Decide, Goto, Answer
<1>4. ASSUME NEW h \in Handlers, DrawToken(h) PROVE SessionInv'
  BY <1>4 DEF DrawToken, Goto
<1>5. ASSUME NEW h \in Handlers, BeginRound2(h) PROVE SessionInv'
  BY <1>5 DEF BeginRound2, Goto
<1>6. ASSUME NEW h \in Handlers, Lock(h) PROVE SessionInv'
  BY <1>6 DEF Lock, Goto
<1>7. ASSUME NEW h \in Handlers, Insert(h) PROVE SessionInv'
  BY <1>7 DEF Insert, Goto
<1>8. ASSUME NEW h \in Handlers, Lookup(h) PROVE SessionInv'
  BY <1>8 DEF Lookup, Goto
<1>9. ASSUME NEW h \in Handlers, Delete(h) PROVE SessionInv'
  BY <1>9 DEF Delete, Goto
<1>10. ASSUME NEW h \in Handlers, Unlock(h) PROVE SessionInv'
  BY <1>10 DEF Unlock, Goto
<1>11. ASSUME NEW h \in Handlers, WriteChallenge(h) PROVE SessionInv'
  BY <1>11 DEF WriteChallenge, Goto, Answer
<1>12. ASSUME NEW h \in Handlers, Judge(h) PROVE SessionInv'
  BY <1>12 DEF Judge, Goto, Answer
<1> QED
  BY <1>1, <1>2, <1>3, <1>4, <1>5, <1>6, <1>7, <1>8, <1>9, <1>10, <1>11, <1>12
     DEF Next, Step, Quiet

(* No two datagrams take the same session, however many arrive: the        *)
(* lookup and the delete of round 2 are one critical section of mu.        *)
THEOREM SingleUseCorrect == Spec => []SingleUse
<1>1. SessionInv => SingleUse
  BY DEF SessionInv
<1> QED
  BY SessionInit, SessionStep, <1>1, PTL DEF Spec
-------------------------------------------------------------------------------
(* What a handler knows comes from the request that opened the challenge.  *)
(* A State that a request presents was carried by the challenge of the     *)
(* handler that drew it; the session found under it is the one that        *)
(* handler stored; and once stored, a session stays until it is taken.     *)
Opened(r) == [user |-> r.name, id |-> NextId(r.id)]

Openers ==
    /\ \A g \in Handlers : tok[g] # NoToken => PassesMA(req[g]) /\ OpensChallenge(req[g])
    /\ \A g \in Handlers : reply[g] # NoReply =>
           /\ reply[g].code = "challenge" <=> reply[g].state \in Token
           /\ reply[g].state \in Token =>
                 tok[g] = reply[g].state /\ reply[g].id = NextId(req[g].id)
           /\ PassesMA(req[g]) /\ OpensChallenge(req[g]) => reply[g].code = "challenge"
    /\ \A h \in Handlers : req[h] # NoRequest /\ req[h].state \in Token =>
           \E g \in Handlers : /\ reply[g] # NoReply /\ reply[g].code = "challenge"
                               /\ tok[g] = req[h].state

StoredAsOpened == \A g \in Handlers : tok[g] # NoToken =>
    /\ sessions[tok[g]] # NoSession => sessions[tok[g]] = Opened(req[g])
    /\ \A h \in Handlers :
          sess[h] # NoSession /\ req[h].state = tok[g] => sess[h] = Opened(req[g])

StaysUntilTaken == \A g \in Handlers :
    tok[g] # NoToken /\ pc[g] \in {"unlockInsert", "challenge", "done"} =>
        \/ sessions[tok[g]] # NoSession
        \/ \E k \in Handlers : Taken(k) /\ req[k].state = tok[g]

UnknownMeansTaken == \A h \in Handlers :
    /\ sess[h] = NoSession /\ req[h] # NoRequest /\ req[h].state \in Token
    /\ \/ pc[h] \in {"unlockTake", "judge"}
       \/ pc[h] = "done" /\ PassesMA(req[h]) /\ AnswersChallenge(req[h])
    => \E k \in Handlers : Taken(k) /\ req[k].state = req[h].state

Verdicts == \A h \in Handlers : Accepted(h) =>
    /\ PassesMA(req[h])
    /\ mode \in {"pap+otp", "eap-md5"} =>
          sess[h] # NoSession /\ req[h].state \in Token /\ AnswerFits(req[h], sess[h])

FittingAccepted == \A h \in Handlers :
    Taken(h) /\ reply[h] # NoReply /\ AnswerFits(req[h], sess[h]) => Accepted(h)

OnPath == \A h \in Handlers :
    /\ pc[h] = "idle" => req[h] = NoRequest
    /\ pc[h] \in {"lockTake", "lookup", "delete", "unlockTake", "judge"} =>
          PassesMA(req[h]) /\ AnswersChallenge(req[h])
    /\ sess[h] # NoSession => req[h] # NoRequest /\ req[h].state \in Token
    /\ reply[h] # NoReply /\ reply[h].code = "challenge" => pc[h] = "done"

OriginInv == /\ SessionInv
             /\ Openers /\ StoredAsOpened /\ StaysUntilTaken
             /\ UnknownMeansTaken /\ Verdicts /\ FittingAccepted /\ OnPath

LEMMA OriginInit == Init => OriginInv
<1>1. Init => SessionInv
  BY SessionInit
<1> QED
  BY <1>1 DEF Init, OriginInv, Openers, StoredAsOpened, StaysUntilTaken, UnknownMeansTaken,
              Verdicts, FittingAccepted, OnPath, Accepted

(* The mode is never changed, so a handler keeps to its decisions. *)
LEMMA DecisionsKept ==
    ASSUME [Next]_vars, NEW h \in Handlers
    PROVE  /\ mode' = mode
           /\ req'[h] = req[h] =>
                /\ OpensChallenge(req[h])' <=> OpensChallenge(req[h])
                /\ AnswersChallenge(req[h])' <=> AnswersChallenge(req[h])
                /\ sess'[h] = sess[h] =>
                      (AnswerFits(req[h], sess[h])' <=> AnswerFits(req[h], sess[h]))
<1>1. mode' = mode
  BY DEF Next, Step, Quiet, vars, Receive, Decide, DrawToken, BeginRound2, Lock, Insert,
         Lookup, Delete, Unlock, WriteChallenge, Judge
<1> QED
  BY <1>1 DEF OpensChallenge, AnswersChallenge, AnswerFits, KnownPassword, PasswordOf

(* Every step of every handler keeps OriginInv. *)
LEMMA OriginStep == OriginInv /\ [Next]_vars => OriginInv'
<1> SUFFICES ASSUME OriginInv, [Next]_vars PROVE OriginInv'
  OBVIOUS
<1>0. SessionInv /\ SessionInv'
  BY SessionStep DEF OriginInv
<1>k. \A h \in Handlers :
        /\ mode' = mode
        /\ req'[h] = req[h] =>
              /\ OpensChallenge(req[h])' <=> OpensChallenge(req[h])
              /\ AnswersChallenge(req[h])' <=> AnswersChallenge(req[h])
              /\ sess'[h] = sess[h] =>
                    (AnswerFits(req[h], sess[h])' <=> AnswerFits(req[h], sess[h]))
  BY DecisionsKept
<1> USE <1>0, <1>k DEF OriginInv, SessionInv, Typed, TypeOK, Serving, Prepared, Exclusive, Fresh,
                 HoldsPending, Lookups, SingleUse, Taken, Pending, Critical, Labels,
                 Openers, StoredAsOpened, StaysUntilTaken, UnknownMeansTaken, Verdicts,
                 FittingAccepted, OnPath, Accepted
<1>1. CASE UNCHANGED vars
  BY <1>1 DEF vars
<1>2. ASSUME NEW h \in Handlers, Receive(h) PROVE OriginInv'
  BY <1>2 DEF Receive, Goto, Delivered
<1>3. ASSUME NEW h \in Handlers, Decide(h) PROVE OriginInv'
  BY <1>3 DEF Decide, Goto, Answer, AcceptsAtOnce
<1>4. ASSUME NEW h \in Handlers, DrawToken(h) PROVE OriginInv'
  BY <1>4 DEF DrawToken, Goto
<1>5. ASSUME NEW h \in Handlers, BeginRound2(h) PROVE OriginInv'
  BY <1>5 DEF BeginRound2, Goto
<1>6. ASSUME NEW h \in Handlers, Lock(h) PROVE OriginInv'
  BY <1>6 DEF Lock, Goto
<1>7. ASSUME NEW h \in Handlers, Insert(h) PROVE OriginInv'
  <2> DEFINE s == [user |-> req[h].name, id |-> NextId(req[h].id)]
  <2>1. req[h] \in Request /\ tok[h] \in Token
    BY <1>7 DEF Insert, Goto
  <2>2. s \in Session
    BY <2>1, NextIdType DEF Session, Request
  <2>3. s # NoSession /\ s = Opened(req[h])
    BY <2>2 DEF Opened
  <2>4. sessions' = [sessions EXCEPT ![tok[h]] = s]
    BY <1>7 DEF Insert
  <2>5. /\ pc[h] = "insert" /\ pc' = [pc EXCEPT ![h] = "unlockInsert"]
        /\ UNCHANGED <<mode, mu, used, req, tok, sess, reply>>
    BY <1>7 DEF Insert, Goto
  <2> HIDE DEF s
  <2>6. StoredAsOpened'
    BY <2>1, <2>3, <2>4, <2>5
  <2>7. StaysUntilTaken'
    BY <2>1, <2>3, <2>4, <2>5
  <2>8. Openers' /\ UnknownMeansTaken' /\ Verdicts' /\ FittingAccepted' /\ OnPath'
    BY <2>1, <2>5
  <2> QED
    BY <2>6, <2>7, <2>8
<1>8. ASSUME NEW h \in Handlers, Lookup(h) PROVE OriginInv'
  BY <1>8 DEF Lookup, Goto
<1>9. ASSUME NEW h \in Handlers, Delete(h) PROVE OriginInv'
  BY <1>9 DEF Delete, Goto
<1>10. ASSUME NEW h \in Handlers, Unlock(h) PROVE OriginInv'
  BY SMTT(30), <1>10 DEF Unlock, Goto
<1>11. ASSUME NEW h \in Handlers, WriteChallenge(h) PROVE OriginInv'
  BY <1>11 DEF WriteChallenge, Goto, Answer, OpensChallenge, AnswersChallenge
<1>12. ASSUME NEW h \in Handlers, Judge(h) PROVE OriginInv'
  <2>1. Openers' /\ StoredAsOpened'
    <3>1. ~OpensChallenge(req[h])
      BY <1>12 DEF Judge, Goto, OpensChallenge, AnswersChallenge
    <3> QED
      BY <1>12, <3>1 DEF Judge, Goto, Answer
  <2>2. StaysUntilTaken'
    BY <1>12 DEF Judge, Goto, Answer
  <2>3. UnknownMeansTaken'
    BY <1>12 DEF Judge, Goto, Answer
  <2>4. Verdicts' /\ FittingAccepted' /\ OnPath'
    BY <1>12 DEF Judge, Goto, Answer
  <2> QED
    BY <2>1, <2>2, <2>3, <2>4
<1> QED
  BY <1>1, <1>2, <1>3, <1>4, <1>5, <1>6, <1>7, <1>8, <1>9, <1>10, <1>11, <1>12
     DEF Next, Step, Quiet

(* A State the server handed out is turned away as unknown only when       *)
(* another datagram has taken its session.                                 *)
THEOREM ChallengeHonouredCorrect == Spec => []ChallengeHonoured
<1>1. OriginInv => ChallengeHonoured
  BY DEF OriginInv, UnknownMeansTaken, ChallengeHonoured, SessionInv, Typed, Serving, Taken
<1> QED
  BY OriginInit, OriginStep, <1>1, PTL DEF Spec

(* A verdict is over the session that the opener of the State stored. *)
LEMMA OriginEarns == OriginInv => AcceptEarned
<1> SUFFICES ASSUME OriginInv, NEW h \in Handlers, Accepted(h),
                    mode \in {"pap+otp", "eap-md5"}
             PROVE  \E g \in Handlers :
                      /\ reply[g] # NoReply /\ reply[g].code = "challenge"
                      /\ tok[g] = req[h].state
                      /\ PassesMA(req[g]) /\ OpensChallenge(req[g])
                      /\ mode = "pap+otp" => KnownPassword(req[g]) /\ req[h].cred = Otp
                      /\ mode = "eap-md5" =>
                          req[h].cred = [id   |-> (req[g].id + 1) % IdMod,
                                         pwd  |-> PasswordOf(req[g].name),
                                         chal |-> tok[g]]
  BY DEF AcceptEarned, OriginInv, Verdicts
<1>1. /\ sess[h] # NoSession /\ req[h].state \in Token /\ req[h] # NoRequest
      /\ AnswerFits(req[h], sess[h])
  BY DEF OriginInv, Verdicts, OnPath
<1>2. PICK g \in Handlers : /\ reply[g] # NoReply /\ reply[g].code = "challenge"
                            /\ tok[g] = req[h].state
  BY <1>1 DEF OriginInv, Openers
<1>3. tok[g] # NoToken
  BY <1>1, <1>2
<1>4. PassesMA(req[g]) /\ OpensChallenge(req[g])
  BY <1>3 DEF OriginInv, Openers
<1>5. sess[h] = Opened(req[g])
  BY <1>1, <1>2, <1>3 DEF OriginInv, StoredAsOpened
<1>6. sess[h].user = req[g].name /\ sess[h].id = (req[g].id + 1) % IdMod
  BY <1>5 DEF Opened, NextId
<1>7. mode = "pap+otp" => KnownPassword(req[g]) /\ req[h].cred = Otp
  BY <1>1, <1>4 DEF AnswerFits, OpensChallenge
<1>8. mode = "eap-md5" => req[h].cred = [id   |-> (req[g].id + 1) % IdMod,
                                         pwd  |-> PasswordOf(req[g].name),
                                         chal |-> tok[g]]
  BY <1>1, <1>2, <1>6 DEF AnswerFits
<1> QED
  BY <1>2, <1>4, <1>7, <1>8

(* Every Access-Accept is earned: in the two-round modes it answers the    *)
(* challenge that a request of the first round opened under the policy.    *)
THEOREM AcceptEarnedCorrect == Spec => []AcceptEarned
  BY OriginInit, OriginStep, OriginEarns, PTL DEF Spec
-------------------------------------------------------------------------------
(* The refinement of SingleUseTokens: Insert issues a State, Delete claims *)
(* it, and the Judge of the handler that claimed it settles it.            *)
(* A step that touches neither the map nor the handlers that have taken a  *)
(* session leaves every status as it is.                                   *)
LEMMA StatusKept ==
    ASSUME sessions' = sessions,
           \A h \in Handlers : Taken(h)' <=> Taken(h),
           \A h \in Handlers : Taken(h) => req'[h] = req[h] /\ reply'[h] = reply[h]
    PROVE  statusOf' = statusOf
<1>1. ASSUME NEW t \in Token PROVE Taker(t)' = Taker(t)
  BY DEF Taker
<1>2. ASSUME NEW h \in Handlers, Taken(h)
      PROVE  /\ (reply[h] = NoReply)' <=> reply[h] = NoReply
             /\ Accepted(h)' <=> Accepted(h)
  BY <1>2 DEF Accepted
<1>3. ASSUME NEW t \in Token
      PROVE  /\ (\A h \in Taker(t) : reply[h] = NoReply)' <=> \A h \in Taker(t) : reply[h] = NoReply
             /\ (\E h \in Taker(t) : Accepted(h))' <=> \E h \in Taker(t) : Accepted(h)
  BY <1>1, <1>2 DEF Taker
<1> QED
  BY <1>1, <1>3 DEF statusOf

LEMMA StatusIsFunction ==
    /\ statusOf = [u \in Token |-> statusOf[u]]
    /\ statusOf' = [u \in Token |-> statusOf'[u]]
  BY DEF statusOf

LEMMA StatusInit == Init => Tokens!Init
<1> SUFFICES ASSUME Init PROVE Tokens!Init
  OBVIOUS
<1>1. ASSUME NEW t \in Token PROVE Taker(t) = {}
  BY DEF Init, Taker, Taken
<1> QED
  BY <1>1 DEF Init, statusOf, Tokens!Init

(* Every step of the server is a step of SingleUseTokens or changes no     *)
(* status.                                                                 *)
LEMMA StatusStep == SessionInv /\ [Next]_vars => [Tokens!Next]_statusOf
<1> SUFFICES ASSUME SessionInv, [Next]_vars PROVE [Tokens!Next]_statusOf
  OBVIOUS
<1> USE DEF SessionInv, Typed, TypeOK, Serving, Prepared, Labels
<1>1. CASE UNCHANGED vars
  BY <1>1, StatusKept DEF vars, Taken
<1>2. ASSUME NEW h \in Handlers, Receive(h) PROVE statusOf' = statusOf
  BY <1>2, StatusKept DEF Receive, Goto, Lookups, Taken
<1>3. ASSUME NEW h \in Handlers, Decide(h) PROVE statusOf' = statusOf
  BY <1>3, StatusKept DEF Decide, Goto, Answer, Lookups, Taken
<1>4. ASSUME NEW h \in Handlers, DrawToken(h) PROVE statusOf' = statusOf
  BY <1>4, StatusKept DEF DrawToken, Goto, Lookups, Taken
<1>5. ASSUME NEW h \in Handlers, BeginRound2(h) PROVE statusOf' = statusOf
  BY <1>5, StatusKept DEF BeginRound2, Goto, Lookups, Taken
<1>6. ASSUME NEW h \in Handlers, Lock(h) PROVE statusOf' = statusOf
  BY <1>6, StatusKept DEF Lock, Goto, Lookups, Taken
<1>7. ASSUME NEW h \in Handlers, Lookup(h) PROVE statusOf' = statusOf
  BY <1>7, StatusKept DEF Lookup, Goto, Lookups, Taken
<1>8. ASSUME NEW h \in Handlers, Unlock(h) PROVE statusOf' = statusOf
  BY <1>8, StatusKept DEF Unlock, Goto, Lookups, Taken
<1>9. ASSUME NEW h \in Handlers, WriteChallenge(h) PROVE statusOf' = statusOf
  BY <1>9, StatusKept DEF WriteChallenge, Goto, Answer, Lookups, Taken
<1>10. ASSUME NEW h \in Handlers, Insert(h) PROVE Tokens!Issue(tok[h])
  <2> DEFINE t == tok[h]
             s == [user |-> req[h].name, id |-> NextId(req[h].id)]
  <2>1. req[h] \in Request /\ t \in Token
    BY <1>10 DEF Insert, Goto
  <2>2. s # NoSession
    BY <2>1, NextIdType DEF Session, Request
  <2>3. /\ sessions' = [sessions EXCEPT ![t] = s]
        /\ pc[h] = "insert" /\ pc' = [pc EXCEPT ![h] = "unlockInsert"]
        /\ UNCHANGED <<mode, req, sess, reply>>
    BY <1>10 DEF Insert, Goto
  <2>4. ASSUME NEW g \in Handlers
        PROVE  (Taken(g)' <=> Taken(g)) /\ (Accepted(g)' <=> Accepted(g))
    BY <2>3 DEF Taken, Accepted, Lookups
  <2>5. ASSUME NEW u \in Token PROVE Taker(u)' = Taker(u)
    BY <2>3, <2>4 DEF Taker
  <2>6. Taker(t) = {} /\ sessions[t] = NoSession
    BY <2>1, <2>3 DEF Taker, HoldsPending, Pending
  <2>7. statusOf[t] = "unissued" /\ statusOf'[t] = "open"
    BY <2>1, <2>2, <2>3, <2>5, <2>6 DEF statusOf
  <2>8. ASSUME NEW u \in Token \ {t} PROVE statusOf'[u] = statusOf[u]
    <3>1. sessions'[u] = sessions[u]
      BY <2>1, <2>3
    <3>2. (\E k \in Taker(u) : Accepted(k))' <=> \E k \in Taker(u) : Accepted(k)
      BY <2>4, <2>5 DEF Taker
    <3> QED
      BY <2>3, <2>5, <3>1, <3>2 DEF statusOf
  <2> QED
    BY <2>1, <2>7, <2>8, StatusIsFunction DEF Tokens!Issue, Tokens!Move
<1>11. ASSUME NEW h \in Handlers, Delete(h) PROVE Tokens!Claim(req[h].state)
  <2> DEFINE t == req[h].state
  <2>1. /\ pc[h] = "delete" /\ pc' = [pc EXCEPT ![h] = "unlockTake"]
        /\ sessions' = [sessions EXCEPT ![t] = NoSession]
        /\ UNCHANGED <<mode, req, sess, reply>>
    BY <1>11 DEF Delete, Goto
  <2>2. t \in Token /\ sess[h] # NoSession /\ sessions[t] # NoSession /\ reply[h] = NoReply
    BY <2>1 DEF Lookups
  <2>3. ASSUME NEW g \in Handlers
        PROVE  /\ Taken(g)' <=> Taken(g) \/ g = h
               /\ Accepted(g)' <=> Accepted(g)
               /\ Taken(g) => req[g].state # t
    BY <2>1, <2>2 DEF Taken, Accepted, Lookups
  <2>4. Taker(t)' = {h}
    BY <2>1, <2>3 DEF Taker
  <2>5. statusOf[t] = "open" /\ statusOf'[t] = "claimed"
    <3>1. Taker(t) = {}
      BY <2>3 DEF Taker
    <3> QED
      BY <2>1, <2>2, <2>4, <3>1 DEF statusOf
  <2>6. ASSUME NEW u \in Token \ {t} PROVE statusOf'[u] = statusOf[u]
    <3>1. sessions'[u] = sessions[u]
      BY <2>1, <2>2
    <3>2. Taker(u)' = Taker(u)
      BY <2>1, <2>3 DEF Taker
    <3>3. (\E k \in Taker(u) : Accepted(k))' <=> \E k \in Taker(u) : Accepted(k)
      BY <2>3, <3>2 DEF Taker
    <3> QED
      BY <2>1, <3>1, <3>2, <3>3 DEF statusOf
  <2> QED
    BY <2>2, <2>5, <2>6, StatusIsFunction DEF Tokens!Claim, Tokens!Move
<1>12. ASSUME NEW h \in Handlers, Judge(h)
       PROVE  \/ statusOf' = statusOf
              \/ \E t \in Token : Tokens!Accept(t) \/ Tokens!Reject(t)
  <2> DEFINE t == req[h].state
  <2>1. /\ pc[h] = "judge" /\ pc' = [pc EXCEPT ![h] = "done"] /\ reply[h] = NoReply
        /\ \A g \in Handlers \ {h} : reply'[g] = reply[g]
        /\ UNCHANGED <<mode, sessions, req, sess>>
    BY <1>12 DEF Judge, Goto, Answer, Lookups
  <2>2. ASSUME NEW g \in Handlers PROVE Taken(g)' <=> Taken(g)
    BY <2>1 DEF Taken
  <2>3. CASE sess[h] = NoSession
    <3>1. \A g \in Handlers : Taken(g) => req'[g] = req[g] /\ reply'[g] = reply[g]
      BY <2>1, <2>3 DEF Taken
    <3> QED
      BY <2>1, <2>2, <3>1, StatusKept
  <2>4. CASE sess[h] # NoSession
    <3>1. Taken(h) /\ t \in Token /\ sessions[t] = NoSession
      BY <2>1, <2>4 DEF Taken, Lookups
    <3>2. Taker(t) = {h} /\ Taker(t)' = {h}
      BY <2>1, <2>2, <3>1 DEF Taker, SingleUse
    <3>3. reply'[h] # NoReply
      <4>1. req[h] \in Request /\ req[h].id \in Id
        BY <2>1 DEF Request
      <4>2. \A code \in {"accept", "reject"} :
              [code |-> code, state |-> NoState, id |-> req[h].id] \in Reply
        BY <4>1 DEF Reply
      <4> QED
        BY <1>12, <4>2 DEF Judge, Answer
    <3>4. statusOf[t] = "claimed" /\ statusOf'[t] \in {"accepted", "rejected"}
      BY <2>1, <3>1, <3>2, <3>3 DEF statusOf
    <3>5. ASSUME NEW u \in Token \ {t} PROVE statusOf'[u] = statusOf[u]
      <4>1. Taker(u)' = Taker(u) /\ h \notin Taker(u)
        BY <2>1, <2>2 DEF Taker
      <4>2. \A k \in Taker(u) : reply'[k] = reply[k] /\ (Accepted(k)' <=> Accepted(k))
        BY <2>1, <4>1 DEF Taker, Accepted
      <4>3. /\ (\A k \in Taker(u) : reply[k] = NoReply)' <=> \A k \in Taker(u) : reply[k] = NoReply
            /\ (\E k \in Taker(u) : Accepted(k))' <=> \E k \in Taker(u) : Accepted(k)
        BY <4>1, <4>2
      <4> QED
        BY <2>1, <4>1, <4>3 DEF statusOf
    <3> QED
      BY <3>1, <3>4, <3>5, StatusIsFunction DEF Tokens!Accept, Tokens!Reject, Tokens!Move
  <2> QED
    BY <2>3, <2>4
<1>13. ASSUME NEW h \in Handlers, Insert(h) \/ Delete(h) PROVE Tokens!Next
  <2>1. tok[h] \in Token \/ req[h].state \in Token
    BY <1>13 DEF Insert, Delete, Goto
  <2> QED
    BY <1>10, <1>11, <1>13 DEF Tokens!Next, Insert, Delete, Goto
<1> QED
  BY <1>1, <1>2, <1>3, <1>4, <1>5, <1>6, <1>7, <1>8, <1>9, <1>12, <1>13, StatusKept
     DEF Next, Step, Quiet, Tokens!Next, vars, Taken

(* The server implements SingleUseTokens: to whoever watches the replies,  *)
(* each State is issued once, claimed once and settled once.               *)
THEOREM IssuesSingleUseTokensCorrect == Spec => IssuesSingleUseTokens
<1>1. SessionInv /\ [Next]_vars => [Tokens!Next]_statusOf
  BY StatusStep
<1> QED
  BY SessionInit, SessionStep, StatusInit, <1>1, PTL
     DEF Spec, IssuesSingleUseTokens, Tokens!Spec

-------------------------------------------------------------------------------
(* The way of a handler to its reply: mu is nobody's who could keep it,    *)
(* whoever is done has answered, and a handler only goes on.               *)
MuPassedOn == mu # NoHandler => pc[mu] \in Critical
DoneAnswered == \A h \in Handlers : pc[h] = "done" => reply[h] # NoReply

Stage(label) == CASE label = "idle"   -> 0
                  [] label = "start"  -> 1
                  [] label \in {"lockInsert", "lockTake"} -> 2
                  [] label \in {"insert", "lookup"} -> 3
                  [] label \in {"unlockInsert", "delete"} -> 4
                  [] label \in {"challenge", "unlockTake"} -> 5
                  [] label = "judge"  -> 6
                  [] label = "done"   -> 7
OneGoesOn == \E h \in Handlers : /\ Stage(pc[h]) < Stage(pc'[h])
                                /\ \A g \in Handlers \ {h} : pc'[g] = pc[g]

(* A handler that goes to a later label goes on, and the others stay. *)
LEMMA Onward ==
    ASSUME pc \in [Handlers -> Labels], NEW h \in Handlers, NEW from, NEW to,
           Goto(h, from, to), Stage(from) < Stage(to)
    PROVE  OneGoesOn
<1>1. pc[h] = from /\ pc'[h] = to /\ \A g \in Handlers \ {h} : pc'[g] = pc[g]
  BY DEF Goto
<1> QED
  BY <1>1 DEF OneGoesOn

LEMMA StagesFollow ==
    /\ Stage("idle") < Stage("start") /\ Stage("start") < Stage("done")
    /\ \A l \in {"lockInsert", "lockTake"} : Stage("start") < Stage(l)
    /\ Stage("lockInsert") < Stage("insert") /\ Stage("lockTake") < Stage("lookup")
    /\ Stage("insert") < Stage("unlockInsert") /\ Stage("unlockInsert") < Stage("challenge")
    /\ Stage("lookup") < Stage("delete") /\ Stage("lookup") < Stage("unlockTake")
    /\ Stage("delete") < Stage("unlockTake") /\ Stage("unlockTake") < Stage("judge")
    /\ Stage("judge") < Stage("done") /\ Stage("challenge") < Stage("done")
  BY DEF Stage

LEMMA OnwardStep ==
    ASSUME Typed, NEW h \in Handlers, Receive(h) \/ Step(h) PROVE OneGoesOn
<1> USE DEF Typed, TypeOK
<1>1. CASE Receive(h)
  BY <1>1, Onward, StagesFollow DEF Receive
<1>2. CASE Decide(h)
  BY <1>2, Onward, StagesFollow DEF Decide
<1>3. CASE DrawToken(h)
  BY <1>3, Onward, StagesFollow DEF DrawToken
<1>4. CASE BeginRound2(h)
  BY <1>4, Onward, StagesFollow DEF BeginRound2
<1>5. CASE Lock(h)
  BY <1>5, Onward, StagesFollow DEF Lock
<1>6. CASE Insert(h)
  BY <1>6, Onward, StagesFollow DEF Insert
<1>7. CASE Lookup(h)
  BY <1>7, Onward, StagesFollow DEF Lookup
<1>8. CASE Delete(h)
  BY <1>8, Onward, StagesFollow DEF Delete
<1>9. CASE Unlock(h)
  BY <1>9, Onward, StagesFollow DEF Unlock
<1>10. CASE WriteChallenge(h)
  BY <1>10, Onward, StagesFollow DEF WriteChallenge
<1>11. CASE Judge(h)
  BY <1>11, Onward, StagesFollow DEF Judge
<1> QED
  BY <1>1, <1>2, <1>3, <1>4, <1>5, <1>6, <1>7, <1>8, <1>9, <1>10, <1>11 DEF Step

(* What Answer writes is a reply. *)
LEMMA AnswerIsReply ==
    ASSUME TypeOK, NEW h \in Handlers,
           NEW code \in {"accept", "reject", "challenge"}, NEW state \in Token \cup {NoState},
           NEW id \in Id, Answer(h, code, state, id)
    PROVE  reply'[h] # NoReply /\ \A g \in Handlers \ {h} : reply'[g] = reply[g]
<1>1. [code |-> code, state |-> state, id |-> id] \in Reply
  BY DEF Reply
<1>2. [code |-> code, state |-> state, id |-> id] # NoReply
  BY <1>1
<1> QED
  BY <1>2 DEF Answer, TypeOK

LEMMA WayStep ==
    ASSUME Typed, MuPassedOn, DoneAnswered, Exclusive, [Next]_vars
    PROVE  MuPassedOn' /\ DoneAnswered'
<1> USE DEF Typed, TypeOK, Serving, Prepared, MuPassedOn, DoneAnswered, Critical
<1> DEFINE Goal == MuPassedOn' /\ DoneAnswered'
<1>1. CASE UNCHANGED vars
  BY <1>1 DEF vars
<1>w. ASSUME NEW h \in Handlers, NEW from, pc[h] = from, from \notin Critical,
             pc' = [pc EXCEPT ![h] = "done"], UNCHANGED mu, reply'[h] # NoReply,
             \A g \in Handlers \ {h} : reply'[g] = reply[g]
      PROVE  Goal
  BY <1>w
<1>2. ASSUME NEW h \in Handlers, Receive(h) PROVE Goal
  BY <1>2 DEF Receive, Goto
<1>3. ASSUME NEW h \in Handlers, Decide(h) PROVE Goal
  <2>1. req[h].id \in Id
    BY <1>3 DEF Decide, Goto, Request
  <2>2. reply'[h] # NoReply /\ \A g \in Handlers \ {h} : reply'[g] = reply[g]
    BY <1>3, <2>1, AnswerIsReply DEF Decide
  <2> QED
    BY <1>3, <1>w, <2>2 DEF Decide, Goto
<1>4. ASSUME NEW h \in Handlers, DrawToken(h) PROVE Goal
  BY <1>4 DEF DrawToken, Goto
<1>5. ASSUME NEW h \in Handlers, BeginRound2(h) PROVE Goal
  BY <1>5 DEF BeginRound2, Goto
<1>6. ASSUME NEW h \in Handlers, Lock(h) PROVE Goal
  BY <1>6 DEF Lock, Goto
<1>7. ASSUME NEW h \in Handlers, Insert(h) PROVE Goal
  BY <1>7 DEF Insert, Goto
<1>8. ASSUME NEW h \in Handlers, Lookup(h) PROVE Goal
  BY <1>8 DEF Lookup, Goto
<1>9. ASSUME NEW h \in Handlers, Delete(h) PROVE Goal
  BY <1>9 DEF Delete, Goto
<1>10. ASSUME NEW h \in Handlers, Unlock(h) PROVE Goal
  BY <1>10 DEF Unlock, Goto
<1>11. ASSUME NEW h \in Handlers, WriteChallenge(h) PROVE Goal
  <2>1. tok[h] \in Token /\ NextId(req[h].id) \in Id
    BY <1>11, NextIdType DEF WriteChallenge, Goto, Request
  <2>2. reply'[h] # NoReply /\ \A g \in Handlers \ {h} : reply'[g] = reply[g]
    BY <1>11, <2>1, AnswerIsReply DEF WriteChallenge
  <2> QED
    BY <1>11, <1>w, <2>2 DEF WriteChallenge, Goto
<1>12. ASSUME NEW h \in Handlers, Judge(h) PROVE Goal
  <2>1. req[h].id \in Id
    BY <1>12 DEF Judge, Goto, Request
  <2>2. reply'[h] # NoReply /\ \A g \in Handlers \ {h} : reply'[g] = reply[g]
    BY <1>12, <2>1, AnswerIsReply DEF Judge
  <2> QED
    BY <1>12, <1>w, <2>2 DEF Judge, Goto
<1> QED
  BY <1>1, <1>2, <1>3, <1>4, <1>5, <1>6, <1>7, <1>8, <1>9, <1>10, <1>11, <1>12
     DEF Next, Step, Quiet

(* However many datagrams arrive: mu is held only inside a critical        *)
(* section, every step takes one handler further on its way, which has     *)
(* seven steps at the most, and at its end there is a reply (server.go:    *)
(* no path through a handler returns without w.Write or with mu locked).   *)
(* Answered adds that the steps are taken.                                 *)
THEOREM EveryWayEndsInAReply ==
    Spec => [](MuPassedOn /\ DoneAnswered) /\ [][OneGoesOn]_vars
<1> DEFINE I == SessionInv /\ MuPassedOn /\ DoneAnswered
<1>1. Init => I
  BY SessionInit DEF Init, MuPassedOn, DoneAnswered
<1>2. I /\ [Next]_vars => I'
  BY SessionStep, WayStep DEF SessionInv
<1>3. I /\ [Next]_vars => [OneGoesOn]_vars
  BY OnwardStep DEF SessionInv, Next, Quiet
<1> QED
  BY <1>1, <1>2, <1>3, PTL DEF Spec
===============================================================================
