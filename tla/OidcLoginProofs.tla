---------------------------- MODULE OidcLoginProofs ----------------------------
(***************************************************************************)
(* Theorems about OidcLogin, for any number of requests, any set of codes  *)
(* and each of the relying parties.  Typing is proved first; LoginInv      *)
(* follows a state from the login that draws it to the callback that       *)
(* consumes it; SessionInv follows a session from the code to the cookie;  *)
(* and the stages of a request lead it to its answer.                      *)
(***************************************************************************)
EXTENDS OidcLogin, TLAPS

USE OidcAssumption

(* A callback that has left the start carries a code. *)
HasCode == \A h \in Handlers :
    pc[h] \in {"post", "lockInsert", "insert", "unlockInsert", "page",
               "lockTake", "take", "delete", "unlockTake", "check"} => req[h].code \in Code

(* A callback of s1, s2 or s3 that writes has read a body. *)
HasBody == \A h \in Handlers :
    pc[h] \in {"lockInsert", "insert"} => body[h] \in Body

Typed == TypeOK /\ HasCode /\ HasBody

LEMMA TypedInit == Init => Typed
  BY DEF Init, Typed, TypeOK, HasCode, HasBody, Labels, Answers, NoRequest, Request, Path, Drawn

(* Every step of every goroutine, and of the provider, keeps Typed. *)
LEMMA TypedStep == Typed /\ [Next]_vars => Typed'
<1> SUFFICES ASSUME Typed, [Next]_vars PROVE Typed'
  OBVIOUS
<1> USE DEF Typed, TypeOK, HasCode, HasBody, Labels, Answers, Drawn, Body, Text
<1>1. CASE UNCHANGED vars
  BY <1>1 DEF vars, local, around, provider
<1>2. ASSUME NEW h \in Handlers, Receive(h) PROVE Typed'
  <2>1. \A p \in Paths, c \in Code \cup {NoCode}, s, i \in Drawn :
          [path |-> p, code |-> c, state |-> s, sid |-> i] \in Request
    BY DEF Request
  <2>2. \E r \in Request : req' = [req EXCEPT ![h] = r]
    BY <1>2, <2>1 DEF Receive
  <2> QED
    BY <1>2, <2>2 DEF Receive, Goto, around, provider
<1>3. ASSUME NEW h \in Handlers, NEW c \in Code, Authorise(h, c) PROVE Typed'
  BY <1>3 DEF Authorise, local
<1>4. ASSUME NEW h \in Handlers, Lock(h) PROVE Typed'
  BY <1>4 DEF Lock, Goto, around, provider
<1>5. ASSUME NEW h \in Handlers, Unlock(h) PROVE Typed'
  BY <1>5 DEF Unlock, Goto, around, provider
<1>6. ASSUME NEW h \in Handlers, BeginLogin(h) \/ Put(h) \/ Redirect(h) PROVE Typed'
  BY <1>6 DEF BeginLogin, Put, Redirect, Goto, Write, around, provider
<1>7. ASSUME NEW h \in Handlers, NoCodeGiven(h) \/ UnknownState(h) \/ KnownState(h) PROVE Typed'
  BY <1>7 DEF NoCodeGiven, UnknownState, KnownState, Goto, Write, around, provider
<1>8. ASSUME NEW h \in Handlers, BeginCallback(h) PROVE Typed'
  <2>1. req[h].code \in Code
    BY <1>8 DEF BeginCallback, Request
  <2> QED
    BY <1>8, <2>1 DEF BeginCallback, Goto, around, provider
<1>9. ASSUME NEW h \in Handlers, Take(h) PROVE Typed'
  BY <1>9 DEF Take, Goto, around, provider
<1>10. ASSUME NEW h \in Handlers, Delete(h) PROVE Typed'
  BY <1>10 DEF Delete, Goto, around, provider
<1>11. ASSUME NEW h \in Handlers, TokenAnswer(h) PROVE Typed'
  <2>1. CASE Granted(h)
    BY <2>1 DEF Granted, Goto
  <2>2. CASE Exchanged(h)
    BY <2>2 DEF Exchanged, Goto, Write
  <2>3. CASE PostFails(h)
    BY <2>3 DEF PostFails, Goto, Write
  <2> QED
    BY <1>11, <2>1, <2>2, <2>3 DEF TokenAnswer
<1>12. ASSUME NEW h \in Handlers, Insert(h) PROVE Typed'
  BY <1>12 DEF Insert, Nice, Goto, around, provider
<1>13. ASSUME NEW h \in Handlers, LoggedIn(h) \/ DieOfRace(h) PROVE Typed'
  BY <1>13 DEF LoggedIn, DieOfRace, Goto, Write, local, around, provider
<1>14. ASSUME NEW h \in Handlers, BeginRead(h) \/ Stateless(h) PROVE Typed'
  BY <1>14 DEF BeginRead, Stateless, Goto, Write, around, provider
<1>15. ASSUME NEW h \in Handlers, ReadSid(h) PROVE Typed'
  BY <1>15 DEF ReadSid, Goto, around, provider
<1>16. ASSUME NEW h \in Handlers, LookAgain(h) \/ Enough(h) PROVE Typed'
  BY <1>16 DEF LookAgain, Enough, Goto, Write, around, provider
<1>17. ASSUME NEW h \in Handlers, Read(h) PROVE Typed'
  BY <1>17 DEF Read, Goto, around, provider
<1>18. ASSUME NEW h \in Handlers, Show(h) PROVE Typed'
  BY <1>18 DEF Show, Goto, Write, around, provider
<1> QED
  BY <1>1, <1>2, <1>3, <1>4, <1>5, <1>6, <1>7, <1>8, <1>9, <1>10, <1>11, <1>12, <1>13, <1>14,
     <1>15, <1>16, <1>17, <1>18 DEF Next, Step, Quiet

(* Every variable keeps its type, for each of the programs. *)
THEOREM TypeCorrect == Spec => []TypeOK
<1>1. Typed => TypeOK
  BY DEF Typed
<1> QED
  BY TypedInit, TypedStep, <1>1, PTL DEF Spec
-------------------------------------------------------------------------------
(* The life of a state.  Only the holder of mu is inside a critical        *)
(* section; a login is on record before its state is handed out, under its *)
(* own verifier; and a verifier that a callback has read is off the record *)
(* as soon as the callback leaves the mutex.                               *)
Critical == {"put", "unlockPut", "take", "delete", "unlockTake", "insert", "unlockInsert",
             "readSid", "unlockSid", "read", "unlockRead"}

Exclusive == \A h \in Handlers : pc[h] \in Critical => mu = h

OnPath == \A h \in Handlers :
    /\ pc[h] # "done" => answer[h] = "none"
    /\ pc[h] \in {"lockPut", "put", "unlockPut", "lockTake", "take", "delete",
                  "unlockTake", "check"} => Pkce
    /\ req[h].state \in Handlers => answer[req[h].state] = "redirect"
    /\ answer[h] = "unknownState" => verifier[h] = NoHandler

Verifiers == \A h \in Handlers : verifier[h] # NoHandler =>
    /\ pc[h] \in {"delete", "unlockTake", "check", "post", "lockInsert", "insert",
                  "unlockInsert", "page", "done"}
    /\ req[h].state \in Handlers /\ verifier[h] = req[h].state

OnRecord ==
    /\ \A s \in Handlers : pending[s] # NoHandler =>
           pending[s] = s /\ pc[s] \in {"unlockPut", "redirect", "done"}
    /\ \A h \in Handlers : pc[h] = "delete" =>
           verifier[h] = IF req[h].state \in Handlers THEN pending[req[h].state] ELSE NoHandler
    /\ \A h \in Handlers : Consumed(h) => pending[req[h].state] = NoHandler

(* A state that is off the record, or was not found on it, is consumed. *)
OffRecord ==
    /\ \A s \in Handlers :
           Pkce /\ (pc[s] \in {"unlockPut", "redirect"} \/ answer[s] = "redirect") =>
               \/ pending[s] # NoHandler
               \/ \E g \in Handlers : Consumed(g) /\ req[g].state = s
    /\ \A h \in Handlers :
           /\ pc[h] \in {"delete", "unlockTake", "check"} \/ answer[h] = "unknownState"
           /\ verifier[h] = NoHandler /\ req[h].state \in Handlers
           => \E g \in Handlers : Consumed(g) /\ req[g].state = req[h].state

LoginInv == Typed /\ Exclusive /\ OnPath /\ Verifiers /\ OnRecord /\ OffRecord /\ StateSpentOnce

LEMMA LoginInit == Init => LoginInv
<1>1. Init => Typed
  BY TypedInit
<1> QED
  BY <1>1 DEF Init, LoginInv, Exclusive, Critical, OnPath, Verifiers, OnRecord, OffRecord,
              StateSpentOnce, Consumed, NoRequest

(* Every step of every goroutine, and of the provider, keeps LoginInv. *)
LEMMA LoginStep == LoginInv /\ [Next]_vars => LoginInv'
<1> SUFFICES ASSUME LoginInv, [Next]_vars PROVE LoginInv'
  OBVIOUS
<1>0. Typed /\ Typed'
  BY TypedStep DEF LoginInv
<1> USE <1>0 DEF LoginInv, Typed, TypeOK, Exclusive, Critical, OnPath, Verifiers, OnRecord,
                 OffRecord, StateSpentOnce, Consumed, Pkce, Drawn, Labels, Answers
<1>1. CASE UNCHANGED vars
  BY <1>1 DEF vars, local, around, provider
<1>2. ASSUME NEW h \in Handlers, Receive(h) PROVE LoginInv'
  BY <1>2 DEF Receive, Goto, around, provider
<1>3. ASSUME NEW h \in Handlers, NEW c \in Code, Authorise(h, c) PROVE LoginInv'
  BY <1>3 DEF Authorise, local
<1>4. ASSUME NEW h \in Handlers, Lock(h) PROVE LoginInv'
  <2>1. Exclusive' /\ OnPath' /\ Verifiers'
    BY <1>4 DEF Lock, Goto, around, provider
  <2>2. OnRecord'
    BY <1>4 DEF Lock, Goto, around, provider
  <2>3. StateSpentOnce'
    BY <1>4 DEF Lock, Goto, around, provider
  <2>4. OffRecord'
    BY <1>4 DEF Lock, Goto, around, provider
  <2> QED
    BY <2>1, <2>2, <2>3, <2>4
<1>5. ASSUME NEW h \in Handlers, Unlock(h) PROVE LoginInv'
  <2>1. Exclusive' /\ OnPath' /\ Verifiers'
    BY <1>5 DEF Unlock, Goto, around, provider
  <2>2. OnRecord' /\ StateSpentOnce'
    BY <1>5 DEF Unlock, Goto, around, provider
  <2>3. OffRecord'
    BY SMTT(30), <1>5 DEF Unlock, Goto, around, provider
  <2> QED
    BY <2>1, <2>2, <2>3
<1>6. ASSUME NEW h \in Handlers, BeginLogin(h) PROVE LoginInv'
  BY <1>6 DEF BeginLogin, Goto, around, provider
<1>7. ASSUME NEW h \in Handlers, Put(h) PROVE LoginInv'
  BY <1>7 DEF Put, Goto, around, provider
<1>8. ASSUME NEW h \in Handlers, Redirect(h) PROVE LoginInv'
  BY <1>8 DEF Redirect, Goto, Write, around, provider
<1>9. ASSUME NEW h \in Handlers, NoCodeGiven(h) \/ BeginCallback(h) PROVE LoginInv'
  BY SMTT(30), <1>9 DEF NoCodeGiven, BeginCallback, Goto, Write, around, provider
<1>10. ASSUME NEW h \in Handlers, Take(h) PROVE LoginInv'
  BY <1>10 DEF Take, Goto, around, provider
<1>11. ASSUME NEW h \in Handlers, Delete(h) PROVE LoginInv'
  BY <1>11 DEF Delete, Goto, around, provider
<1>12. ASSUME NEW h \in Handlers, UnknownState(h) \/ KnownState(h) PROVE LoginInv'
  <2>1. Exclusive' /\ OnPath' /\ Verifiers'
    BY <1>12 DEF UnknownState, KnownState, Goto, Write, around, provider
  <2>2. OnRecord' /\ StateSpentOnce'
    BY <1>12 DEF UnknownState, KnownState, Goto, Write, around, provider
  <2>3. OffRecord'
    BY <1>12 DEF UnknownState, KnownState, Goto, Write, around, provider
  <2> QED
    BY <2>1, <2>2, <2>3
<1>13. ASSUME NEW h \in Handlers, TokenAnswer(h) PROVE LoginInv'
  <2>1. Exclusive' /\ OnPath' /\ Verifiers'
    BY <1>13 DEF TokenAnswer, Granted, Exchanged, PostFails, Goto, Write, around, provider
  <2>2. OnRecord' /\ StateSpentOnce'
    BY <1>13 DEF TokenAnswer, Granted, Exchanged, PostFails, Goto, Write, around, provider
  <2>3. ASSUME NEW g \in Handlers PROVE Consumed(g) => Consumed(g)'
    BY <1>13 DEF TokenAnswer, Granted, Exchanged, PostFails, Goto
  <2>4. OffRecord'
    <3>1. /\ pc[h] = "post" /\ pc'[h] \in {"lockInsert", "page", "done"}
          /\ \A g \in Handlers \ {h} : pc'[g] = pc[g] /\ answer'[g] = answer[g]
          /\ answer'[h] \in {"none", "exchangeFailed"}
          /\ UNCHANGED <<pending, verifier, req, app>>
      BY <1>13 DEF TokenAnswer, Granted, Exchanged, PostFails, Goto, Write
    <3> QED
      BY <2>3, <3>1
  <2> QED
    BY <2>1, <2>2, <2>4
<1>14. ASSUME NEW h \in Handlers, Insert(h) PROVE LoginInv'
  BY <1>14 DEF Insert, Nice, Goto, around, provider
<1>15. ASSUME NEW h \in Handlers, LoggedIn(h) \/ DieOfRace(h) PROVE LoginInv'
  BY SMTT(30), <1>15 DEF LoggedIn, DieOfRace, Goto, Write, local, around, provider
<1>16. ASSUME NEW h \in Handlers, BeginRead(h) \/ Stateless(h) PROVE LoginInv'
  BY SMTT(30), <1>16 DEF BeginRead, Stateless, Goto, Write, around, provider
<1>17. ASSUME NEW h \in Handlers, ReadSid(h) PROVE LoginInv'
  BY <1>17 DEF ReadSid, Goto, around, provider
<1>18. ASSUME NEW h \in Handlers, LookAgain(h) \/ Enough(h) PROVE LoginInv'
  BY SMTT(30), <1>18 DEF LookAgain, Enough, Goto, Write, around, provider
<1>19. ASSUME NEW h \in Handlers, Read(h) PROVE LoginInv'
  BY <1>19 DEF Read, Goto, around, provider
<1>20. ASSUME NEW h \in Handlers, Show(h) PROVE LoginInv'
  BY <1>20 DEF Show, Goto, Write, around, provider
<1> QED
  BY <1>1, <1>2, <1>3, <1>4, <1>5, <1>6, <1>7, <1>8, <1>9, <1>10, <1>11,
     <1>12, <1>13, <1>14, <1>15, <1>16, <1>17, <1>18, <1>19, <1>20 DEF Next, Step, Quiet

(* A state is consumed by one callback at most: its read and its delete    *)
(* are one critical section of mu.                                         *)
THEOREM StateSpentOnceCorrect == Spec => []StateSpentOnce
<1>1. LoginInv => StateSpentOnce
  BY DEF LoginInv
<1> QED
  BY LoginInit, LoginStep, <1>1, PTL DEF Spec

(* A state that was handed out is turned away as unknown only when another *)
(* callback has consumed it.                                               *)
THEOREM StateHonouredCorrect == Spec => []StateHonoured
<1>1. LoginInv => StateHonoured
  BY DEF LoginInv, OnPath, OffRecord, StateHonoured, Consumed
<1> QED
  BY LoginInit, LoginStep, <1>1, PTL DEF Spec
-------------------------------------------------------------------------------
(* The life of a session.  Whoever holds tokens, or has shown that it did, *)
(* has exchanged a code that nobody else exchanged; a cookie names a       *)
(* session in the map, and the map never loses one.                        *)
Spent(h) == \/ pc[h] \in {"lockInsert", "insert", "unlockInsert", "page"}
            \/ HasSession(h)

Tokens == \A h \in Handlers : Spent(h) =>
    /\ req[h].code \in redeemed
    /\ Pkce => req[h].state \in Handlers /\ issued[req[h].code] = req[h].state
    /\ \A g \in Handlers : Spent(g) /\ req[g].code = req[h].code => g = h

ExchangesFor == \A h \in Handlers :
    /\ pc[h] = "post" /\ Pkce => verifier[h] # NoHandler
    /\ sessions[h] # NoCode => pc[h] \in {"unlockInsert", "page", "done"}

InMap ==
    /\ \A h \in Handlers : req[h].sid \in Handlers => answer[req[h].sid] = "loggedIn"
    /\ \A i \in Handlers :
           app # "dance" /\ (answer[i] = "loggedIn" \/ pc[i] \in {"unlockInsert", "page"})
           => sessions[i] # NoCode

Recognised == \A h \in Handlers :
    /\ pc[h] \in {"lockSid", "readSid", "unlockSid", "gotSid", "lockRead", "read",
                  "unlockRead", "show"} => app # "dance"
    /\ pc[h] \in {"unlockSid", "gotSid", "lockRead", "read"} /\ req[h].sid \in Handlers
       => sid[h] = req[h].sid
    /\ pc[h] \in {"unlockRead", "show"} /\ req[h].sid \in Handlers => body[h] # NoCode

SessionInv == LoginInv /\ Tokens /\ ExchangesFor /\ InMap /\ Recognised /\ CookieHonoured

LEMMA SessionInit == Init => SessionInv
<1>1. Init => LoginInv
  BY LoginInit
<1> QED
  BY <1>1 DEF Init, SessionInv, Tokens, Spent, HasSession, ExchangesFor, InMap, Recognised,
              CookieHonoured, NoRequest

(* Every step of every goroutine, and of the provider, keeps SessionInv. *)
LEMMA SessionStep == SessionInv /\ [Next]_vars => SessionInv'
<1> SUFFICES ASSUME SessionInv, [Next]_vars PROVE SessionInv'
  OBVIOUS
<1>0. LoginInv /\ LoginInv'
  BY LoginStep DEF SessionInv
<1> USE <1>0 DEF SessionInv, LoginInv, Typed, TypeOK, HasCode, HasBody, OnPath, Verifiers, Tokens,
                 Spent, HasSession, ExchangesFor, InMap, Recognised, CookieHonoured, Pkce,
                 Drawn, Body, Text, Labels, Answers, Request
<1>1. CASE UNCHANGED vars
  BY <1>1 DEF vars, local, around, provider
<1>2. ASSUME NEW h \in Handlers, Receive(h) PROVE SessionInv'
  BY <1>2 DEF Receive, Goto, around, provider
<1>3. ASSUME NEW h \in Handlers, NEW c \in Code, Authorise(h, c) PROVE SessionInv'
  BY <1>3 DEF Authorise, local
<1>4. ASSUME NEW h \in Handlers, Lock(h) PROVE SessionInv'
  BY <1>4 DEF Lock, Goto, around, provider
<1>5. ASSUME NEW h \in Handlers, Unlock(h) PROVE SessionInv'
  BY <1>5 DEF Unlock, Goto, around, provider
<1>6. ASSUME NEW h \in Handlers, BeginLogin(h) \/ Put(h) \/ Redirect(h) PROVE SessionInv'
  BY <1>6 DEF BeginLogin, Put, Redirect, Goto, Write, around, provider
<1>7. ASSUME NEW h \in Handlers, NoCodeGiven(h) \/ BeginCallback(h) PROVE SessionInv'
  BY <1>7 DEF NoCodeGiven, BeginCallback, Goto, Write, around, provider
<1>8. ASSUME NEW h \in Handlers, Take(h) PROVE SessionInv'
  BY <1>8 DEF Take, Goto, around, provider
<1>9. ASSUME NEW h \in Handlers, Delete(h) PROVE SessionInv'
  BY <1>9 DEF Delete, Goto, around, provider
<1>10. ASSUME NEW h \in Handlers, UnknownState(h) \/ KnownState(h) PROVE SessionInv'
  BY <1>10 DEF UnknownState, KnownState, Goto, Write, around, provider
<1>11. ASSUME NEW h \in Handlers, Granted(h) PROVE SessionInv'
  BY <1>11 DEF Granted, Redeemable, Goto, around, provider
<1>12. ASSUME NEW h \in Handlers, Exchanged(h) PROVE SessionInv'
  <2>1. /\ app = "dance" /\ pc[h] = "post" /\ answer[h] = "none"
        /\ req[h].code \in Code /\ req[h].code \notin redeemed
        /\ redeemed' = redeemed \cup {req[h].code}
        /\ UNCHANGED <<sessions, req, verifier, sid, body, app, issued>>
    BY <1>12 DEF Exchanged, Redeemable, Goto
  <2>2. /\ pc'[h] \in {"page", "done"} /\ answer'[h] \in {"none", "exchangeFailed"}
        /\ \A g \in Handlers \ {h} : pc'[g] = pc[g] /\ answer'[g] = answer[g]
    BY <1>12, <2>1 DEF Exchanged, Goto, Write
  <2>3. Tokens'
    BY <2>1, <2>2
  <2>4. ExchangesFor' /\ InMap'
    BY <2>1, <2>2
  <2>5. Recognised' /\ CookieHonoured'
    BY <2>1, <2>2
  <2> QED
    BY <2>3, <2>4, <2>5
<1>13. ASSUME NEW h \in Handlers, PostFails(h) PROVE SessionInv'
  BY <1>13 DEF PostFails, Goto, Write, around, provider
<1>14. ASSUME NEW h \in Handlers, Insert(h) PROVE SessionInv'
  BY <1>14 DEF Insert, Nice, Goto, around, provider
<1>15. ASSUME NEW h \in Handlers, LoggedIn(h) \/ DieOfRace(h) PROVE SessionInv'
  BY <1>15 DEF LoggedIn, DieOfRace, Goto, Write, local, around, provider
<1>16. ASSUME NEW h \in Handlers, BeginRead(h) \/ Stateless(h) PROVE SessionInv'
  BY <1>16 DEF BeginRead, Stateless, Goto, Write, around, provider
<1>17. ASSUME NEW h \in Handlers, ReadSid(h) PROVE SessionInv'
  BY <1>17 DEF ReadSid, Goto, around, provider
<1>18. ASSUME NEW h \in Handlers, LookAgain(h) \/ Enough(h) PROVE SessionInv'
  BY <1>18 DEF LookAgain, Enough, Goto, Write, around, provider
<1>19. ASSUME NEW h \in Handlers, Read(h) PROVE SessionInv'
  BY <1>19 DEF Read, Goto, around, provider
<1>20. ASSUME NEW h \in Handlers, Show(h) PROVE SessionInv'
  BY <1>20 DEF Show, Goto, Write, around, provider
<1> QED
  BY <1>1, <1>2, <1>3, <1>4, <1>5, <1>6, <1>7, <1>8, <1>9, <1>10, <1>11,
     <1>12, <1>13, <1>14, <1>15, <1>16, <1>17, <1>18, <1>19, <1>20 DEF Next, Step, TokenAnswer, Quiet

(* A session is for a code that was exchanged, one for each code, and with *)
(* PKCE of the login whose state the callback presented.                   *)
THEOREM SessionOfItsLoginCorrect == Spec => []SessionOfItsLogin
<1>1. SessionInv => SessionOfItsLogin
  BY DEF SessionInv, Tokens, Spent, SessionOfItsLogin
<1> QED
  BY SessionInit, SessionStep, <1>1, PTL DEF Spec

(* Whoever was given a session cookie is recognised with it from then on.  *)
THEOREM CookieHonouredCorrect == Spec => []CookieHonoured
<1>1. SessionInv => CookieHonoured
  BY DEF SessionInv
<1> QED
  BY SessionInit, SessionStep, <1>1, PTL DEF Spec
-------------------------------------------------------------------------------
(* The refinement of SingleUseTokens: Put issues a state, Delete claims    *)
(* it, and the page or the failure of the callback that consumed it        *)
(* settles it.                                                             *)
(* A step that touches neither the record nor the callbacks that have      *)
(* consumed a state leaves every status as it is.                          *)
LEMMA StatusKept ==
    ASSUME pending' = pending,
           \A h \in Handlers : Consumed(h)' <=> Consumed(h),
           \A h \in Handlers : Consumed(h) => req'[h] = req[h] /\ answer'[h] = answer[h]
    PROVE  statusOf' = statusOf
<1>1. ASSUME NEW s \in Handlers PROVE Consumer(s)' = Consumer(s)
  BY DEF Consumer
<1>2. ASSUME NEW s \in Handlers
      PROVE  /\ (\A h \in Consumer(s) : answer[h] = "none")'
                  <=> \A h \in Consumer(s) : answer[h] = "none"
             /\ (\E h \in Consumer(s) : answer[h] = "loggedIn")'
                  <=> \E h \in Consumer(s) : answer[h] = "loggedIn"
  BY <1>1 DEF Consumer
<1> QED
  BY <1>1, <1>2 DEF statusOf

LEMMA StatusIsFunction ==
    /\ statusOf = [s \in Handlers |-> statusOf[s]]
    /\ statusOf' = [s \in Handlers |-> statusOf'[s]]
  BY DEF statusOf

LEMMA StatusInit == Init => States!Init
<1> SUFFICES ASSUME Init PROVE States!Init
  OBVIOUS
<1>1. ASSUME NEW s \in Handlers PROVE Consumer(s) = {}
  BY DEF Init, Consumer, Consumed
<1> QED
  BY <1>1 DEF Init, statusOf, States!Init

(* A callback that writes its answer settles its state, if it has one.     *)
LEMMA Settles ==
    ASSUME LoginInv, NEW h \in Handlers, pc[h] \in {"post", "page"},
           answer'[h] \in Answers \ {"none"},
           \A g \in Handlers : Consumed(g)' <=> Consumed(g),
           \A g \in Handlers \ {h} : answer'[g] = answer[g],
           pending' = pending, req' = req
    PROVE  [States!Next]_statusOf
<1> DEFINE s == req[h].state
<1> USE DEF LoginInv, Typed, TypeOK, Labels
<1>1. answer[h] = "none"
  BY DEF OnPath
<1>2. CASE verifier[h] = NoHandler
  <2>1. \A g \in Handlers : Consumed(g) => req'[g] = req[g] /\ answer'[g] = answer[g]
    BY <1>2 DEF Consumed
  <2> QED
    BY <2>1, StatusKept
<1>3. CASE verifier[h] # NoHandler
  <2>1. Consumed(h) /\ s \in Handlers
    BY <1>3 DEF Consumed, Verifiers
  <2>2. Consumer(s) = {h} /\ Consumer(s)' = {h}
    BY <2>1 DEF Consumer, StateSpentOnce
  <2>3. statusOf[s] = "claimed" /\ statusOf'[s] \in {"accepted", "rejected"}
    BY <1>1, <2>1, <2>2 DEF statusOf
  <2>4. ASSUME NEW u \in Handlers \ {s} PROVE statusOf'[u] = statusOf[u]
    <3>1. Consumer(u)' = Consumer(u) /\ h \notin Consumer(u)
      BY DEF Consumer
    <3>2. \A k \in Consumer(u) : answer'[k] = answer[k]
      BY <3>1 DEF Consumer
    <3>3. /\ (\A k \in Consumer(u) : answer[k] = "none")'
               <=> \A k \in Consumer(u) : answer[k] = "none"
          /\ (\E k \in Consumer(u) : answer[k] = "loggedIn")'
               <=> \E k \in Consumer(u) : answer[k] = "loggedIn"
      BY <3>1, <3>2
    <3> QED
      BY <3>1, <3>3 DEF statusOf
  <2> QED
    BY <2>1, <2>3, <2>4, StatusIsFunction
       DEF States!Next, States!Accept, States!Reject, States!Move
<1> QED
  BY <1>2, <1>3

(* Every step is a step of SingleUseTokens or changes no status. *)
LEMMA StatusStep == LoginInv /\ [Next]_vars => [States!Next]_statusOf
<1> SUFFICES ASSUME LoginInv, [Next]_vars PROVE [States!Next]_statusOf
  OBVIOUS
<1> USE DEF LoginInv, Typed, TypeOK, Verifiers, Consumed, Labels
<1>1. CASE UNCHANGED vars
  BY <1>1, StatusKept DEF vars, local
<1>2. ASSUME NEW h \in Handlers, NEW c \in Code, Authorise(h, c) PROVE statusOf' = statusOf
  BY <1>2, StatusKept DEF Authorise, local
<1>3. ASSUME NEW h \in Handlers, Receive(h) PROVE statusOf' = statusOf
  BY <1>3, StatusKept DEF Receive, Goto, around, provider
<1>4. ASSUME NEW h \in Handlers, Lock(h) PROVE statusOf' = statusOf
  BY <1>4, StatusKept DEF Lock, Goto, around, provider
<1>5. ASSUME NEW h \in Handlers, Unlock(h) PROVE statusOf' = statusOf
  BY <1>5, StatusKept DEF Unlock, Goto, around, provider
<1>6. ASSUME NEW h \in Handlers, BeginLogin(h) PROVE statusOf' = statusOf
  BY <1>6, StatusKept DEF BeginLogin, Goto, around, provider
<1>7. ASSUME NEW h \in Handlers, Redirect(h) PROVE statusOf' = statusOf
  BY <1>7, StatusKept DEF Redirect, Goto, Write, around, provider
<1>8. ASSUME NEW h \in Handlers, NoCodeGiven(h) \/ BeginCallback(h) PROVE statusOf' = statusOf
  BY <1>8, StatusKept DEF NoCodeGiven, BeginCallback, Goto, Write, around, provider
<1>9. ASSUME NEW h \in Handlers, Take(h) PROVE statusOf' = statusOf
  BY <1>9, StatusKept DEF Take, Goto, around, provider
<1>10. ASSUME NEW h \in Handlers, UnknownState(h) \/ KnownState(h) PROVE statusOf' = statusOf
  BY <1>10, StatusKept DEF UnknownState, KnownState, Goto, Write, around, provider
<1>11. ASSUME NEW h \in Handlers, Granted(h) PROVE statusOf' = statusOf
  BY <1>11, StatusKept DEF Granted, Goto, around, provider
<1>12. ASSUME NEW h \in Handlers, Insert(h) PROVE statusOf' = statusOf
  BY <1>12, StatusKept DEF Insert, Goto, around, provider
<1>13. ASSUME NEW h \in Handlers, BeginRead(h) \/ Stateless(h) PROVE statusOf' = statusOf
  BY <1>13, StatusKept DEF BeginRead, Stateless, Goto, Write, around, provider
<1>14. ASSUME NEW h \in Handlers, ReadSid(h) PROVE statusOf' = statusOf
  BY <1>14, StatusKept DEF ReadSid, Goto, around, provider
<1>15. ASSUME NEW h \in Handlers, LookAgain(h) \/ Enough(h) PROVE statusOf' = statusOf
  BY <1>15, StatusKept DEF LookAgain, Enough, Goto, Write, around, provider
<1>16. ASSUME NEW h \in Handlers, Read(h) PROVE statusOf' = statusOf
  BY <1>16, StatusKept DEF Read, Goto, around, provider
<1>17. ASSUME NEW h \in Handlers, Show(h) PROVE statusOf' = statusOf
  BY <1>17, StatusKept DEF Show, Goto, Write, around, provider
<1>18. ASSUME NEW h \in Handlers, Put(h) PROVE States!Issue(h)
  <2>1. /\ pc[h] = "put" /\ pc' = [pc EXCEPT ![h] = "unlockPut"]
        /\ pending' = [pending EXCEPT ![h] = h]
        /\ UNCHANGED <<req, verifier, answer>>
    BY <1>18 DEF Put, Goto
  <2>2. ASSUME NEW g \in Handlers PROVE Consumed(g)' <=> Consumed(g)
    BY <2>1
  <2>3. ASSUME NEW u \in Handlers PROVE Consumer(u)' = Consumer(u)
    BY <2>1, <2>2 DEF Consumer
  <2>4. Consumer(h) = {} /\ pending[h] = NoHandler
    BY <2>1 DEF Consumer, OnPath, OnRecord
  <2>5. statusOf[h] = "unissued" /\ statusOf'[h] = "open"
    BY <2>1, <2>3, <2>4 DEF statusOf
  <2>6. ASSUME NEW u \in Handlers \ {h} PROVE statusOf'[u] = statusOf[u]
    BY <2>1, <2>3 DEF statusOf
  <2> QED
    BY <2>5, <2>6, StatusIsFunction DEF States!Issue, States!Move
<1>19. ASSUME NEW h \in Handlers, Delete(h)
      PROVE  statusOf' = statusOf \/ \E s \in Handlers : States!Claim(s)
  <2> DEFINE s == req[h].state
  <2>1. /\ pc[h] = "delete" /\ pc' = [pc EXCEPT ![h] = "unlockTake"]
        /\ pending' = [u \in Handlers |-> IF u = s THEN NoHandler ELSE pending[u]]
        /\ UNCHANGED <<req, verifier, answer>>
    BY <1>19 DEF Delete, Goto
  <2>2. CASE verifier[h] = NoHandler
    <3>1. pending' = pending
      BY <2>1, <2>2 DEF OnRecord
    <3>2. \A g \in Handlers : Consumed(g)' <=> Consumed(g)
      BY <2>1, <2>2
    <3> QED
      BY <2>1, <3>1, <3>2, StatusKept
  <2>3. CASE verifier[h] # NoHandler
    <3>1. s \in Handlers /\ pending[s] # NoHandler /\ answer[h] = "none"
      BY <2>1, <2>3 DEF OnRecord, OnPath
    <3>2. ASSUME NEW g \in Handlers
          PROVE  /\ Consumed(g)' <=> Consumed(g) \/ g = h
                 /\ Consumed(g) => req[g].state # s
      BY <2>1, <2>3, <3>1 DEF OnRecord
    <3>3. Consumer(s) = {} /\ Consumer(s)' = {h}
      BY <2>1, <3>2 DEF Consumer
    <3>4. statusOf[s] = "open" /\ statusOf'[s] = "claimed"
      BY <2>1, <3>1, <3>3 DEF statusOf
    <3>5. ASSUME NEW u \in Handlers \ {s} PROVE statusOf'[u] = statusOf[u]
      <4>1. pending'[u] = pending[u]
        BY <2>1
      <4>2. Consumer(u)' = Consumer(u)
        BY <2>1, <3>2 DEF Consumer
      <4> QED
        BY <2>1, <4>1, <4>2 DEF statusOf
    <3> QED
      BY <3>1, <3>4, <3>5, StatusIsFunction DEF States!Claim, States!Move
  <2> QED
    BY <2>2, <2>3
<1>20. ASSUME NEW h \in Handlers, PostFails(h) \/ LoggedIn(h) PROVE [States!Next]_statusOf
  <2>1. /\ pc[h] \in {"post", "page"} /\ pc' = [pc EXCEPT ![h] = "done"]
        /\ answer' = [answer EXCEPT ![h] = IF PostFails(h) THEN "exchangeFailed" ELSE "loggedIn"]
        /\ UNCHANGED <<pending, verifier, req>>
    BY <1>20 DEF PostFails, LoggedIn, Goto, Write
  <2>2. \A g \in Handlers : Consumed(g)' <=> Consumed(g)
    BY <2>1
  <2>3. answer'[h] \in Answers \ {"none"}
    BY <2>1 DEF Answers
  <2> QED
    BY <2>1, <2>2, <2>3, Settles
<1>21. ASSUME NEW h \in Handlers, Exchanged(h) PROVE [States!Next]_statusOf
  <2>1. /\ pc[h] = "post" /\ UNCHANGED <<pending, verifier, req>>
        /\ \/ pc' = [pc EXCEPT ![h] = "page"] /\ answer' = answer
           \/ /\ pc' = [pc EXCEPT ![h] = "done"]
              /\ answer' = [answer EXCEPT ![h] = "exchangeFailed"]
    BY <1>21 DEF Exchanged, Goto, Write
  <2>2. \A g \in Handlers : Consumed(g)' <=> Consumed(g)
    BY <2>1
  <2>3. CASE answer' = answer
    BY <2>1, <2>2, <2>3, StatusKept
  <2>4. CASE answer' = [answer EXCEPT ![h] = "exchangeFailed"]
    <3>1. answer'[h] \in Answers \ {"none"}
      BY <2>4 DEF Answers
    <3> QED
      BY <2>1, <2>2, <2>4, <3>1, Settles
  <2> QED
    BY <2>1, <2>3, <2>4
<1>22. ASSUME NEW h \in Handlers, DieOfRace(h) PROVE statusOf' = statusOf
  BY <1>22, StatusKept DEF DieOfRace, local
<1>23. ASSUME NEW h \in Handlers, Put(h) \/ Delete(h) PROVE [States!Next]_statusOf
  BY <1>18, <1>19, <1>23 DEF States!Next
<1> QED
  BY <1>1, <1>2, <1>3, <1>4, <1>5, <1>6, <1>7, <1>8, <1>9, <1>10, <1>11,
     <1>12, <1>13, <1>14, <1>15, <1>16, <1>17, <1>20, <1>21, <1>22, <1>23
     DEF Next, Step, TokenAnswer, Quiet

(* With PKCE the states implement SingleUseTokens: each is issued once,    *)
(* claimed by one callback, and settled once.                              *)
THEOREM IssuesSingleUseStatesCorrect == Spec => IssuesSingleUseStates
<1>1. LoginInv /\ [Next]_vars => [States!Next]_statusOf
  BY StatusStep
<1> QED
  BY LoginInit, LoginStep, StatusInit, <1>1, PTL
     DEF Spec, IssuesSingleUseStates, States!Spec

-------------------------------------------------------------------------------
(* The way of a request to its answer: mu is nobody's who waits for the    *)
(* provider or is done, whoever is done has answered, and a goroutine only *)
(* goes on.                                                                *)
MuPassedOn == mu # NoHandler => pc[mu] \in Critical
DoneAnswered == \A h \in Handlers : pc[h] = "done" => answer[h] # "none"

Stage(label) == CASE label = "idle"   -> 0
                  [] label = "start"  -> 1
                  [] label \in {"lockPut", "lockTake", "lockSid"} -> 2
                  [] label \in {"put", "take", "readSid"} -> 3
                  [] label \in {"unlockPut", "delete", "unlockSid"} -> 4
                  [] label \in {"redirect", "unlockTake", "gotSid"} -> 5
                  [] label \in {"check", "lockRead"} -> 6
                  [] label \in {"post", "read"} -> 7
                  [] label \in {"lockInsert", "unlockRead"} -> 8
                  [] label \in {"insert", "show"} -> 9
                  [] label = "unlockInsert" -> 10
                  [] label = "page"   -> 11
                  [] label = "done"   -> 12
OneGoesOn == \E h \in Handlers : /\ Stage(pc[h]) < Stage(pc'[h])
                                /\ \A g \in Handlers \ {h} : pc'[g] = pc[g]

LEMMA Onward ==
    ASSUME pc \in [Handlers -> Labels], NEW h \in Handlers, NEW from, NEW to,
           Goto(h, from, to), Stage(from) < Stage(to)
    PROVE  OneGoesOn
<1>1. pc[h] = from /\ pc'[h] = to /\ \A g \in Handlers \ {h} : pc'[g] = pc[g]
  BY DEF Goto
<1> QED
  BY <1>1 DEF OneGoesOn

LEMMA StagesFollow ==
    /\ Stage("idle") < Stage("start")
    /\ \A l \in {"lockPut", "redirect", "done", "lockTake", "post", "lockSid"} :
          Stage("start") < Stage(l)
    /\ Stage("lockPut") < Stage("put") /\ Stage("put") < Stage("unlockPut")
    /\ Stage("unlockPut") < Stage("redirect") /\ Stage("redirect") < Stage("done")
    /\ Stage("lockTake") < Stage("take") /\ Stage("take") < Stage("delete")
    /\ Stage("delete") < Stage("unlockTake") /\ Stage("unlockTake") < Stage("check")
    /\ Stage("check") < Stage("post") /\ Stage("check") < Stage("done")
    /\ \A l \in {"lockInsert", "page", "done"} : Stage("post") < Stage(l)
    /\ Stage("lockInsert") < Stage("insert") /\ Stage("insert") < Stage("unlockInsert")
    /\ Stage("unlockInsert") < Stage("page") /\ Stage("page") < Stage("done")
    /\ Stage("lockSid") < Stage("readSid") /\ Stage("readSid") < Stage("unlockSid")
    /\ Stage("unlockSid") < Stage("gotSid") /\ Stage("gotSid") < Stage("done")
    /\ Stage("gotSid") < Stage("lockRead") /\ Stage("lockRead") < Stage("read")
    /\ Stage("read") < Stage("unlockRead") /\ Stage("unlockRead") < Stage("show")
    /\ Stage("show") < Stage("done")
  BY DEF Stage

LEMMA OnwardStep ==
    ASSUME Typed, NEW h \in Handlers, Receive(h) \/ Step(h) \/ TokenAnswer(h), up, up' = up
    PROVE  OneGoesOn
<1> USE DEF Typed, TypeOK
<1>0. CASE Receive(h)
  BY <1>0, Onward, StagesFollow DEF Receive
<1>1. CASE Lock(h)
  BY <1>1, Onward, StagesFollow DEF Lock
<1>2. CASE Unlock(h)
  BY <1>2, Onward, StagesFollow DEF Unlock
<1>3. CASE BeginLogin(h)
  BY <1>3, Onward, StagesFollow DEF BeginLogin
<1>4. CASE Put(h)
  BY <1>4, Onward, StagesFollow DEF Put
<1>5. CASE Redirect(h)
  BY <1>5, Onward, StagesFollow DEF Redirect
<1>6. CASE NoCodeGiven(h)
  BY <1>6, Onward, StagesFollow DEF NoCodeGiven
<1>7. CASE BeginCallback(h)
  BY <1>7, Onward, StagesFollow DEF BeginCallback
<1>8. CASE Take(h)
  BY <1>8, Onward, StagesFollow DEF Take
<1>9. CASE Delete(h)
  BY <1>9, Onward, StagesFollow DEF Delete
<1>10. CASE UnknownState(h)
  BY <1>10, Onward, StagesFollow DEF UnknownState
<1>11. CASE KnownState(h)
  BY <1>11, Onward, StagesFollow DEF KnownState
<1>12. CASE Insert(h)
  BY <1>12, Onward, StagesFollow DEF Insert
<1>13. CASE LoggedIn(h)
  BY <1>13, Onward, StagesFollow DEF LoggedIn
<1>14. CASE BeginRead(h)
  BY <1>14, Onward, StagesFollow DEF BeginRead
<1>15. CASE Stateless(h)
  BY <1>15, Onward, StagesFollow DEF Stateless
<1>16. CASE ReadSid(h)
  BY <1>16, Onward, StagesFollow DEF ReadSid
<1>17. CASE LookAgain(h)
  BY <1>17, Onward, StagesFollow DEF LookAgain
<1>18. CASE Enough(h)
  BY <1>18, Onward, StagesFollow DEF Enough
<1>19. CASE Read(h)
  BY <1>19, Onward, StagesFollow DEF Read
<1>20. CASE Show(h)
  BY <1>20, Onward, StagesFollow DEF Show
<1>21. CASE Granted(h)
  BY <1>21, Onward, StagesFollow DEF Granted
<1>22. CASE Exchanged(h)
  BY <1>22, Onward, StagesFollow DEF Exchanged
<1>23. CASE PostFails(h)
  BY <1>23, Onward, StagesFollow DEF PostFails
<1>24. CASE DieOfRace(h)
  BY <1>24 DEF DieOfRace
<1> QED
  BY <1>0, <1>1, <1>2, <1>3, <1>4, <1>5, <1>6, <1>7, <1>8, <1>9, <1>10, <1>11,
     <1>12, <1>13, <1>14, <1>15, <1>16, <1>17, <1>18, <1>19, <1>20, <1>21, <1>22, <1>23, <1>24
     DEF Step, TokenAnswer

LEMMA WayStep ==
    ASSUME Typed, MuPassedOn, DoneAnswered, Exclusive, [Next]_vars
    PROVE  MuPassedOn' /\ DoneAnswered'
<1> USE DEF Typed, TypeOK, MuPassedOn, DoneAnswered, Critical, Drawn
<1> DEFINE Goal == MuPassedOn' /\ DoneAnswered'
<1>u. CASE UNCHANGED vars
  BY <1>u DEF vars, local, around, provider
<1>0. ASSUME NEW h \in Handlers, Receive(h) PROVE Goal
  BY <1>0 DEF Receive, Goto
<1>1. ASSUME NEW h \in Handlers, Lock(h) PROVE Goal
  BY <1>1 DEF Lock, Goto, Write
<1>2. ASSUME NEW h \in Handlers, Unlock(h) PROVE Goal
  BY <1>2 DEF Unlock, Goto, Write
<1>3. ASSUME NEW h \in Handlers, BeginLogin(h) PROVE Goal
  BY <1>3 DEF BeginLogin, Goto, Write
<1>4. ASSUME NEW h \in Handlers, Put(h) PROVE Goal
  BY <1>4 DEF Put, Goto, Write
<1>5. ASSUME NEW h \in Handlers, Redirect(h) PROVE Goal
  BY <1>5 DEF Redirect, Goto, Write
<1>6. ASSUME NEW h \in Handlers, NoCodeGiven(h) PROVE Goal
  BY <1>6 DEF NoCodeGiven, Goto, Write
<1>7. ASSUME NEW h \in Handlers, BeginCallback(h) PROVE Goal
  BY <1>7 DEF BeginCallback, Goto, Write
<1>8. ASSUME NEW h \in Handlers, Take(h) PROVE Goal
  BY <1>8 DEF Take, Goto, Write
<1>9. ASSUME NEW h \in Handlers, Delete(h) PROVE Goal
  BY <1>9 DEF Delete, Goto, Write
<1>10. ASSUME NEW h \in Handlers, UnknownState(h) PROVE Goal
  BY <1>10 DEF UnknownState, Goto, Write
<1>11. ASSUME NEW h \in Handlers, KnownState(h) PROVE Goal
  BY <1>11 DEF KnownState, Goto, Write
<1>12. ASSUME NEW h \in Handlers, Insert(h) PROVE Goal
  BY <1>12 DEF Insert, Goto, Write
<1>13. ASSUME NEW h \in Handlers, LoggedIn(h) PROVE Goal
  BY <1>13 DEF LoggedIn, Goto, Write
<1>14. ASSUME NEW h \in Handlers, BeginRead(h) PROVE Goal
  BY <1>14 DEF BeginRead, Goto, Write
<1>15. ASSUME NEW h \in Handlers, Stateless(h) PROVE Goal
  BY <1>15 DEF Stateless, Goto, Write
<1>16. ASSUME NEW h \in Handlers, ReadSid(h) PROVE Goal
  BY <1>16 DEF ReadSid, Goto, Write
<1>17. ASSUME NEW h \in Handlers, LookAgain(h) PROVE Goal
  BY <1>17 DEF LookAgain, Goto, Write
<1>18. ASSUME NEW h \in Handlers, Enough(h) PROVE Goal
  BY <1>18 DEF Enough, Goto, Write
<1>19. ASSUME NEW h \in Handlers, Read(h) PROVE Goal
  BY <1>19 DEF Read, Goto, Write
<1>20. ASSUME NEW h \in Handlers, Show(h) PROVE Goal
  BY <1>20 DEF Show, Goto, Write
<1>21. ASSUME NEW h \in Handlers, Granted(h) PROVE Goal
  BY <1>21 DEF Granted, Goto, Write
<1>22. ASSUME NEW h \in Handlers, Exchanged(h) PROVE Goal
  BY <1>22 DEF Exchanged, Goto, Write
<1>23. ASSUME NEW h \in Handlers, PostFails(h) PROVE Goal
  BY <1>23 DEF PostFails, Goto, Write
<1>24. ASSUME NEW h \in Handlers, DieOfRace(h) PROVE Goal
  BY <1>24 DEF DieOfRace, local
<1>25. ASSUME NEW h \in Handlers, NEW c \in Code, Authorise(h, c) PROVE Goal
  BY <1>25 DEF Authorise, local
<1> QED
  BY <1>u, <1>0, <1>1, <1>2, <1>3, <1>4, <1>5, <1>6, <1>7, <1>8, <1>9, <1>10, <1>11,
     <1>12, <1>13, <1>14, <1>15, <1>16, <1>17, <1>18, <1>19, <1>20, <1>21, <1>22, <1>23, <1>24, <1>25
     DEF Next, Step, TokenAnswer, Quiet

(* However many requests arrive: mu is never held by a goroutine that      *)
(* waits for the provider or has returned; and every step, until the       *)
(* process ends, takes one request further on its way of twelve steps at   *)
(* the most, with an answer at its end, or is a user who agrees to a login *)
(* (http.PostForm is called without mu; every path unlocks and writes).    *)
(* ServedWhileProviderSilent adds that the steps are taken.                *)
THEOREM EveryWayEndsInAnAnswer ==
    Spec => /\ [](MuPassedOn /\ DoneAnswered)
            /\ [][OneGoesOn \/ up' # up \/ \E l \in Handlers, c \in Code : Authorise(l, c)]_vars
<1> DEFINE I == LoginInv /\ MuPassedOn /\ DoneAnswered
           Onwards == OneGoesOn \/ up' # up \/ \E l \in Handlers, c \in Code : Authorise(l, c)
<1>1. Init => I
  BY LoginInit DEF Init, MuPassedOn, DoneAnswered
<1>2. I /\ [Next]_vars => I'
  BY LoginStep, WayStep DEF LoginInv
<1>3. I /\ [Next]_vars => [Onwards]_vars
  BY OnwardStep DEF LoginInv, Next, Quiet
<1> QED
  BY <1>1, <1>2, <1>3, PTL DEF Spec
================================================================================
