------------------------------ MODULE OidcLogin ------------------------------
(***************************************************************************)
(* The relying parties of src/OIDC: s1-implicit-flow/main.go and           *)
(* s3-spa-pkce/main.go ("pkce"), s2-confidential-no-pkce/main.go           *)
(* ("secret") and s4-dirty-dance/auth_code.go ("dance").                   *)
(*                                                                         *)
(* net/http serves every request in a goroutine h of its own.  The         *)
(* goroutines share the map of sessions and, with PKCE, the map of pending *)
(* logins, under the mutex mu; /callback leaves the mutex to ask the       *)
(* provider for tokens.  Each statement of a critical section is an        *)
(* action.  Random values are new, so each is named after the goroutine    *)
(* that draws it: a login draws the state h and the verifier h, a callback *)
(* the session identifier h.                                               *)
(***************************************************************************)
EXTENDS Naturals

CONSTANTS
    Apps,           \* the relying parties, one of which runs
    Handlers,       \* one per HTTP request
    Paths,          \* the paths that are asked for
    Code,           \* authorization codes of the provider
    NoHandler,      \* none, of what goroutines draw; the empty string
    NoCode          \* the query has no code; no session; no body

Path == {"login", "callback", "me", "home"}
Drawn == Handlers \cup {NoHandler}

(* A query is code and state; a cookie is sid. *)
Request == [path : Path, code : Code \cup {NoCode}, state : Drawn, sid : Drawn]

(* What the provider answers is named after the code it was asked for.     *)
(* "cut": a connection lost in the middle of the body.                     *)
Body == Code \cup {"cut"}
Text == Code \cup {"null"}

ASSUME OidcAssumption ==
    /\ Apps \subseteq {"pkce", "secret", "dance"}
    /\ Paths \subseteq Path
    /\ NoHandler \notin Handlers
    /\ NoCode \notin Code \cup {"null", "cut"}

VARIABLES
    app,        \* the program that runs
    pending,    \* state -> verifier
    sessions,   \* sid -> text
    mu,         \* the goroutine that holds mu, or NoHandler
    up,         \* the process is alive
    pc,         \* where each goroutine is
    req,        \* its request
    verifier,   \* its verifier, as read from pending
    sid,        \* the sid it works with, as returned by sidFrom
    body,       \* the token response it read
    answer,     \* what it wrote to its client
    issued,     \* provider: the login each code was issued for
    redeemed    \* provider: the codes that have been exchanged

local == <<pc, req, verifier, sid, body, answer>>
provider == <<issued, redeemed>>
around == <<app, provider>>
vars == <<pending, sessions, mu, up, local, around>>

Pkce == app = "pkce"

NoRequest == [path |-> "home", code |-> NoCode, state |-> NoHandler, sid |-> NoHandler]

Init ==
    /\ app \in Apps
    /\ pending = [s \in Handlers |-> NoHandler]
    /\ sessions = [s \in Handlers |-> NoCode]
    /\ mu = NoHandler
    /\ up = TRUE
    /\ pc = [h \in Handlers |-> "idle"]
    /\ req = [h \in Handlers |-> NoRequest]
    /\ verifier = [h \in Handlers |-> NoHandler]
    /\ sid = [h \in Handlers |-> NoHandler]
    /\ body = [h \in Handlers |-> NoCode]
    /\ answer = [h \in Handlers |-> "none"]
    /\ issued = [c \in Code |-> NoHandler]
    /\ redeemed = {}

Goto(h, from, to) == pc[h] = from /\ pc' = [pc EXCEPT ![h] = to]
Write(h, what) == answer' = [answer EXCEPT ![h] = what]

-------------------------------------------------------------------------------
(* The provider and the browsers. *)

(* The user agrees: a code for the redirect of login l. *)
Authorise(l, c) ==
    /\ answer[l] = "redirect" /\ issued[c] = NoHandler
    /\ issued' = [issued EXCEPT ![c] = l]
    /\ UNCHANGED <<pending, sessions, mu, up, local, app, redeemed>>

(* A request arrives.  States and identifiers are random: nobody presents  *)
(* one before it was handed out.  Which code comes with which state is the *)
(* browser's doing, and it may ask again.                                  *)
Receive(h) ==
    /\ Goto(h, "idle", "start")
    /\ \E p \in Paths, c \in Code \cup {NoCode}, s, i \in Drawn :
        /\ p # "callback" => c = NoCode /\ s = NoHandler
        /\ p \notin {"me", "home"} => i = NoHandler
        /\ c \in Code => issued[c] # NoHandler
        /\ s \in Handlers => answer[s] = "redirect"
        /\ i \in Handlers => answer[i] = "loggedIn"
        /\ req' = [req EXCEPT ![h] = [path |-> p, code |-> c, state |-> s, sid |-> i]]
    /\ UNCHANGED <<pending, sessions, mu, up, verifier, sid, body, answer, around>>

(* A code is exchanged once and, with PKCE, by the verifier whose          *)
(* challenge came with the login it was issued for.                        *)
Redeemable(h) ==
    /\ req[h].code \notin redeemed
    /\ Pkce => issued[req[h].code] = verifier[h]

-------------------------------------------------------------------------------
(* mu.Lock() and mu.Unlock() *)

LockCoversExchange(h) ==                                         \* faulty
    /\ mu = NoHandler /\ \A g \in Handlers : pc[g] # "post"
    /\ \/ Goto(h, "lockPut", "put") \/ Goto(h, "lockTake", "take")
       \/ Goto(h, "lockInsert", "insert")
       \/ Goto(h, "lockSid", "readSid") \/ Goto(h, "lockRead", "read")
    /\ mu' = h
    /\ UNCHANGED <<pending, sessions, up, req, verifier, sid, body, answer, around>>
LockNotTaken(h) ==                                               \* faulty
    /\ \/ Goto(h, "lockPut", "put") \/ Goto(h, "lockTake", "take")
       \/ Goto(h, "lockInsert", "insert")
       \/ Goto(h, "lockSid", "readSid") \/ Goto(h, "lockRead", "read")
    /\ mu' = h
    /\ UNCHANGED <<pending, sessions, up, req, verifier, sid, body, answer, around>>
Lock(h) ==
    /\ mu = NoHandler
    /\ \/ Goto(h, "lockPut", "put") \/ Goto(h, "lockTake", "take")
       \/ Goto(h, "lockInsert", "insert")
       \/ Goto(h, "lockSid", "readSid") \/ Goto(h, "lockRead", "read")
    /\ mu' = h
    /\ UNCHANGED <<pending, sessions, up, req, verifier, sid, body, answer, around>>

Unlock(h) ==
    /\ \/ Goto(h, "unlockPut", "redirect") \/ Goto(h, "unlockTake", "check")
       \/ Goto(h, "unlockInsert", "page")
       \/ Goto(h, "unlockSid", "gotSid") \/ Goto(h, "unlockRead", "show")
    /\ mu' = NoHandler
    /\ UNCHANGED <<pending, sessions, up, req, verifier, sid, body, answer, around>>

-------------------------------------------------------------------------------
(* login *)

(* state := randB64(16), verifier := randB64(32); only with PKCE the state *)
(* is stored.                                                              *)
BeginLoginRedirecting(h) ==                                      \* faulty
    /\ req[h].path = "login"
    /\ Goto(h, "start", IF Pkce THEN "lockPut" ELSE "redirect")
    /\ Write(h, "redirect")
    /\ UNCHANGED <<pending, sessions, mu, up, req, verifier, sid, body, around>>
BeginLogin(h) ==
    /\ req[h].path = "login"
    /\ Goto(h, "start", IF Pkce THEN "lockPut" ELSE "redirect")
    /\ UNCHANGED <<pending, sessions, mu, up, req, verifier, sid, body, answer, around>>

(* pending[state] = verifier *)
Put(h) ==
    /\ Goto(h, "put", "unlockPut")
    /\ pending' = [pending EXCEPT ![h] = h]
    /\ UNCHANGED <<sessions, mu, up, req, verifier, sid, body, answer, around>>

Redirect(h) ==
    /\ Goto(h, "redirect", "done")
    /\ Write(h, "redirect")
    /\ UNCHANGED <<pending, sessions, mu, up, req, verifier, sid, body, around>>

-------------------------------------------------------------------------------
(* callback *)

(* if code == "" *)
NoCodeGiven(h) ==
    /\ req[h].path = "callback" /\ req[h].code = NoCode
    /\ Goto(h, "start", "done")
    /\ Write(h, "plain")
    /\ UNCHANGED <<pending, sessions, mu, up, req, verifier, sid, body, around>>

BeginCallback(h) ==
    /\ req[h].path = "callback" /\ req[h].code # NoCode
    /\ Goto(h, "start", IF Pkce THEN "lockTake" ELSE "post")
    /\ UNCHANGED <<pending, sessions, mu, up, req, verifier, sid, body, answer, around>>

(* verifier := pending[state] *)
TakeAny(h) ==                                                    \* faulty
    /\ Goto(h, "take", "delete")
    /\ \E s \in Handlers : verifier' = [verifier EXCEPT ![h] = pending[s]]
    /\ UNCHANGED <<pending, sessions, mu, up, req, sid, body, answer, around>>
Take(h) ==
    LET s == req[h].state
        v == IF s \in Handlers THEN pending[s] ELSE NoHandler
    IN  /\ Goto(h, "take", "delete")
        /\ verifier' = [verifier EXCEPT ![h] = v]
        /\ UNCHANGED <<pending, sessions, mu, up, req, sid, body, answer, around>>

(* delete(pending, state) *)
DeleteForgotten(h) ==                                            \* faulty
    /\ Goto(h, "delete", "unlockTake")
    /\ UNCHANGED <<pending, sessions, mu, up, req, verifier, sid, body, answer, around>>
Delete(h) ==
    /\ Goto(h, "delete", "unlockTake")
    /\ pending' = [s \in Handlers |-> IF s = req[h].state THEN NoHandler ELSE pending[s]]
    /\ UNCHANGED <<sessions, mu, up, req, verifier, sid, body, answer, around>>

(* if verifier == "" *)
UnknownState(h) ==
    /\ verifier[h] = NoHandler
    /\ Goto(h, "check", "done")
    /\ Write(h, "unknownState")
    /\ UNCHANGED <<pending, sessions, mu, up, req, verifier, sid, body, around>>
KnownState(h) ==
    /\ verifier[h] # NoHandler
    /\ Goto(h, "check", "post")
    /\ UNCHANGED <<pending, sessions, mu, up, req, verifier, sid, body, answer, around>>

(* http.PostForm: the provider grants the tokens; the error of reading the *)
(* body is ignored.                                                        *)
GrantedEarly(h) ==                                               \* faulty
    /\ app # "dance"
    /\ Goto(h, "post", "lockInsert")
    /\ Redeemable(h)
    /\ redeemed' = redeemed \cup {req[h].code}
    /\ \E b \in {req[h].code, "cut"} : body' = [body EXCEPT ![h] = b]
    /\ Write(h, "loggedIn")
    /\ UNCHANGED <<pending, sessions, mu, up, req, verifier, sid, app, issued>>
Granted(h) ==
    /\ app # "dance"
    /\ Goto(h, "post", "lockInsert")
    /\ Redeemable(h)
    /\ redeemed' = redeemed \cup {req[h].code}
    /\ \E b \in {req[h].code, "cut"} : body' = [body EXCEPT ![h] = b]
    /\ UNCHANGED <<pending, sessions, mu, up, req, verifier, sid, answer, app, issued>>

(* exchangeCode of s4 asks for the status and for the whole body, and      *)
(* keeps nothing.                                                          *)
Exchanged(h) ==
    /\ app = "dance" /\ Redeemable(h)
    /\ redeemed' = redeemed \cup {req[h].code}
    /\ \/ Goto(h, "post", "page") /\ UNCHANGED answer
       \/ Goto(h, "post", "done") /\ Write(h, "exchangeFailed")
    /\ UNCHANGED <<pending, sessions, mu, up, req, verifier, sid, body, app, issued>>

(* http.PostForm: an error status, or no answer, whether or not the        *)
(* provider has seen the request.                                          *)
PostFails(h) ==
    /\ Goto(h, "post", "done")
    /\ \/ UNCHANGED redeemed
       \/ Redeemable(h) /\ redeemed' = redeemed \cup {req[h].code}
    /\ Write(h, "exchangeFailed")
    /\ UNCHANGED <<pending, sessions, mu, up, req, verifier, sid, body, app, issued>>

(* json.Unmarshal into a nil map, its error ignored, and MarshalIndent:    *)
(* what cannot be parsed becomes null.                                     *)
Nice(b) == IF b = "cut" THEN "null" ELSE b

(* sessions[sid] = string(nice) *)
Insert(h) ==
    /\ Goto(h, "insert", "unlockInsert")
    /\ sessions' = [sessions EXCEPT ![h] = Nice(body[h])]
    /\ UNCHANGED <<pending, mu, up, req, verifier, sid, body, answer, around>>

(* The page and its cookie.  s2 reads sessions again for it, without mu:   *)
(* while another goroutine writes to the map, the runtime may detect the   *)
(* race and end the process.                                               *)
Races(h) == app = "secret" /\ \E g \in Handlers \ {h} : pc[g] = "insert"
LoggedIn(h) ==
    /\ Goto(h, "page", "done")
    /\ Write(h, "loggedIn")
    /\ UNCHANGED <<pending, sessions, mu, up, req, verifier, sid, body, around>>
DieOfRace(h) ==
    /\ pc[h] = "page" /\ Races(h)
    /\ up' = FALSE
    /\ UNCHANGED <<pending, sessions, mu, local, around>>

-------------------------------------------------------------------------------
(* me and home *)

BeginRead(h) ==
    /\ req[h].path \in {"me", "home"} /\ app # "dance"
    /\ Goto(h, "start", "lockSid")
    /\ UNCHANGED <<pending, sessions, mu, up, req, verifier, sid, body, answer, around>>

(* s4 has a fixed home page, and me asks for no more than a cookie.        *)
Stateless(h) ==
    /\ req[h].path \in {"me", "home"} /\ app = "dance"
    /\ Goto(h, "start", "done")
    /\ Write(h, IF req[h].path = "home" THEN "plain"
                ELSE IF req[h].sid # NoHandler THEN "authenticated" ELSE "anonymous")
    /\ UNCHANGED <<pending, sessions, mu, up, req, verifier, sid, body, around>>

(* sidFrom, or lookup of s2: the cookie, if there is a session for it *)
ReadSid(h) ==
    LET i == req[h].sid
        known == i \in Handlers /\ sessions[i] # NoCode
    IN  /\ Goto(h, "readSid", "unlockSid")
        /\ sid' = [sid EXCEPT ![h] = IF known THEN i ELSE NoHandler]
        /\ UNCHANGED <<pending, sessions, mu, up, req, verifier, body, answer, around>>

(* me of s1 and s3 looks again; me of s2 and every home have what they need. *)
LookAgain(h) ==
    /\ Pkce /\ req[h].path = "me"
    /\ Goto(h, "gotSid", "lockRead")
    /\ UNCHANGED <<pending, sessions, mu, up, req, verifier, sid, body, answer, around>>
Enough(h) ==
    /\ ~(Pkce /\ req[h].path = "me")
    /\ Goto(h, "gotSid", "done")
    /\ Write(h, IF sid[h] # NoHandler THEN "authenticated" ELSE "anonymous")
    /\ UNCHANGED <<pending, sessions, mu, up, req, verifier, sid, body, around>>

(* tok, ok := sessions[sid] *)
Read(h) ==
    LET text == IF sid[h] \in Handlers THEN sessions[sid[h]] ELSE NoCode
    IN  /\ Goto(h, "read", "unlockRead")
        /\ body' = [body EXCEPT ![h] = text]
        /\ UNCHANGED <<pending, sessions, mu, up, req, verifier, sid, answer, around>>
Show(h) ==
    /\ Goto(h, "show", "done")
    /\ Write(h, IF body[h] # NoCode THEN "authenticated" ELSE "anonymous")
    /\ UNCHANGED <<pending, sessions, mu, up, req, verifier, sid, body, around>>

-------------------------------------------------------------------------------
(* What the process does on its own, and what it waits for. *)
Step(h) ==
    \/ Lock(h) \/ Unlock(h)
    \/ BeginLogin(h) \/ Put(h) \/ Redirect(h)
    \/ NoCodeGiven(h) \/ BeginCallback(h) \/ Take(h) \/ Delete(h)
    \/ UnknownState(h) \/ KnownState(h) \/ Insert(h) \/ LoggedIn(h) \/ DieOfRace(h)
    \/ BeginRead(h) \/ Stateless(h) \/ ReadSid(h) \/ LookAgain(h) \/ Enough(h) \/ Read(h) \/ Show(h)
TokenAnswer(h) == Granted(h) \/ Exchanged(h) \/ PostFails(h)

(* Nothing is left to serve, or nobody to serve it. *)
Quiet == (~up \/ \A h \in Handlers : pc[h] = "done") /\ UNCHANGED vars

Next ==
    \/ up /\ \E h \in Handlers :
        Receive(h) \/ Step(h) \/ TokenAnswer(h) \/ \E c \in Code : Authorise(h, c)
    \/ Quiet

(* Goroutines are scheduled and take mu at most twice; neither browsers    *)
(* nor the provider owe anything, and http.PostForm has no time limit.     *)
Spec == Init /\ [][Next]_vars
FairSpec == Spec /\ \A h \in Handlers : WF_vars(up /\ Step(h))

-------------------------------------------------------------------------------
Labels == {"idle", "start", "lockPut", "put", "unlockPut", "redirect",
           "lockTake", "take", "delete", "unlockTake", "check", "post",
           "lockInsert", "insert", "unlockInsert", "page",
           "lockSid", "readSid", "unlockSid", "gotSid",
           "lockRead", "read", "unlockRead", "show", "done"}
Answers == {"none", "redirect", "plain", "unknownState", "exchangeFailed", "loggedIn",
            "authenticated", "anonymous"}

(* Every variable has its type; what sessions holds is marshalled text,    *)
(* whatever the provider sent.                                             *)
TypeOK ==
    /\ app \in Apps
    /\ pending \in [Handlers -> Drawn]
    /\ sessions \in [Handlers -> Text \cup {NoCode}]
    /\ mu \in Drawn /\ up \in BOOLEAN
    /\ pc \in [Handlers -> Labels] /\ req \in [Handlers -> Request]
    /\ verifier \in [Handlers -> Drawn] /\ sid \in [Handlers -> Drawn]
    /\ body \in [Handlers -> Body \cup Text \cup {NoCode}]
    /\ answer \in [Handlers -> Answers]
    /\ issued \in [Code -> Drawn] /\ redeemed \subseteq Code

(* The callback h has consumed the state it was given. *)
Consumed(h) ==
    /\ verifier[h] # NoHandler
    /\ pc[h] \notin {"take", "delete"}

(* A state is consumed by one callback at most, however many arrive with   *)
(* it at the same time or later (callback: read and delete under mu).      *)
StateSpentOnce ==
    \A g, h \in Handlers :
        Consumed(g) /\ Consumed(h) /\ req[g].state = req[h].state => g = h

(* A callback is told that its state is unknown, although the state was    *)
(* handed out, only if another callback has consumed it; in particular the *)
(* login is on record before its redirect leaves.                          *)
StateHonoured ==
    \A h \in Handlers : answer[h] = "unknownState" /\ req[h].state \in Handlers =>
        \E g \in Handlers \ {h} : Consumed(g) /\ req[g].state = req[h].state

(* A session, or the cookie of one, exists only for a code that was        *)
(* exchanged, one for each code, and with PKCE the code was issued for the *)
(* very login whose state the callback presented, whatever mix of codes    *)
(* and states the browsers present (callback: the verifier is the one      *)
(* stored under state).                                                    *)
HasSession(h) == sessions[h] # NoCode \/ answer[h] = "loggedIn"
SessionOfItsLogin ==
    \A h \in Handlers : HasSession(h) =>
        /\ req[h].code \in redeemed
        /\ Pkce => issued[req[h].code] = req[h].state
        /\ \A g \in Handlers : HasSession(g) /\ req[g].code = req[h].code => g = h

(* Whoever was given a session cookie is recognised with it from then on:  *)
(* the session is in the map before the cookie leaves.                     *)
CookieHonoured ==
    \A h \in Handlers : answer[h] = "anonymous" => req[h].sid = NoHandler

(* /login, /api/me and / are answered even while the provider keeps other  *)
(* requests waiting for ever: no goroutine waits for it with mu held.  A   *)
(* process that the runtime has ended answers nobody.                      *)
ServedWhileProviderSilent ==
    \A h \in Handlers :
        (pc[h] = "start" /\ req[h].path # "callback") ~> (pc[h] = "done" \/ ~up)

(* The life of a state, as SingleUseTokens tells it. *)
Consumer(s) == {h \in Handlers : Consumed(h) /\ req[h].state = s}
statusOf ==
    [s \in Handlers |->
        IF Consumer(s) = {} THEN IF pending[s] = NoHandler THEN "unissued" ELSE "open"
        ELSE IF \A h \in Consumer(s) : answer[h] = "none" THEN "claimed"
        ELSE IF \E h \in Consumer(s) : answer[h] = "loggedIn" THEN "accepted"
        ELSE "rejected"]
States == INSTANCE SingleUseTokens WITH Token <- Handlers, status <- statusOf

(* With PKCE the states implement SingleUseTokens: one callback claims a   *)
(* login and settles it for good, by a session or by a failure after which *)
(* the login has to start again.                                           *)
IssuesSingleUseStates == States!Spec
==============================================================================
