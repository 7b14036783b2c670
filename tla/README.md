# Models and proofs for the GoSecurity laboratory

The repository is a set of small Go programs around authentication protocols
and their weaknesses. The parts with state, concurrency and an unreliable
network are the RADIUS laboratory (a mock server, and two clients that probe
RADIUS servers), the relying parties of OIDC, and the server of the SQL lab.
These modules model them in TLA+, check them with TLC on small instances, and
prove with TLAPS, for every instance, every safety property of the runs: the
RADIUS server and its clients, alone and against each other over UDP, the OIDC
relying parties, and the SQL lab.

    tlc -config MCMockServer.cfg MCMockServer.tla       # one of the runs
    tlapm MockServerProofs.tla                          # the proofs of a module

## The system

| part | source | state | operations |
|---|---|---|---|
| mock RADIUS server | `RADIUS/server/mock/server.go` | `users`, `cfg` (fixed after start); `otpSessions`, `eapSessions` under `mu` | one handler per mode: `papHandler`, `papOTPHandler`, `chapHandler`, `eapMD5Handler`, each started by the packet library in a goroutine per datagram |
| v2 client, challenge scenario | `RADIUS/client/v2/stateful.go` | `currentState`, the loop variable, the baseline fingerprint and the notice, the password found | `runChallengeScenario`: first request, guesses, probes |
| v2 client, fuzz scenario | `RADIUS/client/v2/fuzz.go` | loop variable, `fuzzContext` (rng, list, index), findings | ten mutators, `runFuzzScenario` with its health checks |
| v2 client, encoder | `packet.go`, `package.go` | none | `appendAttrSpec`, `buildPacketFromSpec`, `encryptPAP`, `sendRawUDP` |
| v2 client, runner | `scenario.go`, `raw.go`, `packet.go`, `config.go`, `main.go` | count of failures | `loadConfig`, `validate`, `resolveScenario`, `runScenarios`, `runRawScenario`, `runPacketScenario` |
| v2 client, PAP exchange | `pap.go`, `challenge.go`, `messageAuthenticator.go` | none | `exchange`, the two verifications, `parseAttributes` |
| v1 client | `RADIUS/client/v1/` | none beyond one exchange, or the loop of a fuzz run | the modes `pap`, `eap-md5`, `raw`, `fuzz`; packet builder, mutations, dump |
| OIDC relying parties | `OIDC/s1..s4/` | `pending` logins and `sessions` under `mu` (s1, s3), `sessions` (s2), none (s4) | `login`, `callback`, `me`, `home`, each request in a goroutine |
| SQL lab | `SQLi/sqli.go` | the table `users` in the SQLite file `lab.db`; the connection pool of `database/sql` | `main`, `initDB`, and 32 handlers: a pair, safe and unsafe, for each way to build a statement |
| SQL lab in JavaScript | `SQLi/nodejs/server.js` | a database | the same demonstrations |
| AuthZ, gRPC, REST, CSP, VulnWebAPP | their directories | none, or only a database | request handlers |
| CGo demonstrations | `CGo/` | none | straight-line programs |

RADIUS clients and server interact by UDP datagrams. A client sends every
request from a new socket with a deadline and reads at most one answer; the
server answers the address a datagram came from. Within the server the
goroutines share the two session maps. A relying party talks to a browser and,
within a callback, to the provider. The handlers of the SQL lab share the pool,
and through it the locks of SQLite; a second process may be started on the same
file.

What is hard here, and what makes each part correct:

* The server. Concurrent handlers on one map. A State must be good for one
  verdict; a challenge that was sent must be answerable until somebody answers
  it; an accept must have been earned by the very round it answers; every
  handler must reply and give the mutex back.
* The challenge scenario. Its verdict, its notice of a lock-out and its probes
  are drawn from answers that may be lost, and from States that the server
  consumes. Which State goes into which guess; how many guesses are made; that
  the client ends.
* Both together. UDP loses, delays, duplicates and reorders. What the client
  reports must be what the server did.
* The EAP-MD5 exchange. Two rounds under one deadline: the second request must
  carry the identifier of the challenge in its digest; a pass must have been
  earned, and a failure must have a cause.
* The PAP exchange. Three checks walk over bytes the peer chose, two of them
  with loops of their own. They must stay inside the datagram and agree.
* The fuzz scenario. A server that dies must be noticed, and soon; a mutation
  must change what it says it changes and nothing else.
* The runner. Some flaws of a file are known before the run and some only when
  a scenario has its turn; a lost packet, a dead server or a panic under one
  scenario must not falsify the verdict on another, nor the exit status.
* The byte fuzzer. Length bytes wrap and lie; what is printed must be what was
  sent as far as that can be told; mutations must not pile up; a run must get
  to its end whatever comes back.
* The relying parties. A state must be good for one callback and known until
  then; the verifier is read under the mutex and used long after; a session
  must belong to the login its code was issued for; a provider that is silent
  must hold up nobody but the callback that waits for it.
* The SQL lab. A request changes the table in one step or not at all, although
  transactions, autocommit statements, readers and a restart share one file;
  rows and transactions must give their connection back; a failed `Commit`
  leaves its transaction open on a connection that others will use; a `NULL`
  role breaks a listing in the middle, and `rows.Err` is not asked.

## Modules

| module | models | uses |
|---|---|---|
| `SingleUseTokens` | the abstract promise about a value handed out once: unissued, open, claimed, then accepted or rejected, for good | |
| `MockServer` | `server.go`, all four modes | refines `SingleUseTokens` |
| `MockServerProofs` | theorems about `MockServer` | `MockServer`, `TLAPS` |
| `ChallengeClient` | `runChallengeScenario`, against a server that may answer anything | |
| `ChallengeClientProofs` | theorems about `ChallengeClient` | `ChallengeClient`, `TLAPS` |
| `OtpExchange` | the challenge scenario against the server in mode `pap+otp`, over UDP | `MockServer`, `ChallengeClient` |
| `OtpExchangeProofs` | theorems about `OtpExchange` | `OtpExchange`; `MockServerProofs` and `ChallengeClientProofs` as instances |
| `AttrSpecs` | the framing made by the encoder, and the mutators, as operators | |
| `FuzzScenario` | `runFuzzScenario`, against a server that may go down | `AttrSpecs` |
| `ScenarioRunner` | a whole run of the v2 client over a file of scenarios | |
| `ScenarioProofs` | theorems about `ScenarioRunner` and about `FuzzScenario` | `ScenarioRunner`, `FuzzScenario`, `TLAPS` |
| `EapExchange` | the EAP-MD5 mode of the v1 client against the server in mode `eap-md5`, over UDP, with a clock | `MockServer` |
| `ClientV1Proofs` | theorems about `EapExchange` and about `ByteFuzzer` | `EapExchange`, `ByteFuzzer`; `MockServerProofs` as an instance |
| `ByteFuzzer` | the modes `pap`, `raw` and `fuzz` of the v1 client | |
| `PapExchange` | `exchange` and `runPAP` of the v2 client, against a server that may answer any bytes | |
| `PapExchangeProofs` | theorems about `PapExchange` | `PapExchange`, `TLAPS` |
| `OidcLogin` | the relying parties s1 and s3 (`"pkce"`), s2 (`"secret"`) and s4 (`"dance"`), with a provider that issues and redeems codes | refines `SingleUseTokens` |
| `OidcLoginProofs` | theorems about `OidcLogin` | `OidcLogin`, `TLAPS` |
| `RequestTable` | the abstract promise about the table of the SQL lab: a request changes it once and by its whole effect, or leaves no trace | |
| `SqlStatements` | the statements of the 32 handlers, as operators on the table | |
| `SqlLab` | the server of the SQL lab: `main`, `initDB`, every handler, the pool, the locks | `SqlStatements`, refines `RequestTable` |
| `SqlLabProofs` | theorems about `SqlLab` | `SqlLab`, `TLAPS` |
| `MC...` | values of the constants for TLC | the module of that name |

Operators marked `\* faulty` are wrong variants of the definition that follows
them. No specification uses them; they record, for each property, a plausible
bug that the property finds.

### MockServer

Each datagram has a handler `h` of its own; `pc[h]` says where it is. The
statements between `mu.Lock()` and `mu.Unlock()` are actions of their own
(`Insert`; `Lookup`, `Delete`), so mutual exclusion is the work of `mu` and not
of the model. What a handler does on its own is one action: `Decide` is all
that ends in a reply before the map is touched, the whole of `papHandler` and
`chapHandler` included; `DrawToken` is round 1 up to the lock; `WriteChallenge`
and `Judge` are what follows the unlock.

`mode` is a variable that never changes: `Init` takes any of the four.
`sessions` is `otpSessions` or `eapSessions`, whichever the mode uses (a process
runs one mode). A session of pap+otp has no `eapID`; the field `id` of the model
is then never read. `tok[h]` is `token` or `state` of the handler, `sess[h]` its
copy of the session, `used` what `randBytes` has returned: 16 random bytes are
taken to be new. The challenge of an EAP session is drawn together with its
State, so the State stands for it, and a digest is the triple it is computed
from: MD5 and HMAC-MD5 are taken to be free of collisions, and `checkMA` is its
verdict (absent, valid, invalid).

The environment (`Receive`) presents any of `Requests[mode]`, but a State of
this process only after a challenge has carried it: 16 random bytes are not
guessed.

### ChallengeClient and OtpExchange

`cpc` is the place in `runChallengeScenario`; between a `Send...` action and the
action that treats its answer the request is outstanding (`out`). An answer is
what `sendRawUDP` can return: a timeout, another network error, an empty
datagram, or a message with what the code reads from it: the code, whether
`parseAttributes` succeeds, the State and the Reply-Message. `talk` records
every request with its answer; the properties are about it, no guard is.
`StateCarried` reads off `talk` which State is in force at each turn (`InForce`):
that of the last answer before it that offered one. A guess carries it as it is,
a probe what `applyStateCheck` makes of it, and an answer to a probe offers none.

`OtpExchange` keeps all datagrams ever sent. Delivery of one starts a handler
and may happen at any time, again and again, or never; replies are read only by
the request (socket) they answer, and only while it is outstanding. The
deadline of a read may expire at any moment.

`Guesses` are the turns of `talk` that were guesses.
`RangeTried` says which they must be: the second turn and so on, without a gap,
as many as the range or `max_attempts` allow, and in sequence with the one-time
password of their turn. It takes a range whose size does not wrap: one from 0
to the largest integer has a size below zero, and no guess is made.

### AttrSpecs and FuzzScenario

An attribute value is the form of its text and its number of bytes; that is
what the encoder asks of it. Mutators that draw random numbers are sets of
results. A scenario may send what the server drops, answers, or dies of;
`sinceCheck` and `accepted` are history variables for the properties.
`scAttrs` is the slice that every iteration starts from. `Mutate` leaves it as it
is, since `cloneAttrs` copies it; without the copy (`MutateUncloned`) a mutation
written in place is in every packet that follows, which takes two iterations and
`OneChange` to see. The health check sends `seedPkt`, built before the loop.
`validated` is what `validate` has let through when the scenario starts; the
module assumes it of its constants, and so do the theorems. `Sized` says that a
text which `net.ParseIP` reads as an address is no longer than one.

`LinesInTurn` counts the turns of `marked_range` so far; the list must have a
line and the seed a marker, or the mutator does nothing. `FramingKept` takes a
seed whose lengths are true (`TrueSeed`). An address with a length of its own is
left out of that: `unknown_type` keeps the length and sends the address as its
text. It also takes lines of up to 240 bytes, which fit an attribute once they
are padded for encryption.

### ScenarioRunner

`cfg` is the file, with one field for each thing the control flow asks of a
scenario; `flaws` holds what else is wrong with it, and `Checked` which of these
`validate` looks at for each type. Scenarios of one packet (`raw`, `packet`) go
over a network that delays and loses, to servers that drop, answer with any
code, answer with no byte, or crash. A scenario waits on a socket of its own
(`Receive` takes only replies to scenario `k`), and a server may come to a
packet long after its scenario is over. Scenarios of many packets (`fuzz`,
`challenge`) run in one step to one of the ends their own modules have.
`sent`, `reacted` and `mishap` are history for the properties; no guard reads
them. `Configs` is any set of files of the right shape (`Config`): what is wrong
with a file is found by `validate` or by the run, as in the code.
`FlawsStopped` goes by the flaws of each type and not by `Checked`, so that a
`validate` that forgets a check violates it.

`LateFlaws` are those that `validate` does not look for: an attribute that is
unknown or bad hex, a second Message-Authenticator to compute, a datagram longer
than the socket takes, and a fuzzlist that `os.Stat` finds and `loadFuzzList`
cannot use, being a directory or blank. With one of these a scenario sends
nothing. `FlawsStopped` says that it then fails, also when it asserts silence
(`response: Timeout`): such a scenario may be content with a timeout
(`ContentWith`), and not with just any error of `sendRawUDP`. The one case in
which a scenario passes without a packet is a timeout of zero or less, which has
passed before the packet is written; `NoTime` names it.

### EapExchange

The server is an instance of `MockServer`, the network is that of
`OtpExchange`. The clock `now` advances at any time, but not past the deadline
of a read that is outstanding; `Deadline` is what `exchangeRaw` computes from
its own timeout and the deadline of the context, which `main` sets once for the
whole run. The password given to the client is any. `Strays` are answers the
mock server never gives, one for each way `testEAPMD5` treats an answer; a
datagram too short to be indexed panics. None of them says Access-Accept
(`StrayAssumption`): this client verifies nothing and would believe it.
`FailMeansNetwork` speaks of a server without `-require-ma`, since the client
sends no Message-Authenticator in this mode.

### ByteFuzzer

Packets are sequences of bytes below `ByteMod`. `Build` is `packet.go`, with the
length byte and the length field that wrap or are overridden; `fuzzMutation` is
the set of results of one mutation; `decodeAttrs` is the walk of `dump.go`, and
`dumped` what `dumpPacket` shows of the packet of this iteration. Values drawn
at random are a number of equal bytes, and authenticators are left out. An
attribute value from the command line is its kind and its size. `Encrypts` is the
library's `NewUserPassword`, which refuses a password of more than 128 bytes and
an empty secret.

### PapExchange

This module too has bytes: the answer is a sequence of type and length bytes
(values are skipped by the code, so any byte may stand in them), with a declared
length that may lie. `at` names the check that runs, `i` the index of its loop;
each turn of a loop is an action, and a read out of bounds is the result
`"panic"`. A digest is what it was computed over. The response authenticator
covers the declared bytes, the HMAC all bytes received: padding after the
declared length is tolerated in an answer without a Message-Authenticator and
not in one with it. `ReportedExactly` says so.

### OidcLogin

As in `MockServer` each request has a goroutine with a `pc`, and the statements
between `mu.Lock()` and `mu.Unlock()` are actions. `app` is the program, fixed
by `Init`. Random values are named after the goroutine that draws them.
`sessions[h]` is the text the callback `h` stored: what the provider answered,
or `"null"` when the body was cut short, since the errors of `ReadAll` and
`Unmarshal` are ignored. The provider issues a code for a login and redeems it
once, with PKCE only for the verifier of that login; browsers present any code
they were issued with any state that was handed out. `me` of s1 and s3 looks up
the session twice. In s2 the page reads the map without the mutex; when that
meets a write the runtime may end the process (`DieOfRace`). s4 asks for the
whole body before it believes in it (`Exchanged`), keeps no session, and takes
any cookie for a login.

### SqlStatements and SqlLab

The table is a function from identifiers to rows, with `NULL` where a handler
inserts none. A request is a route, whether its handler is the safe one, and
its parameters. A text is a value; what SQL makes of it is given by constants:
which texts have an apostrophe, which are numbers, which names each is `LIKE` a
part of, which are conditions. `InOrder` lists rows in an order, `ById` in that
of their identifiers; `Refused` is what a safe handler answers 400. A statement of an unsafe handler into which a
text with an apostrophe was written does not compile; texts that would change
the meaning of a statement are not given to the model.

A request holds a connection from `Query` to `WriteUsers`, or from `Begin` to
`Commit` or an error; a statement that needs none for longer takes one and
gives it back in the same action. `GiveBack` is the pool: it keeps `MaxIdle`
connections and closes the others, which rolls back what is open on them. The
locks are those of SQLite in its default journal mode: `writer` is the
connection whose transaction has written (`draft` is what it sees), and nobody
commits while another connection reads. Whoever waits for a lock may get it or
fail after the busy timeout (`ReadTimesOut`, `ExecTimesOut`, `CommitFails`,
`InitFails`). After `CommitFails` the transaction is still open on a connection
of the pool: `database/sql` takes it back without looking. Whatever is read or
written there is `adrift`.

A process starts with `initDB` (`Start`, `DeleteRows`, `InsertSeeds`), listens if
the port is free, and may crash anywhere; a second one started meanwhile empties
the table before it finds that the port is taken.

`TxExec` shows what `EveryRequestAnswered` is for. `Begin` takes no lock, so the
statement after it is the first to meet a transaction that has written; that one
may be open for good, left by a `Commit` that failed. A handler that tried again
until the lock is free (`TxExecRetrying`) would wait for ever, with its
connection. The code gives up, rolls back and answers 500.

`RequestTable` says what a client may rely on. `RequestsAtomic` is the
refinement: `Store` is the step in which a request is answered 200 and its whole
effect is in the committed table; a request that was refused leaves no trace;
one that ran in a transaction left open "drifts": it is told of success while
the table is as it was.

## Runs

| run | checks | instance |
|---|---|---|
| `server` | `SingleUse`, `ChallengeHonoured`, `AcceptEarned`, `Answered`, `IssuesSingleUseTokens` | all four modes; 3 handlers, 3 tokens, Message-Authenticator required, identifiers of one bit, so that `eapID + 1` wraps; weak fairness |
| `challenge` | `StateCarried`, `RangeTried`, `Terminates` | range of 3 and `max_attempts` of 4, so the cap bites; `state_reuse: false`; two probes, with a foreign and a truncated State; empty datagrams |
| `challenge_empty_reply` | `NeverPanics` (violated) | see Findings |
| `otp_exchange` | `FoundIsTheOneJudged`, `NoticeMeansLoss`, `ProbesNeverAccepted`, `FirstGuessDecides` | 3 random guesses in a range of 2, two probes; 3 deliveries of these 6 requests, in any order and repetition; password and one-time password both in the range |
| `fuzz` | `OkMeansUpAndRejecting`, `CheckedInTime`, `FramingKept`, `OneChange`, `LinesInTurn` | every strategy once, `marked_range` at every third turn with a list of 3 lines, one of which cannot be encoded; name, password and first line as long as an attribute takes; health check every 3 |
| `fuzz_duplicate` | `CheckedInTime` (violated) | see Findings |
| `runner` | `VerdictExplained`, `FlawsStopped`, `ExitTells` | files of up to 3 scenarios: every triple of sound ones, and every sound one before one with each flaw that `validate` knows, and each that it leaves to the run; 2 servers, with and without `-addr` |
| `eap_exchange` | `PassMeansJudged`, `FailMeansNetwork` | 3 deliveries, 3 passwords, a timeout of 2 ticks, odd answers |
| `byte_fuzz` | `DumpFaithful`, `OneMutation`, `FuzzReachesItsEnd` | bytes below 40; 11 lists of attributes, with length bytes too small, too large, negative and wrapping; 2 iterations; every result of every mutation |
| `pap_exchange` | `NeverReadsBeyond`, `ReportedExactly`, `Ends` | up to 4 bytes after the header out of 4 values; every declared length from one less than the header to one more than the datagram can hold |
| `oidc` | `StateSpentOnce`, `StateHonoured`, `SessionOfItsLogin`, `CookieHonoured`, `ServedWhileProviderSilent`, `IssuesSingleUseStates` | the three kinds of program; 3 requests of any path, 2 codes |
| `sql` | `RequestsAtomic`, `ListingsCommitted`, `ListingExplained`, `ConnectionsKept`, `SeedsWhole`, `EveryRequestAnswered` | 3 requests: one of a writer with or without a transaction, one of a reader by every route, one of either; 2 processes, 3 connections, a pool that keeps 1; a file that is new, or that a crash has left with the seeds twice |

Bounds. Handlers are symmetric and a handler ends with its reply, so an
exchange involves at most one handler of round 1 and the handlers that race for
its State: three handlers give two racers, or one answer next to a second,
independent round 1; the proofs cover any number. There are as many tokens as
handlers, so `randBytes` never runs out. Identifiers modulo 2 are the smallest
set in which the successor of an identifier differs from it and wraps.
`IntMax` is 7 where no instance comes near it. A range of
two or three guesses has a first, a middle and a last guess, and the notice
needs two answers that differ. Thirteen iterations take every strategy once,
pass four health checks, and bring `marked_range` back to the first line of its
list; the line that cannot be encoded does not fall on a health check, which is
the case `fuzz_duplicate` shows. In `pap_exchange` an attribute of two bytes is
a Message-Authenticator without its value (`MALen = 2`), so four bytes hold two
attributes, or one and a byte left over; the lengths 0, 2, 3 and 9 are too
small, fit, leave a byte over, and overrun. A timeout of two ticks is the
shortest in which the first round can take some of the time of the second. A
login, its callback and a request with its cookie are three goroutines, and so
are a login and two callbacks that race for its state. With three scenarios an
answer can be late for its own, while the next one waits at the same server,
and one more follows. Bytes below 40 leave room for the header field, which is
read as two of them, and let a value of 39 bytes wrap its length byte, as one of
255 does in the code; two iterations are enough for a mutation to show in the
next packet. In the SQL lab an open transaction, a reader that keeps it from
committing, and a third party that meets what it leaves behind are three
requests; a pool of one idle connection fills up as one of two does with a
request more; two processes are a crash and a restart, or two at once.

Deadlock is checked everywhere but in `sql`: each of the other specifications
has an explicit action for its legitimate end (`Quiet`, `Ended`, `Over`). In
`sql` both processes may have ended, each of them once, and nothing can follow.

Fairness. `MockServer` assumes weak fairness of every handler: goroutines are
scheduled, and each handler takes `mu` once, so weak fairness is enough to get
it in the end. Nobody has to send a datagram. The clients assume weak fairness
of the client only (`ChallengeClient`, `PapExchange`, `ByteFuzzer`): it is a
sequential program, and each read has a deadline (`conn.SetDeadline` in
`sendRawUDP` and `exchangeRaw`). Server and network owe nothing. The runs of
the compositions, of the fuzz scenario and of the runner check safety only.
`OidcLogin` assumes weak fairness of what a goroutine does on its own: `mu` is
taken at most twice by each, and a process that has died serves nobody.
Browsers, and the provider in particular, owe nothing: `http.PostForm` has no
time limit, so a callback may never end. `SqlLab` assumes that the process goes
on as long as some handler can: a handler that waits for a lock of SQLite gets
it or gives up, so no fairness is needed between handlers.

## Findings

* `challenge_empty_reply`: a datagram of length zero is a legal answer for
  `sendRawUDP`. `fingerprintResponse` guards against it, the indexing of
  `resp[0]` that follows does not (`stateful.go` 274 and 329, `fuzz.go` 573),
  so one scenario can end the run of all of them.
* `fuzz_duplicate`: a mutation that cannot be encoded skips the periodic health
  check of its iteration.

Noted on the way, and not counted as findings, because no doc or test of the
repository says otherwise, or the effect is slight:

* `length_mismatch` of the v2 client may declare the true length of an IPv4
  attribute (`fuzz.go` 165, 173), and `bad-length-byte` of the v1 client may
  draw it.
* The flag `-timeout` of the v1 client is described as per exchange, while
  `main` puts both rounds of EAP-MD5 under one deadline (`client.go` 252 and
  269; `FailMeansNetwork` allows for the timeout).
* In the modes of one packet the v1 client panics on a datagram without a byte
  (`client.go` 123, 295); its fuzz mode does not (`FuzzReachesItsEnd`).
* `exchange` of the v2 client does not compare identifiers, which is harmless
  while each request has a socket and an authenticator of its own.
* A scenario without an address fails even when `-addr` gives one: the address
  is asked for before the flag takes its place (`config.go` 332,
  `scenario.go` 46; `LeftToTheRun` allows for it).
* `tableUnsafe` does not roll back when `tx.Commit` fails (`sqli.go` 881). The
  table stays whole (`RequestsAtomic`), but others may work in the transaction
  left open, be told of success, and lose their change with it; hence the name
  "drifted" in `RequestTable`, and the exception in `ListingsCommitted`.
* `writeUsers` does not ask `rows.Err`, so a listing may be short without a word
  (`ListingExplained` allows for it).
* s2 reads `sessions` without the mutex (`main.go` 146; `DieOfRace`).
* s4 has redeemed its code when the body of the answer is cut, and the user has
  to log in again (`auth_code.go` 171).
* Nothing expires the maps of the server and of the relying parties.

## Proofs

`MockServerProofs` proves for all values of the constants, and for each of the
modes, under the assumptions of `MockServer` (a positive identifier width,
typed requests, and that the values that stand for "none" are not among the
others):

* `TypeCorrect`: `Spec => []TypeOK`.
* `SingleUseCorrect`, `ChallengeHonouredCorrect`: from the invariant
  `SessionInv`, and `OriginInv` on top of it. `SingleUse` alone is not
  inductive: one must know that `mu` names the only handler inside a critical
  section, that a handler about to delete holds the very entry of the map, that
  a State in the map has no taker, and that a State that was sent is in the map
  or has one.
* `AcceptEarnedCorrect`: from `OriginInv`, which ties every entry of the map,
  and every copy of one, to the handler of round 1 that drew its State, to that
  handler's request, and to the challenge it has written or is about to write.
* `IssuesSingleUseTokensCorrect`: the refinement. `StatusStep` maps each action
  to a step of `SingleUseTokens` or to a stutter; it needs `SessionInv`.
* `EveryWayEndsInAReply`: `mu` names nobody outside the critical sections, every
  step takes one handler to a later one of seven stages, and who has come to the
  last has replied.

`OidcLoginProofs` proves for any number of requests, any set of codes and each
of the programs, under `OidcAssumption` alone:

* `TypeCorrect`: `Spec => []TypeOK`.
* `StateSpentOnceCorrect`, `StateHonouredCorrect`: from `LoginInv`. A state that
  is on record is under its own verifier, and its login has got past the put
  (`OnRecord`); a callback about to delete still has what the record has, since
  it holds `mu`; a verifier that somebody has consumed is off the record; and a
  state handed out that is not on record has a consumer (`OffRecord`). The last
  part is what makes a callback that is told "unknown" point to another one.
* `SessionOfItsLoginCorrect`, `CookieHonouredCorrect`: from `SessionInv`, which
  follows the tokens of a callback from the exchange to the cookie. Whoever
  holds tokens has redeemed a code that nobody else has (`Tokens`), and with
  PKCE that code was issued for the login of its state, because the verifier it
  was redeemed with is the one that login put on record.
* `IssuesSingleUseStatesCorrect`: the refinement of the same `SingleUseTokens`:
  `Put` issues, `Delete` claims if it finds a verifier, and the page or the
  failure settles (`Settles`).
* `EveryWayEndsInAnAnswer`: the same with twelve stages, for as long as the
  process is up. That `mu` names nobody outside the critical sections says here
  that nobody holds it while waiting for the provider.

Each invariant has a lemma for the initial states and one for the steps, with
one case per action or few actions. The temporal theorems combine them.

`PapExchangeProofs` proves, for bodies of any length, bytes of any value and
any length of the Message-Authenticator attribute of at least two,

* `TypeCorrect`: the indices of both loops, the attributes parsed and the place
  of the Message-Authenticator stay within the declared length;
* `NeverReadsBeyondCorrect`: neither loop reads beyond its slice;
* `ReportedExactlyCorrect`: a verdict is reported for exactly the answers that
  deserve it;
* `StepsRunOut`: each step leaves less to do. No loop stands still, for an
  attribute shorter than its header ends it; what is left of a loop are the
  bytes from its index to the declared end (`Unread`).

The invariant is `LoopInv`: every check after `verifyResponseAuth` works on a
framed datagram, and a loop that runs has not passed its declared end. Without
the first part the walk of `verifyMessageAuthenticator`, which does not check
the length of the datagram again, could not be shown to stay inside it.

The attributes of a body are defined without a loop, as the least set of offsets
that has 0 and, with each attribute, its end (`Offsets`); a length that makes no
sense leads to -1. So nothing has to be proved by induction over bytes: `OnTrail`
says that a loop is at one of these offsets and that the attributes it has
behind it lead to no others, so at its end they are all there are
(`NothingElse`). `KnownMA` carries what the first loop and the walk have found to
the report. The walk does not fail where `parseAttributes` does, it just stops:
`KnownMA` rules that case out, because the first loop has come to the end.

`ChallengeClientProofs`, for any range, list of probes and set of answers, under
the assumptions of `ChallengeClient` (a range and a `max_attempts` within
`IntMax`, known probes, values of State apart from "none"):

* `StateCarriedCorrect`: from `CarryInv`, which ties `cur`, and the State of the
  request that is outstanding, to the turn it came from. `StateCarried` alone
  says nothing of the guess or probe that is about to be made. `InUseOn` is the
  heart of it: a turn changes the State in force only by what its answer offers.
* `RangeTriedCorrect`: from `TriedInv`: `i` counts the guesses, each turn after
  the first that is not a probe is one, and the loop ends only at `attempts`.
* `TurnsRunOut`: the guesses and probes that are left bound the steps, whatever
  the answers; two for each of them, a request and what becomes of it.

`OtpExchangeProofs`, for any number of datagrams, deliveries and handlers, and
any range that the client is told to try:

* `FoundIsTheOneJudgedCorrect`, `ProbesNeverAcceptedCorrect`,
  `NoticeMeansLossCorrect`, `FirstGuessDecidesCorrect`. The server and the
  client keep their invariants: `MockServerProofs` and `ChallengeClientProofs`
  are instances here, and their lemmas about a step are cited for the steps of
  each side. `WireInv` joins them: a handler works on a request the client has
  sent, an answer the client has read was written by a handler of that very
  request, and one State is in play, that of the challenge the client answers.
  `VerdictInv` follows the guesses: what is found was accepted and no probe was
  (`FoundWasAccepted`), every answer to a guess is the same rejection unless one
  got lost (`SamePattern`), and the first guess, if answered and delivered once,
  has taken the session (`FirstTook`).

`ClientV1Proofs`, for any timeout, strays and number of deliveries:

* `PassMeansJudgedCorrect`, `FailMeansNetworkCorrect`: from `LoginInv`, with the
  invariants of the server again from the instance of `MockServerProofs`. The
  response of the client fits the challenge it answers, so a failure needs a
  session that is gone, and `ChallengeHonoured` of the server says who took it.

and for any command line, random values and number of iterations:

* `OneMutationCorrect`: from `FuzzedInv`: between two iterations the base still
  is the packet that was asked for. `MutationIsOneAway` goes through the
  mutations; `HeaderChanged`, `ValueChanged`, `AttrReplaced` and `AttrAdded` say
  what each kind of them leaves alone.
* `DumpFaithfulCorrect`: from `FuzzedInv` again, which with `MutationType` makes
  every packet that is dumped a header and a list of attributes. `Layout` says
  where in the bytes of `Build` each attribute begins, `DumpTells` walks down
  them with `decodeAttrs` to the first that is not framed as it says, and by
  `OnlyLastMalformed` no line above the last is malformed. Both the body and the
  walk are recursive functions. That they satisfy their equations is
  proved by solving these for longer and longer initial parts, with
  `SetInduction`: induction over the numbers for a set in place of a predicate,
  which the provers can instantiate.
* `IterationsRunOut`: each step leaves less to do, and a fuzz run that has built
  its packet ends with status 0 after the iterations it was asked for.

`ScenarioProofs`, for any files, overrides and reactions of servers:

* `ExitTellsCorrect`, `FlawsStoppedCorrect`: from `RunInv`: there is one verdict
  for each scenario that is over, `failed` agrees with them, whoever is under
  way has passed `validate`, and a verdict without a packet has its reason
  (`Unsent`). `WhatStopsIt` says that what `StartOne` and `StartMany` ask for
  before they send is what the property names.
* `VerdictExplainedCorrect`: from `NetInv` on top of it: a packet under way, its
  answer and what a server has done with it exclude each other, and a packet
  that is neither had a mishap. This is what lets a late answer to an earlier
  scenario be harmless.

and for any seed, strategies, list and number of iterations that `validated`
allows:

* `OkMeansUpAndRejectingCorrect`: from `FuzzInv`: the loop variable, the count of
  findings, and the last health check.
* `LinesInTurnCorrect`: from `FuzzPlace`: `fuzzListIdx` is the number of turns of
  `marked_range` up to this one, also after packets that did not build
  (`TurnsGrow`).
* `CheckedInTimeCorrect`: under the condition `CheckedTurnsBuild`, that whatever
  an iteration which ends with a health check may send can be built. The
  instance of `fuzz` meets it, that of `fuzz_duplicate` does not, and there the
  property is violated (see Findings). `FuzzCheck` counts the iterations since
  the last multiple of `every`; `LinesInTurn` gives the line that a turn of
  `marked_range` takes.
* `OneChangeCorrect`, `FramingKeptCorrect`: from `FuzzSent`, which says that what
  is awaited came from a mutator, given the attributes of the file (`FuzzLoop`). The lemmas say what each mutator does
  (`MutationKinds`, `MarkedRangeKinds`): nothing, one attribute replaced, one
  repeated, one dropped; and what each replacement does to the Length byte
  (`HexIsTruthful`, `UnknownIsTruthful`, `InLineIsTruthful`).
* `FuzzRunsOut`: each step leaves less to do; three steps for an iteration.

`SqlLabProofs`, for any number of requests, processes and connections, under
the assumptions of `SqlStatements` and `SqlLab` about their constants:

* `ConnectionsKeptCorrect`: from `PoolInv`: who holds a connection is where one
  is held, and a transaction that has written belongs to a request that will
  commit it, or is one that a failed `Commit` has left to the pool.
* `RequestsAtomicCorrect`: the refinement of `RequestTable`. By `RequestInv` the
  draft of a request that has written is its `Change` of the table as it is
  when it commits, so that storing the draft is its whole effect.
* `SeedsWholeCorrect`: from `SeedInv`: a process that is alone in `initDB` has
  the table empty between its two statements.
* `ListingsCommittedCorrect`, `ListingExplainedCorrect`: from `ListInv`: the rows
  of the table are of requests that have committed, so are those of every
  cursor that is not adrift, and what was answered is the listing of a cursor
  or of the beginning of one.
* `RequestsGoOn`: what a handler does takes its request to a later one of four
  stages, and nothing takes a request back.

Only model-checked: liveness (`Answered`, `Terminates`, `Ends`,
`ServedWhileProviderSilent`, `EveryRequestAnswered`, `FuzzReachesItsEnd`). Of
each of these the part without fairness is a theorem, `EveryWayEndsInAReply`,
`TurnsRunOut`, `StepsRunOut`, `EveryWayEndsInAnAnswer`, `RequestsGoOn` and
`IterationsRunOut` in turn: the steps there are lead to the end, and cannot go
round in circles. That an end is reached then takes that somebody has a step to
take until everybody is done, and that it is taken; these are `ENABLED` and
fairness, and beyond the prover. TLC finds both to hold on the instances of the
runs.

## What is not modelled

The bytes of RADIUS packets are in `PapExchange` and `ByteFuzzer`, as far as
their control flow depends on them; elsewhere, and as for encryption and
digests everywhere, the model has their verdicts. The mock server never restarts
within a run: it persists nothing, and a restart is a new process with empty
maps. Panics of `randBytes` (no entropy) and `delay:` are left out. The pages
`/lab` and `/search` of the relying parties have no state.

Some steps are one action where the program has more. `Commit` and `Exec` of
`SqlLab` store and answer 200 at once, so a crash between the two, after which a
request has taken effect and was not answered, is not shown. `EapExchange` has no
answer of the kernel that nobody listens: the mock server does not go down.
`ListingsCommitted` goes by the rows that requests inserted. `SeedsWhole` speaks
of a process that nobody disturbs: after two `initDB` at once the table may have
the seeds twice, and no doc promises otherwise. `RangeTried` leaves out a range
whose size wraps. `SessionOfItsLogin` rests on the provider described above.

What an injected text means as SQL is left out, by choice: the models state
what the lab does with values. No handler reads and writes in one transaction,
so the deadlock that SQLite breaks between two readers that both want to write
is not in the model.

The SQL lab in JavaScript repeats the statements in a process with one thread.
The engine of AuthZ is a stub beside generated code; gRPC, REST, CSP and the
vulnerable web application have request handlers without a state of their own;
the CGo programs are straight-line demonstrations of undefined behaviour; the
programs under `OIDC/*/attacker` and `OIDC/conf` are one-off demonstrations;
the dictionaries are tables of names.

## Plan

1. Done: the models with their runs; the abstract specifications and the three
   refinements; the theorems above.
2. Done: a theorem for every safety property and every refinement that a run
   checks, and for the safe half of each liveness property.
3. Left: liveness, which TLC alone checks; and that the ends `StartMany` of
   `ScenarioRunner` gives a scenario of type `fuzz` are those `FuzzScenario`
   comes to, which the two modules say of the same code but no statement
   connects.
