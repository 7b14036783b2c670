-------------------------------- MODULE SqlLab --------------------------------
(***************************************************************************)
(* The server of the SQL lab, src/SQLi/sqli.go, over its SQLite file.      *)
(*                                                                         *)
(* net/http serves every request in a goroutine h.  The goroutines share   *)
(* the pool of connections of database/sql and, through it, the locks of   *)
(* SQLite: many connections may read, one may have a transaction that      *)
(* writes, and it commits only while no other connection reads.  What      *)
(* waits for a lock too long fails.  A Commit that fails leaves its        *)
(* transaction open, while database/sql takes the connection back.         *)
(* Processes may crash at any time and be started again, or next to each   *)
(* other.                                                                  *)
(***************************************************************************)
EXTENDS SqlStatements

CONSTANTS
    Procs,          \* processes: one for each time the lab is started
    Conns,          \* connections to the file
    MaxIdle,        \* connections the pool keeps: 2 in database/sql
    CutAfter,       \* bound: the numbers of rows after which a listing may be cut
    NoConn

(* database/sql opens a connection whenever none is idle: there are enough *)
(* of them for every request.                                              *)
ASSUME PoolAssumption ==
    /\ MaxIdle \in Nat \ {0} /\ NoConn \notin Conns /\ Conns # {}
    /\ IsFiniteSet(Conns) /\ IsFiniteSet(Handlers) /\ Cardinality(Handlers) <= Cardinality(Conns)
    /\ CutAfter \subseteq Nat

VARIABLES
    users,      \* the table as committed
    writer,     \* the connection whose transaction has written, or NoConn
    draft,      \* the table as that connection sees it
    idle,       \* the connections in the pool
    at,         \* where each process is
    pc,         \* where each request is
    req,        \* the request
    conn,       \* the connection it holds
    filter,     \* secondOrderUse: the text it has read
    cursor,     \* the rows its statement yields
    answer,     \* what it wrote to its client
    adrift,     \* history: told of success in a transaction left open
    alone       \* history: nobody else has touched the table since the
                \* process deleted its rows

file == <<users, writer, draft>>
work == <<req, filter, cursor, adrift>>
vars == <<file, idle, at, alone, pc, conn, answer, work>>

NoRequest == [route |-> "none"]
NoAnswer == [status |-> 0, rows |-> <<>>, error |-> FALSE, cut |-> FALSE]
Status(code) == [NoAnswer EXCEPT !.status = code]

Serving == \E p \in Procs : at[p] = "serve"
Active == {h \in Handlers : pc[h] \notin {"idle", "done", "lost"}}

-------------------------------------------------------------------------------
(* Connections and locks. *)

Held == {conn[h] : h \in Handlers} \ {NoConn}
Reading(c) == \E h \in Handlers : conn[h] = c /\ pc[h] = "rows"
ReadByOthers(c) == \E d \in Conns \ {c} : Reading(d)

(* The pool gives an idle connection if it has one, and opens one if not.  *)
Opened(free) == CHOOSE c \in free : TRUE        \* new ones are all alike
Available == IF idle # {} THEN idle ELSE {Opened(Conns \ Held)}

Keeps(c) == Cardinality(idle \ {c}) < MaxIdle

(* What connection c sees; whether it may write. *)
ViewUncommitted(c) == IF writer # NoConn THEN draft ELSE users    \* faulty
View(c) == IF c = writer THEN draft ELSE users
Free(c) == writer \in {c, NoConn}

(* c goes back to the pool; the writer is then w, and its draft d.  If the *)
(* pool is full, c is closed, which rolls back what is open on it.         *)
GiveBack(c, w, d) ==
    IF Keeps(c)
    THEN idle' = idle \cup {c} /\ writer' = w /\ draft' = d
    ELSE /\ idle' = idle \ {c}
         /\ writer' = IF w = c THEN NoConn ELSE w
         /\ draft' = IF w = c THEN Empty ELSE d

(* The request takes c for as long as its rows or transaction last. *)
Keep(h, c) == conn' = [conn EXCEPT ![h] = c] /\ idle' = idle \ {c}

Goto(h, to) == pc' = [pc EXCEPT ![h] = to]
Done(h, a) ==
    /\ Goto(h, "done")
    /\ answer' = [answer EXCEPT ![h] = a]
    /\ conn' = [conn EXCEPT ![h] = NoConn]

(* http.Error(w, err.Error(), 500), with no change, c given back *)
Fail(h, c) ==
    /\ Done(h, Status(500)) /\ GiveBack(c, writer, draft)
    /\ UNCHANGED <<users, alone, req, filter, cursor, adrift>>

Init ==
    /\ users \in {Empty, Seeded(Seeded(Empty))}
    /\ writer = NoConn /\ draft = Empty /\ idle = {}
    /\ at = [p \in Procs |-> "new"] /\ alone = [p \in Procs |-> FALSE]
    /\ pc = [h \in Handlers |-> "idle"]
    /\ req = [h \in Handlers |-> NoRequest]
    /\ conn = [h \in Handlers |-> NoConn]
    /\ filter = [h \in Handlers |-> ""]
    /\ cursor = [h \in Handlers |-> <<>>]
    /\ answer = [h \in Handlers |-> NoAnswer]
    /\ adrift = {}

-------------------------------------------------------------------------------
(* main and initDB *)

(* Nobody has a lock. *)
Unlocked == writer = NoConn /\ \A c \in Conns : ~Reading(c)
Move(p, from, to) == at[p] = from /\ at' = [at EXCEPT ![p] = to]

(* CREATE TABLE IF NOT EXISTS: a file without the table is like a table    *)
(* without rows.                                                           *)
Start(p) ==
    /\ Move(p, "new", "delete") /\ Unlocked
    /\ UNCHANGED <<file, idle, alone, pc, conn, answer, work>>

(* DELETE FROM users *)
DeleteNothing(p) ==                                              \* faulty
    /\ Move(p, "delete", "insert") /\ Unlocked
    /\ alone' = [x \in Procs |-> x = p]
    /\ UNCHANGED <<users, writer, draft, idle, pc, conn, answer, work>>
DeleteRows(p) ==
    /\ Move(p, "delete", "insert") /\ Unlocked
    /\ users' = Empty
    /\ alone' = [x \in Procs |-> x = p]
    /\ UNCHANGED <<writer, draft, idle, pc, conn, answer, work>>

(* INSERT INTO users *)
InsertSeeds(p) ==
    /\ Move(p, "insert", "listen") /\ Unlocked
    /\ users' = Seeded(users)
    /\ alone' = [x \in Procs |-> x = p /\ alone[p]]
    /\ UNCHANGED <<writer, draft, idle, pc, conn, answer, work>>

(* log.Fatal: a statement of initDB has waited for a lock too long. *)
InitFails(p) ==
    /\ at[p] \in {"new", "delete", "insert"} /\ ~Unlocked
    /\ at' = [at EXCEPT ![p] = "off"]
    /\ UNCHANGED <<file, idle, alone, pc, conn, answer, work>>

(* http.ListenAndServe: the port is taken by one process at most.  The     *)
(* connection initDB has used is the first of the pool.                    *)
Listen(p) ==
    /\ IF Serving THEN Move(p, "listen", "off") /\ UNCHANGED idle
       ELSE Move(p, "listen", "serve") /\ idle' = {Opened(Conns)}
    /\ UNCHANGED <<file, alone, pc, conn, answer, work>>

(* The process ends; its requests go unanswered, its connections close.    *)
Crash(p) ==
    /\ at[p] \notin {"new", "off"}
    /\ at' = [at EXCEPT ![p] = "off"]
    /\ IF at[p] = "serve"
       THEN /\ pc' = [h \in Handlers |-> IF h \in Active THEN "lost" ELSE pc[h]]
            /\ conn' = [h \in Handlers |-> NoConn]
            /\ filter' = [h \in Handlers |-> ""]
            /\ cursor' = [h \in Handlers |-> IF h \in Active THEN <<>> ELSE cursor[h]]
            /\ idle' = {} /\ writer' = NoConn /\ draft' = Empty
       ELSE UNCHANGED <<pc, conn, filter, cursor, idle, writer, draft>>
    /\ UNCHANGED <<users, alone, answer, req, adrift>>

-------------------------------------------------------------------------------
(* The handlers that read *)

Receive(h) ==
    /\ Serving /\ pc[h] = "idle"
    /\ Goto(h, "begin")
    /\ \E q \in Asks[h] : req' = [req EXCEPT ![h] = q]
    /\ UNCHANGED <<file, idle, at, alone, conn, answer, filter, cursor, adrift>>

Refuse(h) ==
    /\ pc[h] = "begin" /\ Refused(req[h])
    /\ Done(h, Status(400))
    /\ UNCHANGED <<file, idle, at, alone, work>>

Selects(h) == pc[h] = "begin" /\ req[h].route \in SelectRoutes /\ ~Refused(req[h])

(* db.Prepare: the connection goes back until stmt.Query. *)
Prepare(h) ==
    /\ Selects(h) /\ req[h].route = "prepare"
    /\ \E c \in Available :
        IF Select(req[h], "", View(c)).kind = "error" THEN Fail(h, c)
        ELSE /\ Goto(h, "prepared") /\ GiveBack(c, writer, draft)
             /\ UNCHANGED <<users, alone, conn, answer, work>>
    /\ UNCHANGED at

(* db.QueryRow(...).Scan(&filter): no row, or Null, is an error. *)
ReadFilter(h) ==
    /\ Selects(h) /\ req[h].route = "use"
    /\ \E c \in Available :
        LET t == View(c)
        IN  IF Filters(t) = {} \/ t[LatestFilter(t)].email = Null THEN Fail(h, c)
            ELSE /\ Goto(h, "filter") /\ GiveBack(c, writer, draft)
                 /\ filter' = [filter EXCEPT ![h] = t[LatestFilter(t)].email]
                 /\ UNCHANGED <<users, alone, conn, answer, req, cursor, adrift>>
    /\ UNCHANGED at

AtQuery(h) ==
    \/ pc[h] \in {"prepared", "filter"}
    \/ Selects(h) /\ req[h].route \notin {"prepare", "use"}

(* db.Query: the rows are those of this moment. *)
Query(h) ==
    /\ AtQuery(h)
    /\ \E c \in Available :
        LET found == Select(req[h], filter[h], View(c))
        IN  IF found.kind = "error" THEN Fail(h, c)
            ELSE /\ Goto(h, "rows") /\ Keep(h, c)
                 /\ cursor' = [cursor EXCEPT ![h] = found.rows]
                 /\ adrift' = IF writer = c THEN adrift \cup {h} ELSE adrift
                 /\ UNCHANGED <<users, writer, draft, alone, answer, req, filter>>
    /\ UNCHANGED at

(* A read that has waited too long for a writer that commits. *)
ReadTimesOut(h) ==
    /\ Selects(h) \/ AtQuery(h)
    /\ \E c \in Available : ~Free(c) /\ Fail(h, c)
    /\ UNCHANGED at

(* writeUsers: role is scanned into a string, which Null is not.  The      *)
(* error is written after the rows before it, and only with none of them   *)
(* is it a 500.  rows.Next ends the loop when the iteration fails, and     *)
(* rows.Err is not asked: the listing is cut short without a word.         *)
Scannable(rows) ==
    CHOOSE n \in 0 .. Len(rows) :
        /\ \A m \in 1 .. n : rows[m].role # Null
        /\ n < Len(rows) => rows[n + 1].role = Null
ListingUnscanned(rows, n) ==                                     \* faulty
    [status |-> 200, rows |-> SubSeq(rows, 1, n), error |-> FALSE, cut |-> n < Len(rows)]
Listing(rows, n) ==
    LET k == Scannable(rows)
    IN  IF n <= k
        THEN [status |-> 200, rows |-> SubSeq(rows, 1, n), error |-> FALSE, cut |-> n < Len(rows)]
        ELSE [status |-> IF k = 0 THEN 500 ELSE 200, rows |-> SubSeq(rows, 1, k),
              error |-> TRUE, cut |-> FALSE]
WriteUsersUnclosed(h) ==                                         \* faulty
    /\ pc[h] = "rows"
    /\ Goto(h, "done")
    /\ answer' = [answer EXCEPT ![h] = Listing(cursor[h], Len(cursor[h]))]
    /\ UNCHANGED <<file, idle, at, alone, conn, work>>
WriteUsers(h) ==
    /\ pc[h] = "rows"
    /\ \E n \in {Len(cursor[h])} \cup (CutAfter \cap 0 .. Len(cursor[h])) :
            Done(h, Listing(cursor[h], n))
    /\ GiveBack(conn[h], writer, draft)
    /\ UNCHANGED <<users, at, alone, work>>

-------------------------------------------------------------------------------
(* The handlers that write *)

Executes(h) ==
    /\ pc[h] = "begin" /\ req[h].route \in ExecRoutes /\ ~Refused(req[h])
    /\ req[h].route = "table" => req[h].safe

(* db.Exec: a transaction of its own, unless the connection has one open. *)
Exec(h) ==
    /\ Executes(h)
    /\ \E c \in Available :
        IF ~Compiles(req[h]) THEN Fail(h, c)
        ELSE LET after == Change(h, req[h], View(c))
             IN  /\ Free(c)
                 /\ writer = NoConn => after = users \/ ~ReadByOthers(c)
                 /\ users' = IF writer = c THEN users ELSE after
                 /\ GiveBack(c, writer, IF writer = c THEN after ELSE draft)
                 /\ alone' = [p \in Procs |-> FALSE]
                 /\ adrift' = IF writer = c THEN adrift \cup {h} ELSE adrift
                 /\ Done(h, Status(200))
                 /\ UNCHANGED <<req, filter, cursor>>
    /\ UNCHANGED at

ExecTimesOut(h) ==
    /\ Executes(h)
    /\ \E c \in Available : (~Free(c) \/ ReadByOthers(c)) /\ Fail(h, c)
    /\ UNCHANGED at

(* db.Begin takes no lock yet; SQLite has no transaction in a transaction. *)
Begin(h) ==
    /\ pc[h] = "begin" /\ req[h].route = "table" /\ ~req[h].safe
    /\ \E c \in Available :
        IF writer = c THEN Fail(h, c)
        ELSE /\ Goto(h, "tx") /\ Keep(h, c)
             /\ UNCHANGED <<users, writer, draft, alone, answer, work>>
    /\ UNCHANGED at

(* tx.Exec, or else tx.Rollback: no such table, or another transaction     *)
(* that has written.                                                       *)
TxExecOnPool(h) ==                                               \* faulty
    /\ pc[h] = "tx"
    /\ IF Compiles(req[h]) /\ writer = NoConn
       THEN /\ Goto(h, "wrote")
            /\ users' = Change(h, req[h], users)
            /\ UNCHANGED <<writer, draft, idle, alone, conn, answer, work>>
       ELSE Fail(h, conn[h])
    /\ UNCHANGED at
TxExecRetrying(h) ==                                             \* faulty
    /\ pc[h] = "tx" /\ (Compiles(req[h]) => writer = NoConn)
    /\ IF Compiles(req[h])
       THEN /\ Goto(h, "wrote")
            /\ writer' = conn[h] /\ draft' = Change(h, req[h], users)
            /\ UNCHANGED <<users, idle, alone, conn, answer, work>>
       ELSE Fail(h, conn[h])
    /\ UNCHANGED at
TxExec(h) ==
    /\ pc[h] = "tx"
    /\ IF Compiles(req[h]) /\ writer = NoConn
       THEN /\ Goto(h, "wrote")
            /\ writer' = conn[h] /\ draft' = Change(h, req[h], users)
            /\ UNCHANGED <<users, idle, alone, conn, answer, work>>
       ELSE Fail(h, conn[h])
    /\ UNCHANGED at

Commit(h) ==
    /\ pc[h] = "wrote" /\ ~ReadByOthers(conn[h])
    /\ users' = draft /\ alone' = [p \in Procs |-> FALSE]
    /\ Done(h, Status(200)) /\ GiveBack(conn[h], NoConn, Empty)
    /\ UNCHANGED <<at, work>>

(* tx.Commit has waited too long for readers: the handler returns without  *)
(* a Rollback, and the transaction stays open.                             *)
CommitFails(h) ==
    /\ pc[h] = "wrote" /\ ReadByOthers(conn[h])
    /\ Fail(h, conn[h])
    /\ UNCHANGED at

-------------------------------------------------------------------------------
Work(h) ==
    \/ Refuse(h) \/ Prepare(h) \/ ReadFilter(h) \/ Query(h) \/ ReadTimesOut(h) \/ WriteUsers(h)
    \/ Exec(h) \/ ExecTimesOut(h) \/ Begin(h) \/ TxExec(h) \/ Commit(h) \/ CommitFails(h)

Next ==
    \/ \E h \in Handlers : Receive(h) \/ Work(h)
    \/ \E p \in Procs :
        \/ Start(p) \/ DeleteRows(p) \/ InsertSeeds(p)
        \/ InitFails(p) \/ Listen(p) \/ Crash(p)

(* Goroutines are scheduled, and a wait for a lock ends. *)
Spec == Init /\ [][Next]_vars
FairSpec == Spec /\ WF_vars(\E h \in Handlers : Work(h))

-------------------------------------------------------------------------------
Over(h) == pc[h] = "done"

(* The handlers that change the table implement RequestTable: a request    *)
(* changes the committed table once, by its whole effect on the table of   *)
(* that moment, and is answered 200 in the same step; one that is answered *)
(* 400 or 500 has left no trace, even when its Commit has failed and its   *)
(* row is still in an open transaction.                                    *)
outcomeOf ==
    [h \in Handlers |->
        IF ~Over(h) \/ req[h].route \in SelectRoutes THEN "open"
        ELSE IF answer[h].status # 200 THEN "refused"
        ELSE IF h \in adrift THEN "drifted" ELSE "stored"]
Table == INSTANCE RequestTable WITH
    Writer <- Handlers, Asked <- UNION {Asks[h] : h \in Handlers}, Unasked <- NoRequest, Wiped <- Empty,
    Effect <- Change, Seeded <- Seeded, table <- users, asked <- req, outcome <- outcomeOf
RequestsAtomic == Table!RTSpec

(* A listing shows no row of a request that was refused or has not been    *)
(* answered, and fails for none, unless it was read in a transaction that  *)
(* a failed Commit of tableUnsafe had left open on a connection of the     *)
(* pool.                                                                   *)
Met(h) == Len(answer[h].rows) + IF answer[h].error THEN 1 ELSE 0
ListingsCommitted ==
    \A h \in Handlers \ adrift : \A n \in 1 .. Met(h) :
        LET g == cursor[h][n].by IN g = "seed" \/ outcomeOf[g] = "stored"

(* A listing that is answered 200 without an error has every row of its    *)
(* statement, unless the iteration failed, and then none that comes after  *)
(* a row that it leaves out; an error in it stands for a Null role.        *)
ListingExplained ==
    \A h \in Handlers : Over(h) /\ req[h].route \in SelectRoutes /\ answer[h].status # 400 =>
        LET a == answer[h]
            next == Len(a.rows) + 1
        IN  /\ \A n \in DOMAIN a.rows : a.rows[n] = cursor[h][n] /\ a.rows[n].role # Null
            /\ a.error => cursor[h][next].role = Null
            /\ a.status = 200 /\ ~a.error /\ ~a.cut => a.rows = cursor[h]

(* No connection is lost: requests that are done hold none, two requests   *)
(* never share one, and a transaction that has written belongs to the      *)
(* request that will commit it, or to a connection of the pool on which a  *)
(* Commit has failed; never to one that is closed, where it would keep     *)
(* everybody from writing for ever.                                        *)
ConnectionsKept ==
    /\ \A h \in Handlers : conn[h] # NoConn <=> pc[h] \in {"rows", "tx", "wrote"}
    /\ \A g, h \in Handlers : conn[g] = conn[h] /\ conn[g] # NoConn => g = h
    /\ idle \cap Held = {} /\ Cardinality(idle) <= MaxIdle
    /\ writer # NoConn =>
        \/ \E h \in Handlers : conn[h] = writer /\ pc[h] = "wrote"
        \/ /\ writer \in idle \/ Reading(writer)
           /\ \E h \in Handlers : Over(h) /\ answer[h].status = 500 /\ req[h].route = "table"

(* A process that is about to listen has the seeds in its table, each      *)
(* once, whatever an earlier run left behind and wherever it crashed,      *)
(* unless somebody else touched the table in between.                      *)
SeedsWhole == \A p \in Procs : at[p] = "listen" /\ alone[p] => users = Seeded(Empty)

(* Every request is answered, or lost in a crash: again and again there is *)
(* none under way.  A transaction first meets the writer of the moment in  *)
(* tx.Exec, and that may be one nobody will ever end, on a connection that *)
(* a failed Commit has handed back: it has to give up.                     *)
EveryRequestAnswered == []<>(Active = {})
=============================================================================
