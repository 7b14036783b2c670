----------------------------- MODULE SqlStatements -----------------------------
(***************************************************************************)
(* The statements of the SQL lab, src/SQLi/sqli.go, as operators on the    *)
(* table.  The lab has a pair of handlers for each way to build a          *)
(* statement: one puts its parameters into the text (~safe), the other     *)
(* binds or checks them (safe).                                            *)
(*                                                                         *)
(* A text is a string; what SQL makes of it is given by constants.  The    *)
(* texts have no other meaning as SQL than these constants give them.      *)
(***************************************************************************)
EXTENDS Integers, FiniteSets, Sequences

CONSTANTS
    Handlers,       \* one per HTTP request
    Asks,           \* the requests that may arrive, for each handler
    Texts,          \* the texts in requests
    Quoted,         \* those with an apostrophe in them
    NumberOf,       \* the number each text that is a number stands for
    Rank,           \* the place of each text, and of Null, in the collation
    Holding,        \* for each text the names it is LIKE a part of
    Condition,      \* the comparison each text that is a condition stands for
    Null            \* of SQL

Columns == {"id", "name", "role", "email"}
SelectRoutes == {"concat", "sprintf", "builder", "fprintf", "in", "like", "order",
                 "limit", "where", "prepare", "placeholders", "use"}
ExecRoutes == {"update", "delete", "insert", "table", "store"}
Routes == SelectRoutes \cup ExecRoutes

(* The parameters of the query; arg is search, sort, limit, field, filter  *)
(* or table, whichever the route has.                                      *)
Request == [route : Routes, safe : BOOLEAN, name : Texts, names : SUBSET Texts,
            role : Texts, email : Texts, id : Texts, arg : Texts, value : Texts]

(* The table is a function on its identifiers.  by is not in the table: it *)
(* names the request that inserted the row.                                *)
Row == [name : Texts, role : Texts \cup {Null}, email : Texts \cup {Null},
        by : Handlers \cup {"seed"}]

ASSUME SqlAssumption ==
    /\ Asks \in [Handlers -> SUBSET Request]
    /\ \A h \in Handlers : \A q \in Asks[h] : q.id \notin Columns   \* id = id holds of all
    /\ Quoted \subseteq Texts
    /\ DOMAIN NumberOf \subseteq Texts /\ DOMAIN Condition \subseteq Texts
    /\ Null \notin Texts
    /\ NumberOf \in [DOMAIN NumberOf -> Int] /\ Rank \in [Texts \cup {Null} -> Int]
    /\ {"alice", "bob", "charlie", "user", "admin", "meta", "_filter", "alice@example.com",
        "bob@example.com", "charlie@example.com"} \subseteq Texts

-------------------------------------------------------------------------------
(* Rows in an order, and the rows of a statement.                          *)

(* INTEGER PRIMARY KEY without AUTOINCREMENT: the identifier of a new row  *)
(* is one more than the largest in the table.                              *)
NextId(t) == IF DOMAIN t = {} THEN 1 ELSE 1 + CHOOSE m \in DOMAIN t : \A i \in DOMAIN t : i <= m

(* The rows of t with an identifier in S, in the order Before: the nth is  *)
(* the one with n - 1 before it.                                           *)
InOrder(t, S, Before(_, _)) ==
    [n \in 1 .. Cardinality(S) |->
        t[CHOOSE i \in S : Cardinality({j \in S : Before(j, i)}) = n - 1]]

(* Those that have what is asked, in the order of identifiers.             *)
ById(t, S) == InOrder(t, S, <)

Found(rows) == [kind |-> "rows", rows |-> rows]
SqlError == [kind |-> "error", rows |-> <<>>]       \* 500

Fits(v, safe) == safe \/ v \notin Quoted
Is(text, i) == text \in DOMAIN NumberOf /\ NumberOf[text] = i
Equals(t, i, column, v) == IF column = "id" THEN Is(v, i) ELSE t[i][column] = v

-------------------------------------------------------------------------------
(* SELECT id, name, role FROM users ...                                    *)

(* WHERE name = '...', or = ?, concatenated or by Sprintf *)
ByName(q, t) ==
    IF Fits(q.name, q.safe) THEN Found(ById(t, {i \in DOMAIN t : t[i].name = q.name}))
    ELSE SqlError

(* the same with a strings.Builder *)
Built(q, t) == ByName(q, t)

(* WHERE name IN (...) *)
In(q, t) ==
    IF \A v \in q.names : Fits(v, q.safe)
    THEN Found(ById(t, {i \in DOMAIN t : t[i].name \in q.names}))
    ELSE SqlError

(* WHERE name LIKE '%...%' *)
Like(q, t) ==
    IF Fits(q.arg, q.safe) THEN Found(ById(t, {i \in DOMAIN t : t[i].name \in Holding[q.arg]}))
    ELSE SqlError

(* ORDER BY: Null comes first, and equal keys in the order of the rows; a  *)
(* number stands for a column of the result.                               *)
Order(q, t) ==
    LET by == IF ~q.safe /\ q.arg \in DOMAIN NumberOf /\ NumberOf[q.arg] \in 1 .. 3
              THEN <<"id", "name", "role">>[NumberOf[q.arg]] ELSE q.arg
        Key(i) == IF by = "id" THEN i ELSE Rank[t[i][by]]
        Before(i, j) == Key(i) < Key(j) \/ (Key(i) = Key(j) /\ i < j)
    IN  IF by \notin Columns THEN SqlError ELSE Found(InOrder(t, DOMAIN t, Before))

(* LIMIT: a negative limit is none at all.                                 *)
Limit(q, t) ==
    LET all == ById(t, DOMAIN t)
        n == NumberOf[q.arg]
    IN  IF q.arg \notin DOMAIN NumberOf THEN SqlError
        ELSE Found(IF n < 0 \/ n > Len(all) THEN all ELSE SubSeq(all, 1, n))

(* WHERE <field> = *)
Where(q, t) ==
    IF q.arg \in Columns /\ Fits(q.value, q.safe)
    THEN Found(ById(t, {i \in DOMAIN t : Equals(t, i, q.arg, q.value)}))
    ELSE SqlError

(* db.Prepare, which finds an error in the text, and stmt.Query *)
Prepared(q, t) == ByName(q, t)

(* The unsafe handler has one placeholder, the safe one asks for the role  *)
(* as well.                                                                *)
Placeholders(q, t) ==
    IF ~q.safe THEN ByName(q, t)
    ELSE Found(ById(t, {i \in DOMAIN t : t[i].name = q.name /\ t[i].role = q.role}))

(* WHERE <the text stored before> *)
Filtered(text, t) ==
    IF text \in DOMAIN Condition
    THEN Found(ById(t, {i \in DOMAIN t : Equals(t, i, Condition[text].column, Condition[text].value)}))
    ELSE SqlError

(* What the handler of the route asks for; f is the filter of "use".       *)
Select(q, f, t) ==
    CASE q.route \in {"concat", "sprintf"} -> ByName(q, t)
      [] q.route \in {"builder", "fprintf"} -> Built(q, t)
      [] q.route = "in" -> In(q, t)
      [] q.route = "like" -> Like(q, t)
      [] q.route = "order" -> Order(q, t)
      [] q.route = "limit" -> Limit(q, t)
      [] q.route = "where" -> Where(q, t)
      [] q.route = "prepare" -> Prepared(q, t)
      [] q.route = "placeholders" -> Placeholders(q, t)
      [] q.route = "use" -> Filtered(f, t)

-------------------------------------------------------------------------------
(* INSERT, UPDATE, DELETE                                                  *)

Insert(t, row) ==
    [i \in DOMAIN t \cup {NextId(t)} |-> IF i \in DOMAIN t THEN t[i] ELSE row]

Update(q, t) == [i \in DOMAIN t |-> IF Is(q.id, i) THEN [t[i] EXCEPT !.role = q.role] ELSE t[i]]
Delete(q, t) == [i \in {j \in DOMAIN t : ~Is(q.id, j)} |-> t[i]]

(* insert leaves the email Null, table the role. *)
NewUser(h, q) == [name |-> q.name, role |-> q.role, email |-> Null, by |-> h]
NewAddress(h, q) == [name |-> q.name, role |-> Null, email |-> q.email, by |-> h]
Marker == "_filter"
NewFilter(h, q) == [name |-> Marker, role |-> "meta", email |-> q.arg, by |-> h]

Change(h, q, t) ==
    CASE q.route = "update" -> Update(q, t)
      [] q.route = "delete" -> Delete(q, t)
      [] q.route = "insert" -> Insert(t, NewUser(h, q))
      [] q.route = "table" -> Insert(t, NewAddress(h, q))
      [] q.route = "store" -> Insert(t, NewFilter(h, q))

(* The text of the statement can be compiled. *)
Compiles(q) ==
    CASE q.route = "update" -> q.safe \/ (q.role \notin Quoted /\ q.id \in DOMAIN NumberOf)
      [] q.route = "delete" -> q.safe \/ q.id \in DOMAIN NumberOf
      [] q.route = "insert" -> q.safe \/ {q.name, q.role} \cap Quoted = {}
      [] q.route = "table"  -> q.arg = "users"
      [] q.route = "store"  -> TRUE

(* 400: the handler returns before it uses the database.                   *)
Refused(q) ==
    \/ q.route = "in" /\ q.names = {}
    \/ /\ q.safe
       /\ \/ q.route = "order" /\ q.arg \notin {"name", "id", "role"}
          \/ q.route = "limit" /\ (q.arg \in DOMAIN NumberOf => NumberOf[q.arg] < 0)
          \/ q.route = "where" /\ q.arg \notin Columns
          \/ q.route = "table" /\ q.arg # "users"

(* The latest filter: SELECT email ... ORDER BY id DESC LIMIT 1            *)
Filters(t) == {i \in DOMAIN t : t[i].name = Marker}
LatestFilter(t) == CHOOSE m \in Filters(t) : \A i \in Filters(t) : i <= m

(* What initDB inserts. *)
Seed(n, r, e) == [name |-> n, role |-> r, email |-> e, by |-> "seed"]
Empty == [i \in {} |-> Null]
Seeded(t) ==
    Insert(Insert(Insert(t, Seed("alice", "user", "alice@example.com")),
                  Seed("bob", "admin", "bob@example.com")),
           Seed("charlie", "user", "charlie@example.com"))
================================================================================
