------------------------------- MODULE MCSqlLab -------------------------------
(* An instance of SqlLab for TLC. *)
EXTENDS SqlLab, TLC

CONSTANTS h1, h2, h3

MCTexts == {"", "alice", "dora", "o'hara", "_filter", "user", "admin", "meta",
            "alice@example.com", "bob@example.com", "charlie@example.com",
            "bob", "charlie", "users", "elsewhere", "role", "name", "id", "email",
            "li", "1", "3", "2", "4", "-1", "role = 'user'", "role ="}
MCQuoted == {"o'hara"}
MCNumberOf == [t \in {"1", "2", "3", "4", "-1"} |->
                CASE t = "1" -> 1 [] t = "2" -> 2 [] t = "3" -> 3 [] t = "4" -> 4 [] t = "-1" -> -1]
Sequenced == <<"", "-1", "1", "2", "3", "4", "_filter", "admin", "alice", "alice@example.com",
               "bob", "bob@example.com", "charlie", "charlie@example.com", "dora", "elsewhere",
               "email", "id", "li", "meta", "name", "o'hara", "role", "role =", "role = 'user'",
               "user", "users">>
MCRank == [t \in {Sequenced[n] : n \in DOMAIN Sequenced} \cup {Null} |->
            IF t = Null THEN 0 ELSE CHOOSE n \in DOMAIN Sequenced : Sequenced[n] = t]
MCHolding == [t \in MCTexts |-> IF t = "li" THEN {"alice", "charlie"} ELSE {t}]
MCCondition == "role = 'user'" :> [column |-> "role", value |-> "user"]

Base == [route |-> "concat", safe |-> TRUE, name |-> "alice", names |-> {}, role |-> "user",
         email |-> "", id |-> "4", arg |-> "", value |-> ""]

(* One goroutine writes what a transaction may leave open; one reads, with *)
(* every kind of SELECT, or comes with a transaction of its own; one       *)
(* writes and reads what others have left.                                 *)
MCAsks ==
    h1 :> { [Base EXCEPT !.route = "table", !.safe = FALSE, !.arg = "users", !.name = "dora"],
            [Base EXCEPT !.route = "store", !.arg = "role = 'user'"],
            [Base EXCEPT !.route = "delete"] }
 @@ h2 :> { [Base EXCEPT !.route = "builder", !.safe = FALSE, !.name = "o'hara"],
            [Base EXCEPT !.route = "table", !.safe = FALSE, !.arg = "elsewhere"],
            [Base EXCEPT !.route = "in", !.names = {"alice", "dora"}],
            [Base EXCEPT !.route = "like", !.arg = "li"],
            [Base EXCEPT !.route = "limit", !.arg = "2"],
            [Base EXCEPT !.route = "where", !.arg = "email"],
            [Base EXCEPT !.route = "prepare"],
            [Base EXCEPT !.route = "placeholders"],
            [Base EXCEPT !.route = "use"],
            [Base EXCEPT !.route = "order", !.arg = "email"],
            [Base EXCEPT !.route = "table", !.safe = FALSE, !.arg = "users"] }
 @@ h3 :> { [Base EXCEPT !.route = "insert", !.name = "_filter"],
            [Base EXCEPT !.route = "update"],
            [Base EXCEPT !.route = "order", !.safe = FALSE, !.arg = "3"] }
===============================================================================
