----------------------------- MODULE RequestTable -----------------------------
(***************************************************************************)
(* What the SQL lab promises about its table, in the abstract: a request   *)
(* changes the table by its whole effect, in one step, and is then         *)
(* answered; a request that is refused leaves no trace, at once or later.  *)
(* One exception has a name: a request that drifts is told of success,     *)
(* while the table is as it was.  A process that starts empties the table  *)
(* and fills it with the seeds.                                            *)
(***************************************************************************)
CONSTANTS
    Writer,             \* who asks
    Asked, Unasked,     \* the requests, and none
    Wiped,              \* the empty table
    Effect(_, _, _),    \* Effect(h, q, t): the table t after request q of h
    Seeded(_)           \* the table after the seeds are inserted

VARIABLES
    table,
    asked,              \* the request of each writer
    outcome             \* what has become of it

Outcome == {"open", "stored", "refused", "drifted"}

RTInit ==
    /\ asked = [h \in Writer |-> Unasked]
    /\ outcome = [h \in Writer |-> "open"]

Ask(h) ==
    /\ asked[h] = Unasked
    /\ \E q \in Asked : asked' = [asked EXCEPT ![h] = q]
    /\ UNCHANGED <<table, outcome>>

Answer(h, how) ==
    /\ outcome[h] = "open" /\ asked[h] # Unasked
    /\ outcome' = [outcome EXCEPT ![h] = how]
    /\ UNCHANGED asked

Store(h) == Answer(h, "stored") /\ table' = Effect(h, asked[h], table)
Refuse(h) == Answer(h, "refused") /\ UNCHANGED table
Drift(h) == Answer(h, "drifted") /\ UNCHANGED table
Start == table' \in {Wiped, Seeded(table)} /\ UNCHANGED <<asked, outcome>>

RTNext ==
    \/ \E h \in Writer : Ask(h) \/ Store(h) \/ Refuse(h) \/ Drift(h)
    \/ Start

RTSpec == RTInit /\ [][RTNext]_<<table, asked, outcome>>
===============================================================================
