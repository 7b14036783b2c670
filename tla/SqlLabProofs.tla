----------------------------- MODULE SqlLabProofs -----------------------------
(***************************************************************************)
(* Theorems about SqlLab, for any number of requests, processes and        *)
(* connections, any requests and any texts.                                *)
(***************************************************************************)
EXTENDS SqlLab, FiniteSetTheorems, SequenceTheorems, TLAPS

-------------------------------------------------------------------------------
(* Connections.                                                            *)

Places == {"new", "delete", "insert", "listen", "serve", "off"}
Stages == {"idle", "begin", "prepared", "filter", "rows", "tx", "wrote", "done", "lost"}
HoldingStages == {"rows", "tx", "wrote"}

LabTypes ==
    /\ at \in [Procs -> Places] /\ pc \in [Handlers -> Stages]
    /\ conn \in [Handlers -> Conns \cup {NoConn}]
    /\ idle \subseteq Conns /\ writer \in Conns \cup {NoConn}
    /\ DOMAIN req = Handlers /\ DOMAIN answer = Handlers
    /\ \A h \in Handlers : IF pc[h] = "idle" THEN req[h] = NoRequest ELSE req[h] \in Asks[h]

(* A stage belongs to the handlers that have it. *)
Routed ==
    \A h \in Handlers :
        /\ pc[h] \in {"prepared", "filter", "rows"} => req[h].route \in SelectRoutes
        /\ pc[h] \in {"tx", "wrote"} => req[h].route = "table"

(* One process serves; without one nothing is under way or open. *)
OneServer ==
    /\ \A p, q \in Procs : at[p] = "serve" /\ at[q] = "serve" => p = q
    /\ ~Serving => Active = {} /\ idle = {} /\ writer = NoConn

Holders == \A h \in Handlers : conn[h] # NoConn <=> pc[h] \in HoldingStages
Apart == \A g, h \in Handlers : conn[g] = conn[h] /\ conn[g] # NoConn => g = h
InPool == idle \cap Held = {} /\ Cardinality(idle) <= MaxIdle
WriterHeld == \E h \in Handlers : conn[h] = writer /\ pc[h] = "wrote"
WriterStranded ==
    /\ writer \in idle \/ Reading(writer)
    /\ \E h \in Handlers : Over(h) /\ answer[h].status = 500 /\ req[h].route = "table"
WriterKept == writer # NoConn => WriterHeld \/ WriterStranded

(* What a handler has written belongs to the connection it holds. *)
Written == \A h \in Handlers : pc[h] = "wrote" => conn[h] = writer

PoolInv ==
    /\ LabTypes /\ Routed /\ OneServer
    /\ Holders /\ Apart /\ InPool /\ WriterKept /\ Written

LEMMA PoolMeansKept == PoolInv => ConnectionsKept
  BY DEF PoolInv, ConnectionsKept, Holders, Apart, InPool, WriterKept, WriterHeld, WriterStranded,
         HoldingStages

LEMMA PoolInit == Init => PoolInv
<1> SUFFICES ASSUME Init PROVE PoolInv
  OBVIOUS
<1>1. LabTypes /\ Routed
  BY DEF Init, LabTypes, Routed, Places, Stages
<1>2. OneServer
  BY DEF Init, OneServer, Active, Serving
<1>3. Cardinality(idle) <= MaxIdle
  <2>1. idle = {} /\ Cardinality({}) = 0
    BY FS_EmptySet DEF Init
  <2> QED
    BY <2>1, PoolAssumption
<1> QED
  BY <1>1, <1>2, <1>3 DEF Init, PoolInv, Holders, Apart, InPool, WriterKept, Written, HoldingStages

-------------------------------------------------------------------------------
(* What a handler does with a connection.                                  *)

(* h may use c: nobody else holds it. *)
Usable(h, c) == /\ c \in Conns /\ conn[h] \in {NoConn, c}
                /\ \A g \in Handlers \ {h} : conn[g] # c

(* A connection is left for a request that holds none: no more requests    *)
(* than connections.                                                       *)
LEMMA SomeConnLeft ==
    ASSUME PoolInv, NEW h \in Handlers, conn[h] = NoConn
    PROVE  Conns \ Held # {}
<1> SUFFICES ASSUME Conns \subseteq Held PROVE FALSE
  OBVIOUS
<1> DEFINE others == {g \in Handlers : conn[g] # NoConn}
           held == [g \in others |-> conn[g]]
<1>1. conn \in [Handlers -> Conns \cup {NoConn}]
  BY DEF PoolInv, LabTypes
<1>2. Held = {conn[g] : g \in others} /\ Held \subseteq Conns
  BY <1>1, PoolAssumption DEF Held
<1>3. held \in [others -> Conns]
  BY <1>1
<1>4. \A c \in Conns : \E g \in others : held[g] = c
  BY <1>2
<1>5. held \in Surjection(others, Conns)
  BY <1>3, <1>4 DEF Surjection
<1>6. others \subseteq Handlers \ {h}
  BY <1>1
<1>7. IsFiniteSet(Handlers \ {h}) /\ Cardinality(Handlers \ {h}) = Cardinality(Handlers) - 1
  BY PoolAssumption, FS_RemoveElement
<1>8. IsFiniteSet(others) /\ Cardinality(others) <= Cardinality(Handlers) - 1
  BY <1>6, <1>7, FS_Subset
<1>9. Cardinality(Conns) <= Cardinality(others)
  BY <1>5, <1>8, FS_Surjection
<1>10. /\ Cardinality(Conns) \in Nat /\ Cardinality(Handlers) \in Nat
       /\ Cardinality(others) \in Nat /\ Cardinality(Handlers) <= Cardinality(Conns)
  BY PoolAssumption, <1>8, FS_CardinalityType
<1> HIDE DEF others
<1> QED
  BY <1>8, <1>9, <1>10

LEMMA AvailableIsUsable ==
    ASSUME PoolInv, NEW h \in Handlers, conn[h] = NoConn, NEW c \in Available
    PROVE  Usable(h, c) /\ c \notin Held
<1>1. idle \subseteq Conns /\ idle \cap Held = {}
  BY DEF PoolInv, LabTypes, InPool
<1>2. Conns \ Held # {}
  BY SomeConnLeft
<1>3. c \in Conns \ Held
  BY <1>1, <1>2 DEF Available, Opened
<1> QED
  BY <1>3, PoolAssumption DEF Usable, Held

LEMMA OwnIsUsable ==
    ASSUME PoolInv, NEW h \in Handlers, pc[h] \in HoldingStages
    PROVE  Usable(h, conn[h]) /\ conn[h] \notin idle
  BY PoolAssumption DEF PoolInv, LabTypes, Holders, Apart, InPool, Held, Usable

(* The pool never grows over its limit. *)
LEMMA PoolBound ==
    ASSUME PoolInv, NEW c
    PROVE  /\ Cardinality(idle \ {c}) <= MaxIdle
           /\ Keeps(c) => Cardinality(idle \cup {c}) <= MaxIdle
<1>1. IsFiniteSet(idle) /\ Cardinality(idle) \in Nat /\ Cardinality(idle) <= MaxIdle
  BY PoolAssumption, FS_Subset, FS_CardinalityType DEF PoolInv, LabTypes, InPool
<1>2. /\ IsFiniteSet(idle \ {c})
      /\ Cardinality(idle \ {c}) = IF c \in idle THEN Cardinality(idle) - 1 ELSE Cardinality(idle)
  BY <1>1, FS_RemoveElement
<1>3. Cardinality((idle \ {c}) \cup {c}) = Cardinality(idle \ {c}) + 1
  BY <1>2, FS_AddElement
<1>4. (idle \ {c}) \cup {c} = idle \cup {c}
  OBVIOUS
<1>5. MaxIdle \in Nat
  BY PoolAssumption
<1>6. Cardinality(idle \ {c}) \in Nat /\ Cardinality(idle \ {c}) <= MaxIdle
  BY <1>1, <1>2, <1>5, FS_CardinalityType
<1>7. Cardinality(idle \cup {c}) = Cardinality(idle \ {c}) + 1
  BY <1>3, <1>4
<1> QED
  BY <1>5, <1>6, <1>7 DEF Keeps

-------------------------------------------------------------------------------
(* The ways in which a step of a handler moves its connection.             *)

(* Nothing but h's place, request and answer changes. *)
OthersStay(h) ==
    /\ at' = at
    /\ \A g \in Handlers \ {h} : answer'[g] = answer[g] /\ req'[g] = req[g]
    /\ DOMAIN answer' = Handlers /\ DOMAIN req' = Handlers

(* h leaves c to the pool; w writes from now on. *)
Gives(h, c, w, to) ==
    /\ OthersStay(h) /\ req' = req
    /\ Usable(h, c)
    /\ pc[h] \in Stages \ {"idle", "done", "lost"}
    /\ to \in {"prepared", "filter", "done"} /\ pc' = [pc EXCEPT ![h] = to]
    /\ to \in {"prepared", "filter"} => req[h].route \in SelectRoutes
    /\ conn' = [conn EXCEPT ![h] = NoConn]
    /\ w = writer \/ (w = NoConn /\ writer = c)
    /\ pc[h] = "wrote" => c = writer /\ (w = NoConn \/ (to = "done" /\ answer'[h].status = 500))
    /\ IF Keeps(c) THEN idle' = idle \cup {c} /\ writer' = w
       ELSE idle' = idle \ {c} /\ writer' = IF w = c THEN NoConn ELSE w

(* A request served means a process that serves it. *)
LEMMA ActiveServed ==
    ASSUME PoolInv, NEW h \in Handlers, pc[h] \in Stages \ {"idle", "done", "lost"}
    PROVE  Serving
  BY DEF PoolInv, OneServer, Active

LEMMA GivesKeepsPool ==
    ASSUME PoolInv, NEW h \in Handlers, NEW c, NEW w, NEW to, Gives(h, c, w, to)
    PROVE  PoolInv'
<1> USE DEF Gives
<1>0. Serving'
  BY ActiveServed DEF Serving, OthersStay
<1>1. /\ pc \in [Handlers -> Stages] /\ conn \in [Handlers -> Conns \cup {NoConn}]
      /\ idle \subseteq Conns /\ writer \in Conns \cup {NoConn} /\ c \in Conns /\ NoConn \notin Conns
  BY PoolAssumption DEF PoolInv, LabTypes, Usable
<1>2. /\ pc'[h] = to /\ conn'[h] = NoConn
      /\ \A g \in Handlers \ {h} : pc'[g] = pc[g] /\ conn'[g] = conn[g] /\ conn[g] # c
      /\ conn[h] \in {NoConn, c}
  BY <1>1 DEF Usable
<1>3. LabTypes'
  <2>1. /\ pc' \in [Handlers -> Stages] /\ conn' \in [Handlers -> Conns \cup {NoConn}]
        /\ idle' \subseteq Conns /\ writer' \in Conns \cup {NoConn}
    BY <1>1 DEF Stages
  <2>2. \A g \in Handlers :
            IF pc'[g] = "idle" THEN req'[g] = NoRequest ELSE req'[g] \in Asks[g]
    BY <1>2 DEF PoolInv, LabTypes
  <2> QED
    BY <2>1, <2>2 DEF PoolInv, LabTypes, OthersStay
<1>4. Routed'
  BY <1>2 DEF PoolInv, Routed
<1>5. OneServer'
  BY <1>0 DEF PoolInv, OneServer, OthersStay, Serving
<1>6. Holders' /\ Apart'
  BY <1>1, <1>2 DEF PoolInv, Holders, Apart, HoldingStages
<1>7. InPool'
  <2>1. idle' \cap Held' = {}
    BY <1>1, <1>2 DEF PoolInv, InPool, Held
  <2>2. Cardinality(idle') <= MaxIdle
    BY PoolBound
  <2> QED
    BY <2>1, <2>2 DEF InPool
<1>8. WriterKept'
  <2> SUFFICES ASSUME writer' # NoConn PROVE WriterHeld' \/ WriterStranded'
    BY DEF WriterKept
  <2>1. writer' = w /\ w = writer /\ (w = c => Keeps(c))
    BY <1>1
  <2>2. \A g \in Handlers \ {h} : Over(g) /\ answer[g].status = 500 /\ req[g].route = "table" =>
            Over(g)' /\ answer'[g].status = 500 /\ req'[g].route = "table"
    BY <1>2 DEF Over, OthersStay
  <2>3. ~Over(h)
    BY DEF Over
  <2>4. CASE w = c
    <3>1. writer' \in idle'
      BY <2>1, <2>4
    <3>2. CASE pc[h] = "wrote"
      BY <3>1, <3>2, <1>1, <1>2, <2>1 DEF WriterStranded, Over, PoolInv, Routed
    <3>3. CASE pc[h] # "wrote"
      <4>1. ~WriterHeld
        BY <3>3, <2>1, <2>4, <1>2 DEF WriterHeld
      <4>2. WriterStranded
        BY <4>1, <2>1 DEF PoolInv, WriterKept
      <4> QED
        BY <4>2, <2>2, <2>3, <3>1 DEF WriterStranded
    <3> QED
      BY <3>2, <3>3
  <2>5. CASE w # c
    <3>1. \A g \in Handlers : conn[g] = w => g # h
      BY <1>1, <1>2, <2>1, <2>5
    <3>2. WriterHeld => WriterHeld'
      BY <3>1, <1>2, <2>1 DEF WriterHeld
    <3>3. WriterStranded => WriterStranded'
      BY <3>1, <1>2, <2>1, <2>2, <2>3, <2>5 DEF WriterStranded, Reading
    <3> QED
      BY <3>2, <3>3, <2>1 DEF PoolInv, WriterKept
  <2> QED
    BY <2>4, <2>5
<1>9. Written'
  <2> SUFFICES ASSUME NEW g \in Handlers, pc'[g] = "wrote" PROVE conn'[g] = writer'
    BY DEF Written
  <2>1. g # h /\ pc[g] = "wrote"
    BY <1>2
  <2>2. conn[g] = writer /\ writer # c
    BY <2>1, <1>2 DEF PoolInv, Written
  <2> QED
    BY <2>1, <2>2, <1>2
<1> QED
  BY <1>3, <1>4, <1>5, <1>6, <1>7, <1>8, <1>9 DEF PoolInv

(* h takes c for as long as its rows or its transaction last. *)
Takes(h, c, to) ==
    /\ OthersStay(h) /\ req' = req /\ answer' = answer
    /\ Usable(h, c) /\ c \notin Held /\ conn[h] = NoConn
    /\ pc[h] \in {"begin", "prepared", "filter"}
    /\ \/ to = "rows" /\ req[h].route \in SelectRoutes
       \/ to = "tx" /\ req[h].route = "table" /\ writer # c
    /\ pc' = [pc EXCEPT ![h] = to]
    /\ Keep(h, c) /\ writer' = writer

LEMMA TakesKeepsPool ==
    ASSUME PoolInv, NEW h \in Handlers, NEW c, NEW to, Takes(h, c, to)
    PROVE  PoolInv'
<1> USE DEF Takes, Keep
<1>0. Serving'
  BY ActiveServed DEF Serving, OthersStay, Stages
<1>1. /\ pc \in [Handlers -> Stages] /\ conn \in [Handlers -> Conns \cup {NoConn}]
      /\ idle \subseteq Conns /\ writer \in Conns \cup {NoConn} /\ c \in Conns /\ NoConn \notin Conns
  BY PoolAssumption DEF PoolInv, LabTypes, Usable
<1>2. /\ pc'[h] = to /\ conn'[h] = c /\ to \in {"rows", "tx"}
      /\ \A g \in Handlers \ {h} : pc'[g] = pc[g] /\ conn'[g] = conn[g] /\ conn[g] # c
  BY <1>1 DEF Usable
<1>3. LabTypes'
  <2>1. /\ pc' \in [Handlers -> Stages] /\ conn' \in [Handlers -> Conns \cup {NoConn}]
        /\ idle' \subseteq Conns
    BY <1>1 DEF Stages
  <2>2. \A g \in Handlers :
            IF pc'[g] = "idle" THEN req'[g] = NoRequest ELSE req'[g] \in Asks[g]
    BY <1>2 DEF PoolInv, LabTypes
  <2> QED
    BY <2>1, <2>2 DEF PoolInv, LabTypes, OthersStay
<1>4. Routed'
  BY <1>2 DEF PoolInv, Routed
<1>5. OneServer'
  BY <1>0 DEF PoolInv, OneServer, OthersStay, Serving
<1>6. Holders' /\ Apart'
  BY <1>1, <1>2 DEF PoolInv, Holders, Apart, HoldingStages
<1>7. InPool'
  <2>1. idle' \cap Held' = {}
    BY <1>1, <1>2 DEF PoolInv, InPool, Held
  <2>2. Cardinality(idle') <= MaxIdle
    BY PoolBound
  <2> QED
    BY <2>1, <2>2 DEF InPool
<1>8. WriterKept'
  <2>1. WriterHeld => WriterHeld'
    BY <1>2 DEF WriterHeld
  <2>2. WriterStranded => WriterStranded'
    <3> SUFFICES ASSUME WriterStranded PROVE WriterStranded'
      OBVIOUS
    <3>1. \A g \in Handlers : Over(g) => Over(g)'
      BY <1>2 DEF Over
    <3>2. writer \in idle \/ Reading(writer) => writer' \in idle' \/ Reading(writer)'
      <4>1. CASE writer = c
        <5>1. to = "rows"
          BY <4>1, <1>1, <1>2, PoolAssumption DEF WriterStranded
        <5> QED
          BY <4>1, <1>2, <5>1 DEF Reading
      <4>2. CASE writer # c
        BY <4>2, <1>2 DEF Reading
      <4> QED
        BY <4>1, <4>2
    <3> QED
      BY <3>1, <3>2 DEF WriterStranded
  <2> QED
    BY <2>1, <2>2 DEF PoolInv, WriterKept
<1>9. Written'
  BY <1>2 DEF PoolInv, Written
<1> QED
  BY <1>3, <1>4, <1>5, <1>6, <1>7, <1>8, <1>9 DEF PoolInv
-------------------------------------------------------------------------------
(* Every step keeps the pool.                                              *)

LEMMA FailGives ==
    ASSUME PoolInv, NEW h \in Handlers, NEW c, Usable(h, c), Fail(h, c), at' = at,
           pc[h] \in Stages \ {"idle", "done", "lost"}, pc[h] = "wrote" => c = writer
    PROVE  Gives(h, c, writer, "done") /\ answer'[h].status = 500
<1>1. DOMAIN answer = Handlers /\ DOMAIN req = Handlers
  BY DEF PoolInv, LabTypes
<1>2. Status(500).status = 500
  BY DEF Status, NoAnswer
<1> QED
  BY <1>1, <1>2 DEF Fail, Done, Goto, GiveBack, Gives, OthersStay

LEMMA WorkKeepsPool ==
    ASSUME PoolInv, NEW h \in Handlers, Work(h)
    PROVE  PoolInv'
<1>1. /\ pc \in [Handlers -> Stages] /\ DOMAIN answer = Handlers /\ DOMAIN req = Handlers
      /\ pc[h] \notin HoldingStages => conn[h] = NoConn
      /\ NoConn \notin Conns
  BY PoolAssumption DEF PoolInv, LabTypes, Holders
<1>2. pc[h] \notin HoldingStages => \A c \in Available : Usable(h, c) /\ c \notin Held
  BY <1>1, AvailableIsUsable
<1>3. pc[h] \in HoldingStages => Usable(h, conn[h])
  BY OwnIsUsable
<1>4. Selects(h) \/ AtQuery(h) => pc[h] \in {"begin", "prepared", "filter"}
  BY DEF Selects, AtQuery
<1>5. Selects(h) \/ AtQuery(h) => req[h].route \in SelectRoutes
  BY DEF Selects, AtQuery, PoolInv, Routed
<1>6. ASSUME NEW c, Usable(h, c), Fail(h, c), at' = at,
             pc[h] \in Stages \ {"idle", "done", "lost"}, pc[h] = "wrote" => c = writer
      PROVE  PoolInv'
  BY <1>6, FailGives, GivesKeepsPool
<1>7. CASE Refuse(h)
  <2>1. /\ pc[h] = "begin" /\ pc' = [pc EXCEPT ![h] = "done"] /\ conn' = conn
        /\ at' = at /\ idle' = idle /\ writer' = writer /\ req' = req
        /\ answer' = [answer EXCEPT ![h] = Status(400)]
    BY <1>1, <1>7 DEF Refuse, Done, Goto, HoldingStages, file, work, PoolInv, LabTypes
  <2>2. pc'[h] = "done" /\ \A g \in Handlers \ {h} : pc'[g] = pc[g] /\ answer'[g] = answer[g]
    BY <1>1, <2>1
  <2>3. LabTypes'
    BY <1>1, <2>1, <2>2 DEF PoolInv, LabTypes, Stages
  <2>4. Routed' /\ Holders' /\ Apart' /\ Written'
    BY <2>1, <2>2 DEF PoolInv, Routed, Holders, Apart, Written, HoldingStages
  <2>5. OneServer'
    BY <2>1, <1>1, ActiveServed DEF PoolInv, OneServer, Serving, Stages
  <2>6. InPool'
    BY <2>1 DEF PoolInv, InPool, Held
  <2>7. WriterKept'
    BY <2>1, <2>2 DEF PoolInv, WriterKept, WriterHeld, WriterStranded, Reading, Over
  <2> QED
    BY <2>3, <2>4, <2>5, <2>6, <2>7 DEF PoolInv
<1>8. CASE Prepare(h)
  <2>1. PICK c \in Available :
            Fail(h, c) \/ /\ Goto(h, "prepared") /\ GiveBack(c, writer, draft)
                          /\ UNCHANGED <<users, alone, conn, answer, work>>
    BY <1>8 DEF Prepare
  <2>2. pc[h] = "begin" /\ req[h].route \in SelectRoutes /\ at' = at
    BY <1>8 DEF Prepare, Selects
  <2>3. CASE Fail(h, c)
    BY <2>2, <2>3, <1>2, <1>6 DEF Stages, HoldingStages
  <2>4. CASE /\ Goto(h, "prepared") /\ GiveBack(c, writer, draft)
             /\ UNCHANGED <<users, alone, conn, answer, work>>
    <3>1. conn' = [conn EXCEPT ![h] = NoConn]
      BY <2>2, <2>4, <1>1 DEF HoldingStages, PoolInv, LabTypes
    <3>2. OthersStay(h) /\ req' = req
      BY <2>2, <2>4, <1>1 DEF OthersStay, work
    <3>3. Gives(h, c, writer, "prepared")
      BY <3>1, <3>2, <2>2, <2>4, <1>2 DEF Gives, Goto, GiveBack, Stages, HoldingStages
    <3> QED
      BY <3>3, GivesKeepsPool
  <2> QED
    BY <2>1, <2>3, <2>4
<1>9. CASE ReadFilter(h)
  <2>1. PICK c \in Available :
            Fail(h, c) \/ /\ Goto(h, "filter") /\ GiveBack(c, writer, draft)
                          /\ UNCHANGED <<users, alone, conn, answer, req, cursor, adrift>>
    BY <1>9 DEF ReadFilter
  <2>2. pc[h] = "begin" /\ req[h].route \in SelectRoutes /\ at' = at
    BY <1>9 DEF ReadFilter, Selects
  <2>3. CASE Fail(h, c)
    BY <2>2, <2>3, <1>2, <1>6 DEF Stages, HoldingStages
  <2>4. CASE /\ Goto(h, "filter") /\ GiveBack(c, writer, draft)
             /\ UNCHANGED <<users, alone, conn, answer, req, cursor, adrift>>
    <3>1. conn' = [conn EXCEPT ![h] = NoConn]
      BY <2>2, <2>4, <1>1 DEF HoldingStages, PoolInv, LabTypes
    <3>2. OthersStay(h) /\ req' = req
      BY <2>2, <2>4, <1>1 DEF OthersStay
    <3>3. Gives(h, c, writer, "filter")
      BY <3>1, <3>2, <2>2, <2>4, <1>2 DEF Gives, Goto, GiveBack, Stages, HoldingStages
    <3> QED
      BY <3>3, GivesKeepsPool
  <2> QED
    BY <2>1, <2>3, <2>4
<1>10. CASE Query(h)
  <2>1. PICK c \in Available :
            Fail(h, c) \/ /\ Goto(h, "rows") /\ Keep(h, c)
                          /\ UNCHANGED <<writer, answer, req>>
    BY <1>10 DEF Query
  <2>2. /\ pc[h] \in {"begin", "prepared", "filter"} /\ req[h].route \in SelectRoutes
        /\ at' = at
    BY <1>10, <1>4, <1>5 DEF Query
  <2>3. Fail(h, c) => PoolInv'
    BY <2>2, <1>2, <1>6 DEF Stages, HoldingStages
  <2>4. ~Fail(h, c) => Takes(h, c, "rows")
    BY <2>1, <2>2, <1>1, <1>2 DEF Takes, OthersStay, Goto, HoldingStages
  <2> QED
    BY <2>3, <2>4, TakesKeepsPool
<1>11. CASE ReadTimesOut(h)
  BY <1>11, <1>2, <1>4, <1>6 DEF ReadTimesOut, Stages, HoldingStages
<1>12. CASE WriteUsers(h)
  <2>1. PICK n : Done(h, Listing(cursor[h], n))
    BY <1>12 DEF WriteUsers
  <2>2. /\ pc[h] = "rows" /\ GiveBack(conn[h], writer, draft) /\ at' = at /\ req' = req
    BY <1>12 DEF WriteUsers, work
  <2>3. Gives(h, conn[h], writer, "done")
    BY <2>1, <2>2, <1>1, <1>3 DEF Gives, OthersStay, Done, Goto, GiveBack, Stages, HoldingStages
  <2> QED
    BY <2>3, GivesKeepsPool
<1>13. CASE Exec(h)
  <2>1. pc[h] = "begin" /\ at' = at
    BY <1>13 DEF Exec, Executes
  <2>2. PICK c \in Available :
            \/ Fail(h, c)
            \/ \E d : GiveBack(c, writer, d) /\ Done(h, Status(200)) /\ req' = req
    BY <1>13 DEF Exec
  <2>3. Fail(h, c) => PoolInv'
    BY <2>1, <1>2, <1>6 DEF Stages, HoldingStages
  <2>4. ~Fail(h, c) => Gives(h, c, writer, "done")
    BY <2>1, <2>2, <1>1, <1>2 DEF Gives, OthersStay, Done, Goto, GiveBack, Stages, HoldingStages
  <2> QED
    BY <2>3, <2>4, GivesKeepsPool
<1>14. CASE ExecTimesOut(h)
  BY <1>14, <1>2, <1>6 DEF ExecTimesOut, Executes, Stages, HoldingStages
<1>15. CASE Begin(h)
  <2>1. pc[h] = "begin" /\ req[h].route = "table" /\ at' = at
    BY <1>15 DEF Begin
  <2>2. PICK c \in Available :
            \/ Fail(h, c)
            \/ /\ writer # c /\ Goto(h, "tx") /\ Keep(h, c)
               /\ UNCHANGED <<writer, answer, work>>
    BY <1>15 DEF Begin
  <2>3. Fail(h, c) => PoolInv'
    BY <2>1, <1>2, <1>6 DEF Stages, HoldingStages
  <2>4. ~Fail(h, c) => Takes(h, c, "tx")
    BY <2>1, <2>2, <1>1, <1>2 DEF Takes, OthersStay, Goto, HoldingStages, work
  <2> QED
    BY <2>3, <2>4, TakesKeepsPool
<1>16. CASE TxExec(h)
  <2>1. pc[h] = "tx" /\ at' = at
    BY <1>16 DEF TxExec
  <2>2. CASE Fail(h, conn[h])
    BY <2>1, <2>2, <1>3, <1>6 DEF Stages, HoldingStages
  <2>3. CASE ~Fail(h, conn[h])
    <3>1. /\ writer = NoConn /\ writer' = conn[h] /\ pc' = [pc EXCEPT ![h] = "wrote"]
          /\ UNCHANGED <<idle, conn, answer, req>>
      BY <1>16, <2>3 DEF TxExec, Goto, work
    <3>2. pc'[h] = "wrote" /\ \A g \in Handlers \ {h} : pc'[g] = pc[g]
      BY <1>1, <3>1
    <3>3. conn[h] \in Conns
      BY <2>1, <1>3 DEF HoldingStages, Usable
    <3>4. LabTypes'
      BY <1>1, <2>1, <3>1, <3>2, <3>3 DEF PoolInv, LabTypes, Stages
    <3>5. Routed' /\ Holders' /\ Apart'
      BY <2>1, <3>1, <3>2 DEF PoolInv, Routed, Holders, Apart, HoldingStages
    <3>6. OneServer'
      BY <2>1, <1>1, ActiveServed DEF PoolInv, OneServer, Serving, Stages
    <3>7. InPool'
      BY <3>1 DEF PoolInv, InPool, Held
    <3>8. WriterKept'
      BY <3>1, <3>2 DEF WriterKept, WriterHeld
    <3>9. Written'
      <4>1. \A g \in Handlers \ {h} : pc[g] # "wrote"
        BY <1>1, <3>1 DEF PoolInv, Written, Holders, HoldingStages
      <4> QED
        BY <3>1, <3>2, <4>1 DEF Written
    <3> QED
      BY <3>4, <3>5, <3>6, <3>7, <3>8, <3>9 DEF PoolInv
  <2> QED
    BY <2>2, <2>3
<1>17. CASE Commit(h)
  <2>1. /\ pc[h] = "wrote" /\ at' = at /\ req' = req /\ Done(h, Status(200))
        /\ GiveBack(conn[h], NoConn, Empty)
    BY <1>17 DEF Commit, work
  <2>2. conn[h] = writer
    BY <2>1 DEF PoolInv, Written
  <2>3. Gives(h, conn[h], NoConn, "done")
    BY <2>1, <2>2, <1>1, <1>3 DEF Gives, OthersStay, Done, Goto, GiveBack, Stages, HoldingStages
  <2> QED
    BY <2>3, GivesKeepsPool
<1>18. CASE CommitFails(h)
  BY <1>18, <1>3, <1>6 DEF CommitFails, PoolInv, Written, Stages, HoldingStages
<1> QED
  BY <1>7, <1>8, <1>9, <1>10, <1>11, <1>12, <1>13, <1>14, <1>15, <1>16, <1>17, <1>18 DEF Work
(* A step of a process that touches neither connections nor requests.      *)
LEMMA StartingKeepsPool ==
    ASSUME PoolInv, NEW p \in Procs, NEW to \in Places \ {"serve"}, at[p] # "serve",
           at' = [at EXCEPT ![p] = to],
           UNCHANGED <<pc, req, conn, answer, idle, writer>>
    PROVE  PoolInv'
<1>1. at \in [Procs -> Places]
  BY DEF PoolInv, LabTypes
<1>2. \A q \in Procs : at'[q] = "serve" <=> at[q] = "serve"
  BY <1>1
<1>3. LabTypes'
  BY <1>1 DEF PoolInv, LabTypes
<1>4. OneServer'
  BY <1>2 DEF PoolInv, OneServer, Serving, Active
<1>5. Routed' /\ Holders' /\ Apart' /\ Written'
  BY DEF PoolInv, Routed, Holders, Apart, Written
<1>6. InPool' /\ WriterKept'
  BY DEF PoolInv, InPool, Held, WriterKept, WriterHeld, WriterStranded, Reading, Over
<1> QED
  BY <1>3, <1>4, <1>5, <1>6 DEF PoolInv

LEMMA PoolStep == PoolInv /\ [Next]_vars => PoolInv'
<1> SUFFICES ASSUME PoolInv, [Next]_vars PROVE PoolInv'
  OBVIOUS
<1>0. /\ at \in [Procs -> Places] /\ pc \in [Handlers -> Stages]
      /\ DOMAIN req = Handlers /\ DOMAIN answer = Handlers
  BY DEF PoolInv, LabTypes
<1>1. ASSUME NEW h \in Handlers, Receive(h) PROVE PoolInv'
  <2>1. PICK q \in Asks[h] : req' = [req EXCEPT ![h] = q]
    BY <1>1 DEF Receive
  <2>2. /\ pc[h] = "idle" /\ Serving /\ pc' = [pc EXCEPT ![h] = "begin"]
        /\ UNCHANGED <<idle, writer, at, conn, answer>>
    BY <1>1 DEF Receive, Goto, file
  <2>3. /\ pc'[h] = "begin" /\ req'[h] = q /\ DOMAIN req' = Handlers
        /\ \A g \in Handlers \ {h} : pc'[g] = pc[g] /\ req'[g] = req[g]
    BY <1>0, <2>1, <2>2
  <2>4. LabTypes'
    BY <1>0, <2>2, <2>3 DEF PoolInv, LabTypes, Stages
  <2>5. Routed' /\ Holders' /\ Apart' /\ Written'
    BY <2>2, <2>3 DEF PoolInv, Routed, Holders, Apart, Written, HoldingStages
  <2>6. OneServer'
    BY <2>2 DEF PoolInv, OneServer, Serving
  <2>7. InPool'
    BY <2>2 DEF PoolInv, InPool, Held
  <2>8. WriterKept'
    BY <2>2, <2>3 DEF PoolInv, WriterKept, WriterHeld, WriterStranded, Reading, Over
  <2> QED
    BY <2>4, <2>5, <2>6, <2>7, <2>8 DEF PoolInv
<1>2. ASSUME NEW h \in Handlers, Work(h) PROVE PoolInv'
  BY <1>2, WorkKeepsPool
<1>3. ASSUME NEW p \in Procs, Start(p) \/ DeleteRows(p) \/ InsertSeeds(p) \/ InitFails(p)
      PROVE  PoolInv'
  <2>1. /\ at[p] # "serve" /\ UNCHANGED <<pc, req, conn, answer, idle, writer>>
        /\ \E to \in Places \ {"serve"} : at' = [at EXCEPT ![p] = to]
    BY <1>3 DEF Start, DeleteRows, InsertSeeds, InitFails, Move, Places, file, work
  <2> QED
    BY <2>1, StartingKeepsPool
<1>4. ASSUME NEW p \in Procs, Listen(p) PROVE PoolInv'
  <2>1. at[p] = "listen" /\ UNCHANGED <<pc, req, conn, answer, writer>>
    BY <1>4 DEF Listen, Move, file, work
  <2>2. CASE Serving
    <3>1. at' = [at EXCEPT ![p] = "off"] /\ idle' = idle
      BY <1>4, <2>2 DEF Listen, Move
    <3> QED
      BY <2>1, <3>1, StartingKeepsPool DEF Places
  <2>3. CASE ~Serving
    <3>1. at' = [at EXCEPT ![p] = "serve"] /\ idle' = {Opened(Conns)}
      BY <1>4, <2>3 DEF Listen, Move
    <3>2. Opened(Conns) \in Conns
      BY PoolAssumption DEF Opened
    <3>3. \A q \in Procs : at'[q] = "serve" <=> q = p
      BY <1>0, <2>3, <3>1 DEF Serving
    <3>4. Active = {} /\ writer = NoConn
      BY <2>3 DEF PoolInv, OneServer
    <3>5. \A h \in Handlers : conn[h] = NoConn
      BY <3>4 DEF PoolInv, Holders, Active, HoldingStages
    <3>6. LabTypes'
      BY <1>0, <2>1, <3>1, <3>2 DEF PoolInv, LabTypes, Places
    <3>7. Routed' /\ Holders' /\ Apart' /\ Written'
      BY <2>1 DEF PoolInv, Routed, Holders, Apart, Written
    <3>8. OneServer'
      BY <3>3 DEF OneServer, Serving
    <3>9. InPool'
      <4>1. Held' = {}
        BY <2>1, <3>5 DEF Held
      <4>2. Cardinality(idle') = 1 /\ 1 <= MaxIdle
        <5>1. Cardinality({Opened(Conns)}) = 1
          BY FS_Singleton
        <5>2. MaxIdle >= 1
          BY PoolAssumption
        <5> QED
          BY <3>1, <5>1, <5>2
      <4> QED
        BY <4>1, <4>2 DEF InPool
    <3>10. WriterKept'
      BY <2>1, <3>4 DEF WriterKept
    <3> QED
      BY <3>6, <3>7, <3>8, <3>9, <3>10 DEF PoolInv
  <2> QED
    BY <2>2, <2>3
<1>5. ASSUME NEW p \in Procs, Crash(p) PROVE PoolInv'
  <2>1. at' = [at EXCEPT ![p] = "off"] /\ answer' = answer /\ req' = req
    BY <1>5 DEF Crash
  <2>2. CASE at[p] # "serve"
    <3>1. UNCHANGED <<pc, conn, idle, writer>>
      BY <1>5, <2>2 DEF Crash
    <3> QED
      BY <2>1, <2>2, <3>1, StartingKeepsPool DEF Places
  <2>3. CASE at[p] = "serve"
    <3>1. /\ pc' = [h \in Handlers |-> IF h \in Active THEN "lost" ELSE pc[h]]
          /\ conn' = [h \in Handlers |-> NoConn] /\ idle' = {} /\ writer' = NoConn
      BY <1>5, <2>3 DEF Crash
    <3>2. \A q \in Procs : at'[q] # "serve"
      BY <1>0, <2>1, <2>3 DEF PoolInv, OneServer
    <3>3. \A h \in Handlers : pc'[h] \in {"idle", "done", "lost"} /\ (pc'[h] = "idle" <=> pc[h] = "idle")
      BY <1>0, <3>1 DEF Active, Stages
    <3>4. LabTypes'
      BY <1>0, <2>1, <3>1, <3>3 DEF PoolInv, LabTypes, Places, Stages
    <3>5. Routed' /\ Holders' /\ Apart' /\ Written'
      BY <3>1, <3>3 DEF Routed, Holders, Apart, Written, HoldingStages
    <3>6. OneServer'
      BY <3>1, <3>2, <3>3 DEF OneServer, Active
    <3>7. InPool'
      <4>1. Cardinality({}) <= MaxIdle
        BY FS_EmptySet, PoolAssumption
      <4> QED
        BY <3>1, <4>1 DEF InPool
    <3>8. WriterKept'
      BY <3>1 DEF WriterKept
    <3> QED
      BY <3>4, <3>5, <3>6, <3>7, <3>8 DEF PoolInv
  <2> QED
    BY <2>2, <2>3
<1>6. CASE UNCHANGED vars
  BY <1>6 DEF vars, file, work, PoolInv, LabTypes, Routed, OneServer, Serving, Active, Holders,
              Apart, InPool, Held, WriterKept, WriterHeld, WriterStranded, Reading, Over, Written
<1> QED
  BY <1>1, <1>2, <1>3, <1>4, <1>5, <1>6 DEF Next

LEMMA PoolAlways == Spec => []PoolInv
  BY PoolInit, PoolStep, PTL DEF Spec

(* No connection is lost and none is shared, whatever fails or crashes;    *)
(* the one that has written belongs to a request that will commit it, or,  *)
(* after a Commit of tableUnsafe that has failed, to the pool.             *)
THEOREM ConnectionsKeptCorrect == Spec => []ConnectionsKept
  BY PoolAlways, PoolMeansKept, PTL
-------------------------------------------------------------------------------
(* Requests: what a handler has written is its whole change of the table,  *)
(* and nobody else changes the table before it commits.                    *)
Drafted == \A h \in Handlers : pc[h] = "wrote" => draft = Change(h, req[h], users)
Drifting == adrift \subseteq {h \in Handlers : pc[h] \in {"rows", "done", "lost"}}
RequestInv == PoolInv /\ Drafted /\ Drifting

LEMMA RequestInit == Init => RequestInv
  BY PoolInit DEF Init, RequestInv, Drafted, Drifting

(* While a handler has written, the table and its draft are its own. *)
LEMMA OthersKeepDraft ==
    ASSUME PoolInv, NEW g \in Handlers, pc[g] = "wrote", NEW h \in Handlers \ {g}, Work(h)
    PROVE  users' = users /\ draft' = draft
<1>1. conn[g] = writer /\ writer \in Conns /\ writer # NoConn /\ writer \notin idle /\ writer \in Held
  BY OwnIsUsable, PoolAssumption DEF PoolInv, Written, Usable, HoldingStages, Held
<1>2. \A c : Usable(h, c) => c # writer
  BY <1>1 DEF Usable
<1>3. pc[h] \notin HoldingStages => \A c \in Available : c # writer /\ c # NoConn
  BY <1>1, <1>2, PoolAssumption, AvailableIsUsable DEF PoolInv, Holders, Usable
<1>4. pc[h] \in HoldingStages => conn[h] # writer
  BY <1>2, OwnIsUsable
<1>5. \A c : c # writer /\ GiveBack(c, writer, draft) => draft' = draft
  BY DEF GiveBack
<1>6. \A c : c # writer /\ Fail(h, c) => users' = users /\ draft' = draft
  BY <1>5 DEF Fail
<1>7. CASE Refuse(h)
  BY <1>7 DEF Refuse, file
<1>8. CASE Prepare(h)
  BY <1>8, <1>3, <1>5, <1>6 DEF Prepare, Selects, HoldingStages
<1>9. CASE ReadFilter(h)
  BY <1>9, <1>3, <1>5, <1>6 DEF ReadFilter, Selects, HoldingStages
<1>10. CASE Query(h) \/ ReadTimesOut(h)
  <2>1. pc[h] \notin HoldingStages
    BY <1>10 DEF Query, ReadTimesOut, AtQuery, Selects, HoldingStages
  <2>2. \E c \in Available : Fail(h, c) \/ (users' = users /\ draft' = draft)
    BY <1>10 DEF Query, ReadTimesOut
  <2> QED
    BY <2>1, <2>2, <1>3, <1>6
<1>11. CASE WriteUsers(h)
  BY <1>11, <1>4, <1>5 DEF WriteUsers, HoldingStages
<1>12. CASE Exec(h) \/ ExecTimesOut(h)
  <2>1. pc[h] \notin HoldingStages
    BY <1>12 DEF Exec, ExecTimesOut, Executes, HoldingStages
  <2>2. \E c \in Available : Fail(h, c) \/ Free(c)
    BY <1>12 DEF Exec, ExecTimesOut
  <2> QED
    BY <2>1, <2>2, <1>1, <1>3, <1>6 DEF Free
<1>13. CASE Begin(h)
  <2>1. pc[h] \notin HoldingStages
    BY <1>13 DEF Begin, HoldingStages
  <2>2. \E c \in Available : Fail(h, c) \/ (users' = users /\ draft' = draft)
    BY <1>13 DEF Begin
  <2> QED
    BY <2>1, <2>2, <1>3, <1>6
<1>14. CASE TxExec(h)
  BY <1>14, <1>1, <1>4, <1>6 DEF TxExec, HoldingStages
<1>15. CASE Commit(h) \/ CommitFails(h)
  BY <1>15, <1>4 DEF Commit, CommitFails, PoolInv, Written, HoldingStages
<1> QED
  BY <1>7, <1>8, <1>9, <1>10, <1>11, <1>12, <1>13, <1>14, <1>15, Work(h) DEF Work

(* Where a step of h leads, and whom it sets adrift. *)
LEMMA WorkMoves ==
    ASSUME PoolInv, NEW h \in Handlers, Work(h)
    PROVE  /\ pc[h] \in Stages \ {"idle", "done", "lost"} /\ pc'[h] # "lost" /\ req' = req
           /\ \A g \in Handlers \ {h} : pc'[g] = pc[g] /\ answer'[g] = answer[g]
           /\ pc'[h] = "wrote" => TxExec(h)
           /\ adrift' \in {adrift, adrift \cup {h}}
           /\ pc[h] = "rows" => pc'[h] = "done"
           /\ adrift' # adrift => pc'[h] \in {"rows", "done"}
<1>0. pc \in [Handlers -> Stages] /\ DOMAIN answer = Handlers
  BY DEF PoolInv, LabTypes
<1>1. \A to : Goto(h, to) => pc'[h] = to /\ \A g \in Handlers \ {h} : pc'[g] = pc[g]
  BY <1>0 DEF Goto
<1>2. \A a : Done(h, a) => /\ pc'[h] = "done"
                           /\ \A g \in Handlers \ {h} : pc'[g] = pc[g] /\ answer'[g] = answer[g]
  BY <1>0, <1>1 DEF Done
<1>3. \A c : Fail(h, c) => /\ pc'[h] = "done" /\ UNCHANGED <<req, adrift>>
                           /\ \A g \in Handlers \ {h} : pc'[g] = pc[g] /\ answer'[g] = answer[g]
  BY <1>2 DEF Fail
<1>4. CASE Refuse(h)
  BY <1>4, <1>2 DEF Refuse, work, Stages
<1>5. CASE Prepare(h) \/ ReadFilter(h)
  <2>1. pc[h] = "begin"
    BY <1>5 DEF Prepare, ReadFilter, Selects
  <2>2. \/ \E c : Fail(h, c)
        \/ /\ Goto(h, "prepared") \/ Goto(h, "filter")
           /\ UNCHANGED <<answer, req, adrift>>
    BY <1>5 DEF Prepare, ReadFilter, work
  <2> QED
    BY <2>1, <2>2, <1>1, <1>3 DEF Stages
<1>6. CASE Query(h)
  <2>1. pc[h] \in {"begin", "prepared", "filter"}
    BY <1>6 DEF Query, AtQuery, Selects
  <2> QED
    BY <2>1, <1>6, <1>1, <1>3 DEF Query, Stages
<1>7. CASE ReadTimesOut(h)
  <2>1. pc[h] \in {"begin", "prepared", "filter"}
    BY <1>7 DEF ReadTimesOut, AtQuery, Selects
  <2> QED
    BY <2>1, <1>7, <1>3 DEF ReadTimesOut, Stages
<1>8. CASE WriteUsers(h)
  BY <1>8, <1>2 DEF WriteUsers, work, Stages
<1>9. CASE Exec(h) \/ ExecTimesOut(h)
  BY <1>9, <1>2, <1>3 DEF Exec, ExecTimesOut, Executes, Stages
<1>10. CASE Begin(h) \/ TxExec(h)
  BY <1>10, <1>1, <1>3 DEF Begin, TxExec, work, Stages
<1>11. CASE Commit(h) \/ CommitFails(h)
  BY <1>11, <1>2, <1>3 DEF Commit, CommitFails, work, Stages
<1> QED
  BY <1>4, <1>5, <1>6, <1>7, <1>8, <1>9, <1>10, <1>11 DEF Work

LEMMA RequestStep == RequestInv /\ [Next]_vars => RequestInv'
<1> SUFFICES ASSUME RequestInv, [Next]_vars PROVE RequestInv'
  OBVIOUS
<1>0. PoolInv /\ PoolInv' /\ Drafted /\ Drifting
  BY PoolStep DEF RequestInv
<1>1. ASSUME NEW h \in Handlers, Receive(h) PROVE Drafted' /\ Drifting'
  <2>1. \A g \in Handlers : g # h => pc'[g] = pc[g] /\ req'[g] = req[g]
    BY <1>0, <1>1 DEF Receive, Goto, PoolInv, LabTypes
  <2>2. pc[h] = "idle" /\ pc'[h] = "begin" /\ UNCHANGED <<users, draft, adrift>>
    BY <1>0, <1>1 DEF Receive, Goto, PoolInv, LabTypes, file
  <2> QED
    BY <2>1, <2>2, <1>0 DEF Drafted, Drifting
<1>2. ASSUME NEW h \in Handlers, Work(h) PROVE Drafted' /\ Drifting'
  <2>1. Drifting'
    BY <1>0, <1>2, WorkMoves DEF Drifting, Stages
  <2>2. ASSUME NEW g \in Handlers, pc'[g] = "wrote"
        PROVE  draft' = Change(g, req[g], users')
    <3>1. CASE g = h
      <4>1. TxExec(h)
        BY <1>0, <1>2, <2>2, <3>1, WorkMoves
      <4>2. ~Fail(h, conn[h])
        <5>1. pc \in [Handlers -> Stages]
          BY <1>0 DEF PoolInv, LabTypes
        <5> QED
          BY <5>1, <2>2, <3>1 DEF Fail, Done, Goto
      <4> QED
        BY <4>1, <4>2, <3>1 DEF TxExec
    <3>2. CASE g # h
      <4>1. pc[g] = "wrote"
        BY <1>0, <1>2, <2>2, <3>2, WorkMoves
      <4>2. users' = users /\ draft' = draft
        BY <1>0, <1>2, <4>1, <3>2, OthersKeepDraft
      <4> QED
        BY <4>1, <4>2, <1>0 DEF Drafted
    <3> QED
      BY <3>1, <3>2
  <2> QED
    BY <2>1, <2>2, <1>0, <1>2, WorkMoves DEF Drafted
<1>3. ASSUME NEW p \in Procs, Start(p) \/ DeleteRows(p) \/ InsertSeeds(p)
      PROVE  Drafted' /\ Drifting'
  <2>1. writer = NoConn /\ UNCHANGED <<pc, req, adrift>>
    BY <1>3 DEF Start, DeleteRows, InsertSeeds, Unlocked, work
  <2>2. \A h \in Handlers : pc[h] # "wrote"
    BY <2>1, <1>0 DEF PoolInv, Written, Holders, HoldingStages
  <2> QED
    BY <2>1, <2>2, <1>0 DEF Drafted, Drifting
<1>4. ASSUME NEW p \in Procs, InitFails(p) \/ Listen(p) PROVE Drafted' /\ Drifting'
  BY <1>0, <1>4 DEF InitFails, Listen, file, work, Drafted, Drifting
<1>5. ASSUME NEW p \in Procs, Crash(p) PROVE Drafted' /\ Drifting'
  <2>1. users' = users /\ req' = req /\ adrift' = adrift
    BY <1>5 DEF Crash
  <2>2. CASE at[p] # "serve"
    BY <1>0, <1>5, <2>1, <2>2 DEF Crash, Drafted, Drifting
  <2>3. CASE at[p] = "serve"
    <3>1. pc' = [h \in Handlers |-> IF h \in Active THEN "lost" ELSE pc[h]]
      BY <1>5, <2>3 DEF Crash
    <3> QED
      BY <1>0, <2>1, <3>1 DEF Active, Drafted, Drifting
  <2> QED
    BY <2>2, <2>3
<1>6. ASSUME UNCHANGED vars PROVE Drafted' /\ Drifting'
  <2>1. UNCHANGED <<pc, req, users, draft, adrift>>
    BY <1>6 DEF vars, file, work
  <2> QED
    BY <2>1, <1>0 DEF Drafted, Drifting
<1>7. Drafted' /\ Drifting'
  <2>1. CASE Next
    BY <2>1, <1>1, <1>2, <1>3, <1>4, <1>5 DEF Next
  <2>2. CASE UNCHANGED vars
    BY <2>2, <1>6
  <2> QED
    BY <2>1, <2>2
<1> QED
  BY <1>0, <1>7 DEF RequestInv
-------------------------------------------------------------------------------
(* The step of RequestTable that a step of the lab is.                     *)

LEMMA Requested ==
    ASSUME PoolInv, NEW h \in Handlers, pc[h] # "idle"
    PROVE  req[h] \in Asks[h] /\ req[h] # NoRequest
<1>1. req[h] \in Asks[h] /\ Asks[h] \subseteq Request
  BY SqlAssumption DEF PoolInv, LabTypes
<1>2. \A q \in Request : q.route \in Routes
  BY DEF Request
<1>3. NoRequest.route \notin Routes
  BY DEF NoRequest, Routes, SelectRoutes, ExecRoutes
<1> QED
  BY <1>1, <1>2, <1>3

(* While h moves on without an answer, or answers a read, nothing happens. *)
LEMMA OutcomesStay ==
    ASSUME PoolInv, NEW h \in Handlers, req' = req,
           adrift' \in {adrift, adrift \cup {h}}, ~Over(h),
           \A g \in Handlers \ {h} : pc'[g] = pc[g] /\ answer'[g] = answer[g],
           pc'[h] # "done" \/ req[h].route \in SelectRoutes
    PROVE  outcomeOf' = outcomeOf
<1>1. \A g \in Handlers : outcomeOf'[g] = outcomeOf[g]
  <2>1. ASSUME NEW g \in Handlers \ {h} PROVE outcomeOf'[g] = outcomeOf[g]
    BY <2>1 DEF outcomeOf, Over
  <2>2. outcomeOf'[h] = "open" /\ outcomeOf[h] = "open"
    BY DEF outcomeOf, Over
  <2> QED
    BY <2>1, <2>2
<1>2. /\ outcomeOf = [g \in Handlers |-> outcomeOf[g]]
      /\ outcomeOf' = [g \in Handlers |-> outcomeOf'[g]]
  BY DEF outcomeOf
<1> QED
  BY <1>1, <1>2

LEMMA Answers ==
    ASSUME PoolInv, NEW h \in Handlers, pc[h] # "idle", ~Over(h), req' = req,
           req[h].route \notin SelectRoutes,
           adrift' \in {adrift, adrift \cup {h}}, pc'[h] = "done",
           \A g \in Handlers \ {h} : pc'[g] = pc[g] /\ answer'[g] = answer[g],
           NEW how, how = IF answer'[h].status # 200 THEN "refused"
                          ELSE IF h \in adrift' THEN "drifted" ELSE "stored"
    PROVE  Table!Answer(h, how)
<1>1. ASSUME NEW g \in Handlers \ {h} PROVE outcomeOf'[g] = outcomeOf[g]
  BY <1>1 DEF outcomeOf, Over
<1>2. outcomeOf[h] = "open" /\ outcomeOf'[h] = how
  BY DEF outcomeOf, Over
<1>3. /\ outcomeOf = [g \in Handlers |-> outcomeOf[g]]
      /\ outcomeOf' = [g \in Handlers |-> outcomeOf'[g]]
  BY DEF outcomeOf
<1>4. outcomeOf' = [outcomeOf EXCEPT ![h] = how]
  BY <1>1, <1>2, <1>3
<1> QED
  BY <1>2, <1>4, Requested DEF Table!Answer

LEMMA Disjoint == SelectRoutes \cap ExecRoutes = {} /\ "table" \notin SelectRoutes
  BY DEF SelectRoutes, ExecRoutes

TableStep == Table!RTNext \/ UNCHANGED <<users, req, outcomeOf>>

LEMMA WorkImplements ==
    ASSUME RequestInv, NEW h \in Handlers, Work(h)
    PROVE  TableStep
<1>0. PoolInv /\ Drafted /\ Drifting
  BY DEF RequestInv
<1>1. /\ pc[h] \in Stages \ {"idle", "done", "lost"} /\ req' = req /\ ~Over(h)
      /\ \A g \in Handlers \ {h} : pc'[g] = pc[g] /\ answer'[g] = answer[g]
      /\ adrift' \in {adrift, adrift \cup {h}}
  BY <1>0, WorkMoves DEF Over
<1>2. pc \in [Handlers -> Stages] /\ DOMAIN answer = Handlers
  BY <1>0 DEF PoolInv, LabTypes
<1>3. ASSUME users' = users, pc'[h] # "done" \/ req[h].route \in SelectRoutes
      PROVE  TableStep
  BY <1>0, <1>1, <1>3, OutcomesStay DEF TableStep
<1>4. ASSUME users' = users, pc'[h] = "done", answer'[h].status # 200
      PROVE  TableStep
  <2>1. CASE req[h].route \in SelectRoutes
    BY <1>3, <1>4, <2>1
  <2>2. CASE req[h].route \notin SelectRoutes
    <3>1. Table!Answer(h, "refused")
      BY <1>0, <1>1, <1>4, <2>2, Answers
    <3> QED
      BY <3>1, <1>4 DEF Table!Refuse, Table!RTNext, TableStep
  <2> QED
    BY <2>1, <2>2
<1>5. \A a : Done(h, a) => pc'[h] = "done" /\ answer'[h] = a
  BY <1>2 DEF Done, Goto
<1>6. Status(200).status = 200 /\ Status(400).status = 400 /\ Status(500).status = 500
  BY DEF Status, NoAnswer
<1>7. ASSUME NEW c, Fail(h, c) PROVE TableStep
  <2>1. users' = users /\ pc'[h] = "done" /\ answer'[h].status = 500
    BY <1>7, <1>5, <1>6 DEF Fail
  <2> QED
    BY <2>1, <1>4
<1>8. CASE Refuse(h)
  <2>1. users' = users /\ pc'[h] = "done" /\ answer'[h].status = 400
    BY <1>8, <1>5, <1>6 DEF Refuse, file
  <2> QED
    BY <2>1, <1>4
<1>9. CASE Prepare(h) \/ ReadFilter(h)
  <2>1. req[h].route \in SelectRoutes /\ ((\E c : Fail(h, c)) \/ users' = users)
    BY <1>9 DEF Prepare, ReadFilter, Selects
  <2> QED
    BY <2>1, <1>3, <1>7
<1>10. CASE Query(h) \/ ReadTimesOut(h)
  <2>1. req[h].route \in SelectRoutes
    BY <1>0, <1>10 DEF Query, ReadTimesOut, Selects, AtQuery, PoolInv, Routed
  <2>2. (\E c : Fail(h, c)) \/ users' = users
    BY <1>10 DEF Query, ReadTimesOut
  <2> QED
    BY <2>1, <2>2, <1>3, <1>7
<1>11. CASE WriteUsers(h)
  <2>1. req[h].route \in SelectRoutes /\ users' = users
    BY <1>0, <1>11 DEF WriteUsers, PoolInv, Routed
  <2> QED
    BY <2>1, <1>3
<1>12. CASE Exec(h)
  <2>1. pc[h] = "begin" /\ req[h].route \in ExecRoutes
    BY <1>12 DEF Exec, Executes
  <2>2. PICK c \in Available : \/ Fail(h, c)
                               \/ /\ Free(c) /\ Done(h, Status(200))
                                  /\ users' = IF writer = c THEN users
                                              ELSE Change(h, req[h], View(c))
                                  /\ adrift' = IF writer = c THEN adrift \cup {h} ELSE adrift
    BY <1>12 DEF Exec
  <2>3. CASE Fail(h, c)
    BY <2>3, <1>7
  <2>4. CASE ~Fail(h, c)
    <3>1. c # NoConn
      BY <1>0, <2>1, AvailableIsUsable, PoolAssumption DEF PoolInv, Holders, HoldingStages, Usable
    <3>2. pc'[h] = "done" /\ answer'[h].status = 200 /\ req[h].route \notin SelectRoutes
      BY <2>1, <2>2, <2>4, <1>5, <1>6, Disjoint
    <3>3. CASE writer = c
      <4>1. Table!Answer(h, "drifted")
        BY <1>0, <1>1, <2>2, <2>4, <3>2, <3>3, Answers
      <4>2. users' = users
        BY <2>2, <2>4, <3>3
      <4> QED
        BY <4>1, <4>2 DEF Table!Drift, Table!RTNext, TableStep
    <3>4. CASE writer # c
      <4>1. users' = Change(h, req[h], users) /\ adrift' = adrift
        BY <2>2, <2>4, <3>1, <3>4 DEF Free, View
      <4>2. h \notin adrift'
        BY <1>0, <2>1, <4>1 DEF Drifting
      <4>3. Table!Answer(h, "stored")
        BY <1>0, <1>1, <3>2, <4>2, Answers
      <4> QED
        BY <4>1, <4>3 DEF Table!Store, Table!RTNext, TableStep
    <3> QED
      BY <3>3, <3>4
  <2> QED
    BY <2>3, <2>4
<1>13. CASE ExecTimesOut(h)
  BY <1>13, <1>7 DEF ExecTimesOut
<1>14. CASE Begin(h)
  <2>1. (\E c : Fail(h, c)) \/ (users' = users /\ pc'[h] = "tx")
    BY <1>2, <1>14 DEF Begin, Goto
  <2> QED
    BY <2>1, <1>3, <1>7
<1>15. CASE TxExec(h)
  <2>1. Fail(h, conn[h]) \/ (users' = users /\ pc'[h] = "wrote")
    BY <1>2, <1>15 DEF TxExec, Goto
  <2> QED
    BY <2>1, <1>3, <1>7
<1>16. CASE Commit(h)
  <2>1. pc[h] = "wrote" /\ users' = draft /\ adrift' = adrift /\ Done(h, Status(200))
    BY <1>16 DEF Commit, work
  <2>2. users' = Change(h, req[h], users)
    BY <1>0, <2>1 DEF Drafted
  <2>3. req[h].route \notin SelectRoutes /\ h \notin adrift'
    BY <1>0, <2>1, Disjoint DEF PoolInv, Routed, Drifting
  <2>4. Table!Answer(h, "stored")
    BY <1>0, <1>1, <1>5, <1>6, <2>1, <2>3, Answers
  <2> QED
    BY <2>2, <2>4 DEF Table!Store, Table!RTNext, TableStep
<1>17. CASE CommitFails(h)
  BY <1>17, <1>7 DEF CommitFails
<1> QED
  BY <1>8, <1>9, <1>10, <1>11, <1>12, <1>13, <1>14, <1>15, <1>16, <1>17 DEF Work

LEMMA Implements == RequestInv /\ [Next]_vars => TableStep
<1> SUFFICES ASSUME RequestInv, [Next]_vars PROVE TableStep
  OBVIOUS
<1>0. PoolInv /\ pc \in [Handlers -> Stages] /\ DOMAIN req = Handlers
  BY DEF RequestInv, PoolInv, LabTypes
<1>1. ASSUME NEW h \in Handlers, Receive(h) PROVE TableStep
  <2>1. PICK q \in Asks[h] : req' = [req EXCEPT ![h] = q]
    BY <1>1 DEF Receive
  <2>2. pc[h] = "idle" /\ req[h] = NoRequest
    BY <1>0, <1>1 DEF Receive, PoolInv, LabTypes
  <2>3. \A g \in Handlers : outcomeOf'[g] = outcomeOf[g]
    <3>1. UNCHANGED <<answer, adrift>> /\ pc' = [pc EXCEPT ![h] = "begin"]
      BY <1>1 DEF Receive, Goto
    <3>2. ASSUME NEW g \in Handlers \ {h} PROVE outcomeOf'[g] = outcomeOf[g]
      <4>1. pc'[g] = pc[g] /\ req'[g] = req[g] /\ answer'[g] = answer[g]
        BY <1>0, <2>1, <3>1, <3>2
      <4> QED
        BY <3>1, <4>1 DEF outcomeOf, Over
    <3>3. outcomeOf[h] = "open" /\ outcomeOf'[h] = "open"
      BY <1>0, <2>2, <3>1 DEF outcomeOf, Over
    <3> QED
      BY <3>2, <3>3
  <2>4. outcomeOf' = outcomeOf
    <3>1. /\ outcomeOf = [g \in Handlers |-> outcomeOf[g]]
          /\ outcomeOf' = [g \in Handlers |-> outcomeOf'[g]]
      BY DEF outcomeOf
    <3> QED
      BY <2>3, <3>1
  <2>5. users' = users
    BY <1>1 DEF Receive, file
  <2>6. Table!Ask(h)
    BY <2>1, <2>2, <2>4, <2>5 DEF Table!Ask
  <2> QED
    BY <2>6 DEF Table!RTNext, TableStep
<1>2. ASSUME NEW h \in Handlers, Work(h) PROVE TableStep
  BY <1>2, WorkImplements
<1>3. ASSUME UNCHANGED <<pc, req, answer, adrift>> PROVE outcomeOf' = outcomeOf /\ req' = req
  BY <1>3 DEF outcomeOf, Over
<1>4. ASSUME NEW p \in Procs, DeleteRows(p) \/ InsertSeeds(p) PROVE TableStep
  <2>1. /\ users' \in {Empty, Seeded(users)} /\ UNCHANGED <<pc, req, answer, adrift>>
    BY <1>4 DEF DeleteRows, InsertSeeds, work
  <2>2. Table!Start
    BY <1>3, <2>1 DEF Table!Start
  <2> QED
    BY <2>2 DEF Table!RTNext, TableStep
<1>5. ASSUME NEW p \in Procs, Start(p) \/ InitFails(p) \/ Listen(p) PROVE TableStep
  <2>1. UNCHANGED <<users, pc, req, answer, adrift>>
    BY <1>5 DEF Start, InitFails, Listen, file, work
  <2> QED
    BY <1>3, <2>1 DEF TableStep
<1>6. ASSUME NEW p \in Procs, Crash(p) PROVE TableStep
  <2>1. UNCHANGED <<users, req, answer, adrift>>
    BY <1>6 DEF Crash
  <2>2. CASE at[p] # "serve"
    BY <1>3, <1>6, <2>1, <2>2 DEF Crash, TableStep
  <2>3. CASE at[p] = "serve"
    <3>1. pc' = [h \in Handlers |-> IF h \in Active THEN "lost" ELSE pc[h]]
      BY <1>6, <2>3 DEF Crash
    <3>2. \A h \in Handlers : Over(h)' <=> Over(h)
      BY <3>1 DEF Active, Over
    <3>3. outcomeOf' = outcomeOf
      BY <2>1, <3>2 DEF outcomeOf
    <3> QED
      BY <2>1, <3>3 DEF TableStep
  <2> QED
    BY <2>2, <2>3
<1>7. CASE UNCHANGED vars
  <2>1. UNCHANGED <<users, pc, req, answer, adrift>>
    BY <1>7 DEF vars, file, work
  <2> QED
    BY <1>3, <2>1 DEF TableStep
<1>8. CASE Next
  BY <1>8, <1>1, <1>2, <1>4, <1>5, <1>6 DEF Next
<1> QED
  BY <1>7, <1>8

LEMMA RequestAlways == Spec => []RequestInv
  BY RequestInit, RequestStep, PTL DEF Spec

(* Every run of the lab is a run of RequestTable: a request changes the    *)
(* committed table once, by its whole effect, in the step that answers it, *)
(* and one answered with an error leaves no trace, whatever interleaves,   *)
(* fails or crashes.                                                       *)
THEOREM RequestsAtomicCorrect == Spec => RequestsAtomic
<1>1. Init => Table!RTInit
  BY DEF Init, Table!RTInit, outcomeOf, Over
<1>2. RequestInv /\ [Next]_vars => [Table!RTNext]_<<users, req, outcomeOf>>
  BY Implements DEF TableStep
<1> QED
  BY <1>1, <1>2, RequestAlways, PTL DEF Spec, RequestsAtomic, Table!RTSpec
-------------------------------------------------------------------------------
(* Seeds: who has been alone with the table since it deleted the rows      *)
(* knows what is in it.                                                    *)
SeedInv ==
    /\ at \in [Procs -> Places] /\ alone \in [Procs -> BOOLEAN]
    /\ \A p \in Procs : at[p] = "insert" /\ alone[p] => users = Empty
    /\ \A p \in Procs : at[p] = "listen" /\ alone[p] => users = Seeded(Empty)

LEMMA WorkTouches ==
    ASSUME NEW h \in Handlers, Work(h)
    PROVE  /\ at' = at
           /\ \/ users' = users /\ alone' = alone
              \/ alone' = [p \in Procs |-> FALSE]
<1>1. \A c : Fail(h, c) => users' = users /\ alone' = alone
  BY DEF Fail
<1>2. CASE Refuse(h) \/ WriteUsers(h)
  BY <1>2 DEF Refuse, WriteUsers, file
<1>3. CASE Prepare(h) \/ ReadFilter(h)
  BY <1>1, <1>3 DEF Prepare, ReadFilter
<1>4. CASE Query(h) \/ ReadTimesOut(h)
  BY <1>1, <1>4 DEF Query, ReadTimesOut
<1>5. CASE Exec(h) \/ ExecTimesOut(h)
  BY <1>1, <1>5 DEF Exec, ExecTimesOut
<1>6. CASE Begin(h) \/ TxExec(h)
  BY <1>1, <1>6 DEF Begin, TxExec
<1>7. CASE Commit(h) \/ CommitFails(h)
  BY <1>1, <1>7 DEF Commit, CommitFails
<1> QED
  BY <1>2, <1>3, <1>4, <1>5, <1>6, <1>7 DEF Work

LEMMA SeedInit == Init => SeedInv
<1> SUFFICES ASSUME Init PROVE SeedInv
  OBVIOUS
<1>1. at = [p \in Procs |-> "new"] /\ alone = [p \in Procs |-> FALSE]
  BY DEF Init
<1> QED
  BY <1>1 DEF SeedInv, Places

LEMMA SeedStep == SeedInv /\ [Next]_vars => SeedInv'
<1> SUFFICES ASSUME SeedInv, [Next]_vars PROVE SeedInv'
  OBVIOUS
<1> USE DEF SeedInv
<1>1. ASSUME at' = at, alone' = [p \in Procs |-> FALSE] PROVE SeedInv'
  BY <1>1
<1>2. ASSUME UNCHANGED <<at, users, alone>> PROVE SeedInv'
  BY <1>2
<1>3. ASSUME NEW p \in Procs, NEW to \in Places \ {"insert", "listen"},
             at' = [at EXCEPT ![p] = to], UNCHANGED <<users, alone>>
      PROVE  SeedInv'
  BY <1>3
<1>4. ASSUME NEW h \in Handlers, Receive(h) PROVE SeedInv'
  BY <1>2, <1>4 DEF Receive, file
<1>5. ASSUME NEW h \in Handlers, Work(h) PROVE SeedInv'
  BY <1>1, <1>2, <1>5, WorkTouches
<1>6. ASSUME NEW p \in Procs, Start(p) \/ InitFails(p) \/ Listen(p) \/ Crash(p) PROVE SeedInv'
  <2>1. /\ UNCHANGED <<users, alone>>
        /\ \E to \in Places \ {"insert", "listen"} : at' = [at EXCEPT ![p] = to]
    BY <1>6 DEF Start, InitFails, Listen, Crash, Move, file, Places
  <2> QED
    BY <1>3, <2>1
<1>7. ASSUME NEW p \in Procs, DeleteRows(p) PROVE SeedInv'
  BY <1>7 DEF DeleteRows, Move, Places
<1>8. ASSUME NEW p \in Procs, InsertSeeds(p) PROVE SeedInv'
  BY <1>8 DEF InsertSeeds, Move, Places
<1>9. CASE UNCHANGED vars
  BY <1>2, <1>9 DEF vars, file
<1> QED
  BY <1>4, <1>5, <1>6, <1>7, <1>8, <1>9 DEF Next

(* Whatever an earlier run has left in the file and wherever it crashed, a *)
(* process that nobody disturbs listens on a table of the three seeds.     *)
THEOREM SeedsWholeCorrect == Spec => []SeedsWhole
<1>1. SeedInv => SeedsWhole
  BY DEF SeedInv, SeedsWhole
<1> QED
  BY <1>1, SeedInit, SeedStep, PTL DEF Spec
-------------------------------------------------------------------------------
(* Tables, and the rows of statements.                                     *)

(* In a finite set with a strict total order R, for every n some element   *)
(* has n - 1 before it.                                                    *)
StrictOrder(R, S) ==
    /\ \A i \in S : <<i, i>> \notin R
    /\ \A i, j \in S : i # j => <<i, j>> \in R \/ <<j, i>> \in R
    /\ \A i, j, k \in S : <<i, j>> \in R /\ <<j, k>> \in R => <<i, k>> \in R

Below(R, S, i) == {j \in S : <<j, i>> \in R}

LEMMA RankExists ==
    ASSUME NEW S, IsFiniteSet(S), NEW R, StrictOrder(R, S), NEW n \in 1 .. Cardinality(S)
    PROVE  \E i \in S : Cardinality(Below(R, S, i)) = n - 1
<1> DEFINE below(i) == Below(R, S, i)
           rank == [i \in S |-> Cardinality(below(i))]
           places == 0 .. Cardinality(S) - 1
<1>1. Cardinality(S) \in Nat
  BY FS_CardinalityType
<1>2. \A i \in S : IsFiniteSet(below(i)) /\ Cardinality(below(i)) \in Nat
  BY FS_Subset, FS_CardinalityType DEF Below
<1>3. ASSUME NEW i \in S PROVE rank[i] \in places
  <2>1. below(i) \subseteq S \ {i}
    BY DEF StrictOrder, Below
  <2>2. IsFiniteSet(S \ {i}) /\ Cardinality(S \ {i}) = Cardinality(S) - 1
    BY FS_RemoveElement
  <2>3. Cardinality(below(i)) <= Cardinality(S) - 1
    BY <2>1, <2>2, FS_Subset
  <2> QED
    BY <1>1, <1>2, <2>3
<1>4. ASSUME NEW i \in S, NEW k \in S, <<i, k>> \in R PROVE rank[i] # rank[k]
  <2>1. below(i) \subseteq below(k) /\ i \in below(k) /\ i \notin below(i)
    BY <1>4 DEF StrictOrder, Below
  <2>2. Cardinality(below(i)) # Cardinality(below(k))
    BY <1>2, <2>1, FS_Subset
  <2> QED
    BY <2>2
<1>5. rank \in Injection(S, places)
  <2>1. rank \in [S -> places]
    BY <1>3
  <2>2. \A i, k \in S : rank[i] = rank[k] => i = k
    BY <1>4 DEF StrictOrder
  <2> HIDE DEF rank, places
  <2> QED
    BY <2>1, <2>2 DEF Injection, IsInjective
<1>6. IsFiniteSet(places) /\ Cardinality(places) = Cardinality(S)
  <2>1. 0 \in Int /\ Cardinality(S) - 1 \in Int
    BY <1>1
  <2>2. /\ IsFiniteSet(places)
        /\ Cardinality(places) = IF 0 > Cardinality(S) - 1 THEN 0 ELSE (Cardinality(S) - 1) - 0 + 1
    BY <2>1, FS_Interval
  <2> QED
    BY <1>1, <2>2
<1>7. rank \in Surjection(S, places)
  <2> HIDE DEF rank, places
  <2> QED
    BY <1>5, <1>6, FS_Injection
<1>8. n - 1 \in places
  BY <1>1
<1>9. \E i \in S : rank[i] = n - 1
  <2> HIDE DEF rank, places
  <2> QED
    BY <1>7, <1>8 DEF Surjection
<1> QED
  BY <1>9

Smaller(S) == {p \in S \X S : p[1] < p[2]}

LEMMA SmallerOrders == ASSUME NEW S \in SUBSET Int PROVE StrictOrder(Smaller(S), S)
  BY DEF StrictOrder, Smaller

LEMMA Extremes ==
    ASSUME NEW S \in SUBSET Int, IsFiniteSet(S), S # {}
    PROVE  /\ \E m \in S : \A i \in S : i <= m
           /\ \E m \in S : \A i \in S : m <= i
<1> DEFINE below(i) == Below(Smaller(S), S, i)
<1>1. 1 \in 1 .. Cardinality(S) /\ Cardinality(S) \in 1 .. Cardinality(S)
  BY FS_CardinalityType, FS_EmptySet
<1>2. \A i \in S : below(i) = {j \in S : j < i}
  BY DEF Smaller, Below
<1> HIDE DEF below
<1>0. \A n \in 1 .. Cardinality(S) : \E i \in S : Cardinality(below(i)) = n - 1
  BY SmallerOrders, RankExists DEF below
<1>3. PICK top \in S : Cardinality(below(top)) = Cardinality(S) - 1
  BY <1>0, <1>1
<1>4. \A i \in S : i <= top
  <2>1. IsFiniteSet(S \ {top}) /\ Cardinality(S \ {top}) = Cardinality(S) - 1
    BY FS_RemoveElement
  <2>2. below(top) \subseteq S \ {top}
    BY <1>2
  <2>3. below(top) = S \ {top}
    BY <1>3, <2>1, <2>2, FS_Subset
  <2> QED
    <3>1. ASSUME NEW i \in S PROVE i <= top
      BY <1>2, <2>3
    <3> QED
      BY <3>1
<1>5. PICK low \in S : Cardinality(below(low)) = 1 - 1
  BY <1>0, <1>1
<1>6. \A i \in S : low <= i
  <2>1. IsFiniteSet(below(low))
    BY FS_Subset DEF Below, below
  <2>2. below(low) = {}
    BY <1>5, <2>1, FS_EmptySet
  <2> QED
    <3>1. ASSUME NEW i \in S PROVE low <= i
      BY <1>2, <2>2
    <3> QED
      BY <3>1
<1> QED
  BY <1>4, <1>6

(* The table *)
IsTable(t) ==
    /\ t \in [DOMAIN t -> Row]
    /\ DOMAIN t \subseteq Nat /\ IsFiniteSet(DOMAIN t)

RowsOf(t) == {t[i] : i \in DOMAIN t}

(* The rows of a statement are rows of the table. *)
LEMMA ByIdRows ==
    ASSUME NEW t, IsTable(t), NEW S \in SUBSET DOMAIN t
    PROVE  ById(t, S) \in Seq(RowsOf(t))
<1>1. IsFiniteSet(S) /\ Cardinality(S) \in Nat /\ S \subseteq Int
  BY FS_Subset, FS_CardinalityType DEF IsTable
<1>2. ASSUME NEW n \in 1 .. Cardinality(S)
      PROVE  \E i \in S : Cardinality({j \in S : j < i}) = n - 1
  <2>1. PICK i \in S : Cardinality(Below(Smaller(S), S, i)) = n - 1
    BY <1>1, SmallerOrders, RankExists
  <2>2. Below(Smaller(S), S, i) = {j \in S : j < i}
    BY DEF Smaller, Below
  <2> QED
    BY <2>1, <2>2
<1>3. ASSUME NEW n \in 1 .. Cardinality(S)
      PROVE  t[CHOOSE i \in S : Cardinality({j \in S : j < i}) = n - 1] \in RowsOf(t)
  <2> DEFINE i == CHOOSE i \in S : Cardinality({j \in S : j < i}) = n - 1
  <2>1. i \in S
    BY <1>2
  <2> HIDE DEF i
  <2>2. t[i] \in RowsOf(t)
    BY <2>1 DEF RowsOf
  <2> QED
    BY <2>2 DEF i
<1>4. ById(t, S) = [n \in 1 .. Cardinality(S) |->
                        t[CHOOSE i \in S : Cardinality({j \in S : j < i}) = n - 1]]
  BY DEF ById, InOrder
<1>5. ById(t, S) \in [1 .. Cardinality(S) -> RowsOf(t)]
  BY <1>3, <1>4
<1> QED
  BY <1>1, <1>5, SeqDef

(* ... in the order of a sort, too. *)
LEMMA OrderRows ==
    ASSUME NEW t, IsTable(t), NEW q, Order(q, t).kind = "rows"
    PROVE  Order(q, t).rows \in Seq(RowsOf(t))
<1> DEFINE by == IF ~q.safe /\ q.arg \in DOMAIN NumberOf /\ NumberOf[q.arg] \in 1 .. 3
                 THEN <<"id", "name", "role">>[NumberOf[q.arg]] ELSE q.arg
           S == DOMAIN t
           Key(i) == IF by = "id" THEN i ELSE Rank[t[i][by]]
           Before(i, j) == Key(i) < Key(j) \/ (Key(i) = Key(j) /\ i < j)
           R == {p \in S \X S : Before(p[1], p[2])}
<1> HIDE DEF by
<1>1. IsFiniteSet(S) /\ Cardinality(S) \in Nat /\ S \subseteq Int
  BY FS_CardinalityType DEF IsTable
<1>2. by \in Columns /\ Order(q, t) = Found([n \in 1 .. Cardinality(S) |->
            t[CHOOSE i \in S : Cardinality({j \in S : Before(j, i)}) = n - 1]])
  BY DEF Order, InOrder, by, SqlError
<1>3. ASSUME NEW i \in S PROVE Key(i) \in Int
  <2>1. CASE by = "id"
    BY <1>1, <2>1
  <2>2. CASE by # "id"
    <3>1. t[i] \in Row /\ by \in {"name", "role", "email"}
      BY <1>2, <2>2 DEF IsTable, Columns
    <3>2. t[i][by] \in Texts \cup {Null}
      BY <3>1 DEF Row
    <3> QED
      BY <2>2, <3>2, SqlAssumption
  <2> QED
    BY <2>1, <2>2
<1>4. StrictOrder(R, S)
  <2> HIDE DEF Key
  <2> QED
    BY <1>1, <1>3 DEF StrictOrder
<1>5. ASSUME NEW n \in 1 .. Cardinality(S)
      PROVE  \E i \in S : Cardinality({j \in S : Before(j, i)}) = n - 1
  <2>1. PICK i \in S : Cardinality(Below(R, S, i)) = n - 1
    <3> HIDE DEF R
    <3> QED
      BY <1>1, <1>4, RankExists
  <2>2. Below(R, S, i) = {j \in S : Before(j, i)}
    <3> HIDE DEF Before
    <3> QED
      BY DEF Below
  <2> QED
    BY <2>1, <2>2
<1>6. ASSUME NEW n \in 1 .. Cardinality(S)
      PROVE  t[CHOOSE i \in S : Cardinality({j \in S : Before(j, i)}) = n - 1] \in RowsOf(t)
  <2> HIDE DEF Before
  <2> DEFINE i == CHOOSE i \in S : Cardinality({j \in S : Before(j, i)}) = n - 1
  <2>1. i \in S
    BY <1>5
  <2> HIDE DEF i
  <2>2. t[i] \in RowsOf(t)
    BY <2>1 DEF RowsOf
  <2> QED
    BY <2>2 DEF i
<1> DEFINE rows == [n \in 1 .. Cardinality(S) |->
            t[CHOOSE i \in S : Cardinality({j \in S : Before(j, i)}) = n - 1]]
<1>7. rows \in [1 .. Cardinality(S) -> RowsOf(t)]
  <2> HIDE DEF Before
  <2> QED
    BY <1>6
<1>8. Order(q, t).rows = rows
  BY <1>2 DEF Found
<1> HIDE DEF rows
<1> QED
  BY <1>1, <1>7, <1>8, SeqDef

Within(found, t) == found.kind = "error" \/ found.rows \in Seq(RowsOf(t))

LEMMA SelectRows ==
    ASSUME NEW t, IsTable(t), NEW q, q.route \in SelectRoutes, NEW f
    PROVE  Within(Select(q, f, t), t)
<1>1. SqlError.kind = "error" /\ \A rows : Found(rows).kind = "rows" /\ Found(rows).rows = rows
  BY DEF SqlError, Found
<1>2. \A S \in SUBSET DOMAIN t : Within(Found(ById(t, S)), t)
  BY <1>1, ByIdRows DEF Within
<1>3. Within(SqlError, t)
  BY <1>1 DEF Within
<1>4. Within(ByName(q, t), t)
  BY <1>2, <1>3 DEF ByName
<1>5. Within(In(q, t), t)
  BY <1>2, <1>3 DEF In
<1>6. Within(Like(q, t), t)
  BY <1>2, <1>3 DEF Like
<1>7. Within(Order(q, t), t)
  <2>1. Order(q, t).kind \in {"rows", "error"}
    BY <1>1 DEF Order
  <2> QED
    BY <2>1, OrderRows DEF Within
<1>8. Within(Limit(q, t), t)
  <2> DEFINE all == ById(t, DOMAIN t)
             n == NumberOf[q.arg]
  <2>1. all \in Seq(RowsOf(t))
    BY ByIdRows
  <2>2. CASE q.arg \notin DOMAIN NumberOf
    BY <2>2, <1>3 DEF Limit
  <2>3. CASE q.arg \in DOMAIN NumberOf
    <3>1. n \in Int /\ Len(all) \in Nat
      BY <2>1, <2>3, SqlAssumption
    <3>2. Limit(q, t) = Found(IF n < 0 \/ n > Len(all) THEN all ELSE SubSeq(all, 1, n))
      BY <2>3 DEF Limit
    <3> HIDE DEF all, n
    <3>3. ~(n < 0 \/ n > Len(all)) => SubSeq(all, 1, n) \in Seq(RowsOf(t))
      BY <2>1, <3>1
    <3>4. (IF n < 0 \/ n > Len(all) THEN all ELSE SubSeq(all, 1, n)) \in Seq(RowsOf(t))
      BY <2>1, <3>3
    <3> QED
      BY <1>1, <3>2, <3>4 DEF Within
  <2> QED
    BY <2>2, <2>3
<1>9. Within(Where(q, t), t)
  BY <1>2, <1>3 DEF Where
<1>10. Within(Placeholders(q, t), t)
  BY <1>2, <1>4 DEF Placeholders
<1>11. Within(Filtered(f, t), t)
  BY <1>2, <1>3 DEF Filtered
<1> QED
  BY <1>4, <1>5, <1>6, <1>7, <1>8, <1>9, <1>10, <1>11 DEF Select, SelectRoutes, Built, Prepared

(* A new identifier is a number, and none of the table's. *)
LEMMA NextIdFresh ==
    ASSUME NEW t, IsTable(t)
    PROVE  NextId(t) \in Nat /\ NextId(t) \notin DOMAIN t
<1>1. CASE DOMAIN t = {}
  BY <1>1 DEF NextId
<1>2. CASE DOMAIN t # {}
  <2> DEFINE m == CHOOSE m \in DOMAIN t : \A i \in DOMAIN t : i <= m
  <2>1. DOMAIN t \in SUBSET Int /\ DOMAIN t \subseteq Nat /\ IsFiniteSet(DOMAIN t)
    BY DEF IsTable
  <2>2. m \in DOMAIN t /\ \A i \in DOMAIN t : i <= m
    <3>1. \E n \in DOMAIN t : \A i \in DOMAIN t : i <= n
      BY <1>2, <2>1, Extremes
    <3> QED
      BY <3>1
  <2>3. NextId(t) = 1 + m
    BY <1>2 DEF NextId
  <2> HIDE DEF m
  <2> QED
    BY <2>1, <2>2, <2>3
<1> QED
  BY <1>1, <1>2

(* An inserted row comes on top of the rows there are. *)
LEMMA InsertTable ==
    ASSUME NEW t, IsTable(t), NEW row \in Row
    PROVE  /\ IsTable(Insert(t, row))
           /\ RowsOf(Insert(t, row)) = RowsOf(t) \cup {row}
<1> DEFINE u == Insert(t, row)
<1>1. NextId(t) \in Nat /\ NextId(t) \notin DOMAIN t
  BY NextIdFresh
<1>2. u = [i \in DOMAIN t \cup {NextId(t)} |-> IF i \in DOMAIN t THEN t[i] ELSE row]
  BY DEF Insert
<1>3. DOMAIN u = DOMAIN t \cup {NextId(t)} /\ IsFiniteSet(DOMAIN u)
  BY <1>2, FS_AddElement DEF IsTable
<1>4. /\ \A i \in DOMAIN t : u[i] = t[i] /\ i \in DOMAIN u
      /\ u[NextId(t)] = row /\ NextId(t) \in DOMAIN u
      /\ u = [i \in DOMAIN u |-> u[i]]
  BY <1>1, <1>2
<1> HIDE DEF u
<1>5. IsTable(u)
  BY <1>1, <1>3, <1>4 DEF IsTable
<1>6. RowsOf(u) = RowsOf(t) \cup {row}
  BY <1>3, <1>4 DEF RowsOf
<1> QED
  BY <1>5, <1>6 DEF u

LEMMA RowForms ==
    ASSUME NEW h \in Handlers, NEW q \in Request
    PROVE  /\ NewUser(h, q) \in Row /\ NewUser(h, q).by = h
           /\ NewAddress(h, q) \in Row /\ NewAddress(h, q).by = h
           /\ NewFilter(h, q) \in Row /\ NewFilter(h, q).by = h
<1>1. q.name \in Texts /\ q.role \in Texts /\ q.email \in Texts /\ q.arg \in Texts
  BY DEF Request
<1>2. {"_filter", "meta"} \subseteq Texts
  BY SqlAssumption
<1> QED
  BY <1>1, <1>2 DEF NewUser, NewAddress, NewFilter, Marker, Row

(* A change of the table leaves a table, with no row that was not there    *)
(* before or is not by the one who changes it.                             *)
LEMMA ChangeTable ==
    ASSUME NEW t, IsTable(t), NEW h \in Handlers, NEW q \in Request, q.route \in ExecRoutes
    PROVE  /\ IsTable(Change(h, q, t))
           /\ \A r \in RowsOf(Change(h, q, t)) : r.by = h \/ \E o \in RowsOf(t) : r.by = o.by
<1> DEFINE Fine(u) == /\ IsTable(u)
                      /\ \A r \in RowsOf(u) : r.by = h \/ \E o \in RowsOf(t) : r.by = o.by
<1>1. ASSUME NEW row \in Row, row.by = h PROVE Fine(Insert(t, row))
  BY <1>1, InsertTable
<1>2. Fine(Update(q, t))
  <2> DEFINE u == Update(q, t)
  <2>1. /\ DOMAIN u = DOMAIN t /\ u = [i \in DOMAIN t |-> u[i]]
        /\ \A i \in DOMAIN t : u[i] = IF Is(q.id, i) THEN [t[i] EXCEPT !.role = q.role] ELSE t[i]
    BY DEF Update
  <2>2. q.role \in Texts
    BY DEF Request
  <2>3. \A r \in Row : [r EXCEPT !.role = q.role] \in Row /\ [r EXCEPT !.role = q.role].by = r.by
    BY <2>2 DEF Row
  <2>4. \A i \in DOMAIN t : t[i] \in Row
    BY DEF IsTable
  <2> HIDE DEF u
  <2>5. \A i \in DOMAIN t : u[i] \in Row /\ u[i].by = t[i].by
    BY <2>1, <2>3, <2>4
  <2>6. IsTable(u)
    BY <2>1, <2>5 DEF IsTable
  <2>7. \A r \in RowsOf(u) : \E o \in RowsOf(t) : r.by = o.by
    BY <2>1, <2>5 DEF RowsOf
  <2> QED
    BY <2>6, <2>7 DEF u
<1>3. Fine(Delete(q, t))
  <2> DEFINE u == Delete(q, t)
  <2>1. /\ DOMAIN u \subseteq DOMAIN t /\ u = [i \in DOMAIN u |-> u[i]]
        /\ \A i \in DOMAIN u : u[i] = t[i]
    BY DEF Delete
  <2> HIDE DEF u
  <2>2. IsFiniteSet(DOMAIN u)
    BY <2>1, FS_Subset DEF IsTable
  <2>3. IsTable(u)
    BY <2>1, <2>2 DEF IsTable
  <2>4. RowsOf(u) \subseteq RowsOf(t)
    BY <2>1 DEF RowsOf
  <2> QED
    BY <2>3, <2>4 DEF u
<1> HIDE DEF Fine
<1>4. Fine(Change(h, q, t))
  BY <1>1, <1>2, <1>3, RowForms DEF Change, ExecRoutes
<1> QED
  BY <1>4 DEF Fine

LEMMA EmptyTable == IsTable(Empty) /\ RowsOf(Empty) = {}
<1>1. DOMAIN Empty = {} /\ Empty = [i \in DOMAIN Empty |-> Empty[i]]
  BY DEF Empty
<1>2. IsFiniteSet({})
  BY FS_EmptySet
<1> QED
  BY <1>1, <1>2 DEF IsTable, RowsOf

LEMMA SeededTable ==
    ASSUME NEW t, IsTable(t)
    PROVE  /\ IsTable(Seeded(t))
           /\ \A r \in RowsOf(Seeded(t)) : r.by = "seed" \/ r \in RowsOf(t)
<1> DEFINE a == Seed("alice", "user", "alice@example.com")
           b == Seed("bob", "admin", "bob@example.com")
           c == Seed("charlie", "user", "charlie@example.com")
<1>1. /\ a \in Row /\ b \in Row /\ c \in Row
      /\ a.by = "seed" /\ b.by = "seed" /\ c.by = "seed"
  BY SqlAssumption DEF Seed, Row
<1> HIDE DEF a, b, c
<1>2. IsTable(Insert(t, a)) /\ RowsOf(Insert(t, a)) = RowsOf(t) \cup {a}
  BY <1>1, InsertTable
<1>3. /\ IsTable(Insert(Insert(t, a), b))
      /\ RowsOf(Insert(Insert(t, a), b)) = RowsOf(t) \cup {a, b}
  BY <1>1, <1>2, InsertTable
<1>4. /\ IsTable(Insert(Insert(Insert(t, a), b), c))
      /\ RowsOf(Insert(Insert(Insert(t, a), b), c)) = RowsOf(t) \cup {a, b, c}
  BY <1>1, <1>3, InsertTable
<1>5. Seeded(t) = Insert(Insert(Insert(t, a), b), c)
  BY DEF Seeded, a, b, c
<1> QED
  BY <1>1, <1>4, <1>5

(* The rows a listing writes before it meets a role that is Null. *)
LEMMA ScannableStops ==
    ASSUME NEW rows \in Seq(Row)
    PROVE  /\ Scannable(rows) \in 0 .. Len(rows)
           /\ \A m \in 1 .. Scannable(rows) : rows[m].role # Null
           /\ Scannable(rows) < Len(rows) => rows[Scannable(rows) + 1].role = Null
<1> DEFINE bad == {m \in 1 .. Len(rows) : rows[m].role = Null}
           Stops(n) == /\ \A m \in 1 .. n : rows[m].role # Null
                       /\ n < Len(rows) => rows[n + 1].role = Null
<1>1. Len(rows) \in Nat
  OBVIOUS
<1>2. \E n \in 0 .. Len(rows) : Stops(n)
  <2>1. CASE bad = {}
    BY <1>1, <2>1
  <2>2. CASE bad # {}
    <3>1. IsFiniteSet(bad)
      <4>1. IsFiniteSet(1 .. Len(rows))
        BY <1>1, FS_Interval
      <4> QED
        BY <4>1, FS_Subset
    <3>2. PICK low \in bad : \A m \in bad : low <= m
      <4>1. bad \in SUBSET Int
        BY <1>1
      <4> HIDE DEF bad
      <4> QED
        BY <2>2, <3>1, <4>1, Extremes
    <3>3. low - 1 \in 0 .. Len(rows) /\ Stops(low - 1)
      BY <1>1, <3>2
    <3> QED
      BY <3>3
  <2> QED
    BY <2>1, <2>2
<1>3. Scannable(rows) = CHOOSE n \in 0 .. Len(rows) : Stops(n)
  BY DEF Scannable
<1>4. Scannable(rows) \in 0 .. Len(rows) /\ Stops(Scannable(rows))
  <2> HIDE DEF Stops
  <2> QED
    BY <1>2, <1>3
<1> QED
  BY <1>4
-------------------------------------------------------------------------------
(* Listings.                                                               *)

(* What a listing tells of the rows of its statement. *)
Tells(a, rows) ==
    /\ Len(a.rows) \in Nat /\ DOMAIN a.rows = 1 .. Len(a.rows)
    /\ Len(a.rows) <= Len(rows) /\ (a.error => Len(a.rows) < Len(rows))
    /\ \A m \in DOMAIN a.rows : a.rows[m] = rows[m] /\ a.rows[m].role # Null
    /\ a.error => rows[Len(a.rows) + 1].role = Null
    /\ a.status = 200 /\ ~a.error /\ ~a.cut => a.rows = rows

LEMMA ListingTells ==
    ASSUME NEW rows \in Seq(Row), NEW n \in 0 .. Len(rows)
    PROVE  Tells(Listing(rows, n), rows)
<1> DEFINE k == Scannable(rows)
           a == Listing(rows, n)
<1>1. /\ Len(rows) \in Nat /\ k \in 0 .. Len(rows)
      /\ \A m \in 1 .. k : rows[m].role # Null
      /\ k < Len(rows) => rows[k + 1].role = Null
  BY ScannableStops
<1>2. ASSUME NEW m \in 0 .. Len(rows)
      PROVE  /\ SubSeq(rows, 1, m) \in Seq(Row) /\ Len(SubSeq(rows, 1, m)) = m
             /\ DOMAIN SubSeq(rows, 1, m) = 1 .. m
             /\ \A i \in 1 .. m : SubSeq(rows, 1, m)[i] = rows[i]
  BY <1>1
<1>3. CASE n <= k
  <2>1. a = [status |-> 200, rows |-> SubSeq(rows, 1, n), error |-> FALSE, cut |-> n < Len(rows)]
    BY <1>3 DEF Listing
  <2> HIDE DEF a, k
  <2>2. /\ a.rows = SubSeq(rows, 1, n) /\ a.error = FALSE
        /\ ~a.cut => ~(n < Len(rows))
    BY <2>1
  <2>3. ~(n < Len(rows)) => SubSeq(rows, 1, n) = rows
    BY <1>1, SubSeqFull
  <2>4. Len(a.rows) = n /\ DOMAIN a.rows = 1 .. n /\ \A i \in 1 .. n : a.rows[i] = rows[i]
    BY <1>2, <2>2
  <2>5. Len(a.rows) \in Nat /\ Len(a.rows) <= Len(rows) /\ (a.error => Len(a.rows) < Len(rows))
    BY <1>1, <2>2, <2>4
  <2>6. \A m \in DOMAIN a.rows : a.rows[m] = rows[m] /\ a.rows[m].role # Null
    BY <1>1, <1>3, <2>4
  <2>7. DOMAIN a.rows = 1 .. Len(a.rows)
    BY <2>4
  <2>8. a.error => rows[Len(a.rows) + 1].role = Null
    BY <2>2
  <2>9. a.status = 200 /\ ~a.error /\ ~a.cut => a.rows = rows
    BY <2>2, <2>3
  <2>10. Tells(a, rows)
    BY <2>5, <2>6, <2>7, <2>8, <2>9 DEF Tells
  <2> QED
    BY <2>10 DEF a
<1>4. CASE n > k
  <2>1. a = [status |-> IF k = 0 THEN 500 ELSE 200, rows |-> SubSeq(rows, 1, k),
             error |-> TRUE, cut |-> FALSE]
    BY <1>1, <1>4 DEF Listing
  <2> HIDE DEF a, k
  <2>2. a.rows = SubSeq(rows, 1, k) /\ a.error = TRUE
    BY <2>1
  <2>3. Len(a.rows) = k /\ DOMAIN a.rows = 1 .. k /\ \A i \in 1 .. k : a.rows[i] = rows[i]
    BY <1>1, <1>2, <2>2
  <2>4. Len(a.rows) \in Nat /\ Len(a.rows) <= Len(rows) /\ (a.error => Len(a.rows) < Len(rows))
    BY <1>1, <1>4, <2>2, <2>3
  <2>5. \A m \in DOMAIN a.rows : a.rows[m] = rows[m] /\ a.rows[m].role # Null
    BY <1>1, <2>3
  <2>6. rows[Len(a.rows) + 1].role = Null
    BY <1>1, <1>4, <2>3
  <2>7. DOMAIN a.rows = 1 .. Len(a.rows)
    BY <2>3
  <2>8. a.status = 200 /\ ~a.error /\ ~a.cut => a.rows = rows
    BY <2>2
  <2>9. Tells(a, rows)
    BY <2>4, <2>5, <2>6, <2>7, <2>8 DEF Tells
  <2> QED
    BY <2>9 DEF a
<1> QED
  BY <1>1, <1>3, <1>4

Committed(g) == g = "seed" \/ (g \in Handlers /\ outcomeOf[g] = "stored")

Tables == IsTable(users) /\ IsTable(draft)
Provenance == \A r \in RowsOf(users) : Committed(r.by)
Cursors == cursor \in [Handlers -> Seq(Row)]
Sourced == \A h \in Handlers \ adrift : \A n \in 1 .. Len(cursor[h]) : Committed(cursor[h][n].by)
Told ==
    \A h \in Handlers :
        \/ /\ answer[h].rows = <<>> /\ answer[h].error = FALSE
           /\ Over(h) /\ req[h].route \in SelectRoutes => answer[h].status \in {400, 500}
        \/ Over(h) /\ \E n \in 0 .. Len(cursor[h]) : answer[h] = Listing(cursor[h], n)

ListInv == RequestInv /\ Tables /\ Provenance /\ Cursors /\ Sourced /\ Told

LEMMA ListInit == Init => ListInv
<1> SUFFICES ASSUME Init PROVE ListInv
  OBVIOUS
<1>1. RequestInv
  BY RequestInit
<1>2. /\ IsTable(Empty) /\ RowsOf(Empty) = {}
      /\ IsTable(Seeded(Empty)) /\ \A r \in RowsOf(Seeded(Empty)) : r.by = "seed"
  BY EmptyTable, SeededTable
<1>3. /\ IsTable(Seeded(Seeded(Empty)))
      /\ \A r \in RowsOf(Seeded(Seeded(Empty))) : r.by = "seed"
  BY <1>2, SeededTable
<1>4. Tables /\ Provenance
  <2>1. users \in {Empty, Seeded(Seeded(Empty))} /\ draft = Empty
    BY DEF Init
  <2> QED
    BY <1>2, <1>3, <2>1 DEF Tables, Provenance, Committed
<1>5. /\ cursor = [h \in Handlers |-> <<>>] /\ pc = [h \in Handlers |-> "idle"]
      /\ answer = [h \in Handlers |-> NoAnswer]
  BY DEF Init
<1>6. Cursors
  BY <1>5 DEF Cursors
<1>7. Sourced
  BY <1>5 DEF Sourced
<1>8. Told
  BY <1>5 DEF Told, Over, NoAnswer
<1> QED
  BY <1>1, <1>4, <1>6, <1>7, <1>8 DEF ListInv

(* What a step of h writes in a transaction, reads and answers. *)
LEMMA WorkTells ==
    ASSUME PoolInv, Cursors, NEW h \in Handlers, Work(h)
    PROVE  /\ \/ cursor' = cursor
              \/ /\ Query(h) /\ pc'[h] = "rows"
                 /\ \E c \in Available :
                        LET found == Select(req[h], filter[h], View(c))
                        IN  /\ found.kind # "error"
                            /\ cursor' = [cursor EXCEPT ![h] = found.rows]
                            /\ writer = c => h \in adrift'
           /\ \/ answer' = answer /\ pc'[h] # "done"
              \/ /\ pc'[h] = "done"
                 /\ \/ answer'[h] \in {Status(400), Status(500)}
                    \/ answer'[h] = Status(200) /\ req[h].route \notin SelectRoutes
                    \/ cursor' = cursor /\ \E n \in 0 .. Len(cursor[h]) : answer'[h] = Listing(cursor[h], n)
           /\ \/ draft' \in {draft, Empty}
              \/ /\ req[h].route \in ExecRoutes
                 /\ draft' \in {Change(h, req[h], users), Change(h, req[h], draft)}
<1> DEFINE Reads == \/ cursor' = cursor
                    \/ /\ Query(h) /\ pc'[h] = "rows"
                       /\ \E c \in Available :
                              LET found == Select(req[h], filter[h], View(c))
                              IN  /\ found.kind # "error"
                                  /\ cursor' = [cursor EXCEPT ![h] = found.rows]
                                  /\ writer = c => h \in adrift'
           Answered == \/ answer' = answer /\ pc'[h] # "done"
                       \/ /\ pc'[h] = "done"
                          /\ \/ answer'[h] \in {Status(400), Status(500)}
                             \/ answer'[h] = Status(200) /\ req[h].route \notin SelectRoutes
                             \/ /\ cursor' = cursor
                                /\ \E n \in 0 .. Len(cursor[h]) : answer'[h] = Listing(cursor[h], n)
           Drafts == \/ draft' \in {draft, Empty}
                     \/ /\ req[h].route \in ExecRoutes
                        /\ draft' \in {Change(h, req[h], users), Change(h, req[h], draft)}
<1>0. pc \in [Handlers -> Stages] /\ DOMAIN answer = Handlers
  BY DEF PoolInv, LabTypes
<1>1. \A to : Goto(h, to) => pc'[h] = to
  BY <1>0 DEF Goto
<1>2. \A a : Done(h, a) => pc'[h] = "done" /\ answer'[h] = a
  BY <1>0, <1>1 DEF Done
<1>3. \A c, d : GiveBack(c, writer, d) => draft' \in {d, Empty}
  BY DEF GiveBack
<1>4. ASSUME NEW c, Fail(h, c) PROVE Reads /\ Answered /\ Drafts
  BY <1>2, <1>3, <1>4 DEF Fail
<1>5. CASE Refuse(h)
  BY <1>2, <1>5 DEF Refuse, work, file
<1>6. CASE Prepare(h) \/ ReadFilter(h)
  <2>1. \/ \E c : Fail(h, c)
        \/ \E c : /\ Goto(h, "prepared") \/ Goto(h, "filter")
                  /\ GiveBack(c, writer, draft) /\ UNCHANGED <<answer, cursor>>
    BY <1>6 DEF Prepare, ReadFilter, work
  <2> QED
    BY <2>1, <1>1, <1>3, <1>4
<1>7. CASE Query(h)
  <2>1. PICK c \in Available :
            \/ Fail(h, c)
            \/ LET found == Select(req[h], filter[h], View(c))
               IN  /\ found.kind # "error" /\ Goto(h, "rows")
                   /\ cursor' = [cursor EXCEPT ![h] = found.rows]
                   /\ adrift' = IF writer = c THEN adrift \cup {h} ELSE adrift
                   /\ UNCHANGED <<draft, answer>>
    BY <1>7 DEF Query
  <2> QED
    BY <2>1, <1>1, <1>4, <1>7
<1>8. CASE ReadTimesOut(h) \/ ExecTimesOut(h) \/ CommitFails(h)
  <2>1. \E c : Fail(h, c)
    BY <1>8 DEF ReadTimesOut, ExecTimesOut, CommitFails
  <2> QED
    BY <2>1, <1>4
<1>9. CASE WriteUsers(h)
  <2>1. PICK n \in {Len(cursor[h])} \cup (CutAfter \cap 0 .. Len(cursor[h])) :
            Done(h, Listing(cursor[h], n))
    BY <1>9 DEF WriteUsers
  <2>2. GiveBack(conn[h], writer, draft) /\ cursor' = cursor
    BY <1>9 DEF WriteUsers, work
  <2>3. Len(cursor[h]) \in Nat
    BY DEF Cursors
  <2> QED
    BY <2>1, <2>2, <2>3, <1>2, <1>3
<1>10. CASE Exec(h)
  <2>1. req[h].route \in ExecRoutes
    BY <1>10 DEF Exec, Executes
  <2>2. PICK c \in Available :
            \/ Fail(h, c)
            \/ /\ GiveBack(c, writer, IF writer = c THEN Change(h, req[h], View(c)) ELSE draft)
               /\ Done(h, Status(200)) /\ cursor' = cursor
    BY <1>10 DEF Exec
  <2>3. CASE ~Fail(h, c)
    BY <2>1, <2>2, <2>3, <1>2, <1>3, Disjoint DEF View
  <2> QED
    BY <2>3, <1>4
<1>11. CASE Begin(h)
  <2>1. (\E c : Fail(h, c)) \/ (Goto(h, "tx") /\ UNCHANGED <<draft, answer, cursor>>)
    BY <1>11 DEF Begin, work
  <2> QED
    BY <2>1, <1>1, <1>4
<1>12. CASE TxExec(h)
  <2>1. req[h].route \in ExecRoutes
    BY <1>12 DEF TxExec, PoolInv, Routed, ExecRoutes
  <2>2. \/ Fail(h, conn[h])
        \/ /\ Goto(h, "wrote") /\ draft' = Change(h, req[h], users)
           /\ UNCHANGED <<answer, cursor>>
    BY <1>12 DEF TxExec, work
  <2> QED
    BY <2>1, <2>2, <1>1, <1>4
<1>13. CASE Commit(h)
  <2>1. req[h].route \notin SelectRoutes
    BY <1>13, Disjoint DEF Commit, PoolInv, Routed
  <2>2. Done(h, Status(200)) /\ draft' \in {Empty} /\ cursor' = cursor
    BY <1>13 DEF Commit, GiveBack, work
  <2> QED
    BY <2>1, <2>2, <1>2
<1> QED
  BY <1>5, <1>6, <1>7, <1>8, <1>9, <1>10, <1>11, <1>12, <1>13 DEF Work

(* The table has only rows of requests that are stored, as RequestTable    *)
(* has it.                                                                 *)
LEMMA TableKeepsProvenance ==
    ASSUME RequestInv, Tables, Provenance, TableStep,
           \A h \in Handlers : pc[h] # "idle" => req[h] \in Request
    PROVE  /\ IsTable(users)' /\ Provenance'
           /\ \A g : Committed(g) => Committed(g)'
<1>1. CASE UNCHANGED <<users, req, outcomeOf>>
  BY <1>1 DEF Tables, Provenance, Committed, IsTable, RowsOf
<1>2. CASE Table!Start
  <2>1. outcomeOf' = outcomeOf /\ users' \in {Empty, Seeded(users)}
    BY <1>2 DEF Table!Start
  <2>2. IsTable(users')
    BY <2>1, EmptyTable, SeededTable DEF Tables
  <2>3. \A r \in RowsOf(users') : Committed(r.by)
    BY <2>1, EmptyTable, SeededTable DEF Tables, Provenance, Committed
  <2> QED
    BY <2>1, <2>2, <2>3 DEF Provenance, Committed
<1>3. ASSUME NEW h \in Handlers, NEW how, Table!Answer(h, how)
      PROVE  \A g : Committed(g) => Committed(g)'
  <2>1. outcomeOf[h] = "open" /\ outcomeOf' = [outcomeOf EXCEPT ![h] = how]
    BY <1>3 DEF Table!Answer
  <2>2. DOMAIN outcomeOf = Handlers
    BY DEF outcomeOf
  <2>3. \A g \in Handlers : g # h => outcomeOf'[g] = outcomeOf[g]
    BY <2>1, <2>2
  <2> QED
    BY <2>1, <2>3 DEF Committed
<1>4. ASSUME NEW h \in Handlers, Table!Ask(h) \/ Table!Refuse(h) \/ Table!Drift(h)
      PROVE  /\ IsTable(users)' /\ Provenance' /\ \A g : Committed(g) => Committed(g)'
  <2>1. users' = users
    BY <1>4 DEF Table!Ask, Table!Refuse, Table!Drift
  <2>2. \A g : Committed(g) => Committed(g)'
    <3>1. CASE Table!Ask(h)
      BY <3>1 DEF Table!Ask, Committed
    <3>2. CASE Table!Refuse(h) \/ Table!Drift(h)
      BY <3>2, <1>3 DEF Table!Refuse, Table!Drift
    <3> QED
      BY <1>4, <3>1, <3>2
  <2> QED
    BY <2>1, <2>2 DEF Tables, Provenance, IsTable, RowsOf
<1>5. ASSUME NEW h \in Handlers, Table!Store(h)
      PROVE  /\ IsTable(users)' /\ Provenance' /\ \A g : Committed(g) => Committed(g)'
  <2>1. /\ Table!Answer(h, "stored") /\ users' = Change(h, req[h], users) /\ req' = req
        /\ req[h] # NoRequest
    BY <1>5 DEF Table!Store, Table!Answer
  <2>2. outcomeOf'[h] = "stored"
    BY <2>1 DEF Table!Answer, outcomeOf
  <2>3. req[h].route \notin SelectRoutes
    BY <2>1, <2>2 DEF outcomeOf
  <2>4. req[h] \in Request /\ req[h].route \in ExecRoutes
    <3>1. req[h] \in Request
      BY <2>1 DEF RequestInv, PoolInv, LabTypes
    <3>2. req[h].route \in Routes
      BY <3>1 DEF Request
    <3> QED
      BY <2>3, <3>1, <3>2 DEF Routes
  <2>5. /\ IsTable(users')
        /\ \A r \in RowsOf(users') : r.by = h \/ \E o \in RowsOf(users) : r.by = o.by
    BY <2>1, <2>4, ChangeTable DEF Tables
  <2>6. \A g : Committed(g) => Committed(g)'
    BY <2>1, <1>3
  <2>7. \A r \in RowsOf(users') : Committed(r.by)'
    BY <2>2, <2>5, <2>6 DEF Provenance, Committed
  <2>8. Provenance'
    BY <2>7 DEF Provenance
  <2> QED
    BY <2>5, <2>6, <2>8
<1> QED
  BY <1>1, <1>2, <1>4, <1>5 DEF TableStep, Table!RTNext
LEMMA ListStep == ListInv /\ [Next]_vars => ListInv'
<1> SUFFICES ASSUME ListInv, [Next]_vars PROVE ListInv'
  OBVIOUS
<1>0. /\ RequestInv /\ RequestInv' /\ TableStep /\ PoolInv
      /\ Tables /\ Provenance /\ Cursors /\ Sourced /\ Told
  BY RequestStep, Implements DEF ListInv, RequestInv
<1>1. \A h \in Handlers : pc[h] # "idle" => req[h] \in Request
  BY <1>0, Requested, SqlAssumption
<1>2. IsTable(users)' /\ Provenance' /\ \A g : Committed(g) => Committed(g)'
  BY <1>0, <1>1, TableKeepsProvenance
<1> DEFINE Kept(g) == g = "seed" \/ (g \in Handlers /\ outcomeOf'[g] = "stored")
<1>10. \A g : Committed(g) => Kept(g)
  BY <1>2 DEF Committed
<1> DEFINE Rest == IsTable(draft') /\ Cursors' /\ Sourced' /\ Told'
<1>3. ASSUME draft' \in {draft, Empty}, cursor' = cursor, adrift' = adrift,
             UNCHANGED answer, \A h \in Handlers : Over(h)' <=> Over(h),
             \A h \in Handlers : Over(h) => req'[h] = req[h]
      PROVE  Rest
  <2>1. IsTable(draft') /\ Cursors'
    BY <1>0, <1>3, EmptyTable DEF Tables, Cursors
  <2>2. Sourced'
    BY <1>0, <1>2, <1>3 DEF Sourced
  <2>3. Told'
    BY <1>0, <1>3 DEF Told
  <2> QED
    BY <2>1, <2>2, <2>3
<1>4. ASSUME NEW h \in Handlers, Receive(h) PROVE Rest
  <2>1. pc \in [Handlers -> Stages] /\ DOMAIN req = Handlers
    BY <1>0 DEF PoolInv, LabTypes
  <2>2. /\ pc[h] = "idle" /\ pc' = [pc EXCEPT ![h] = "begin"]
        /\ \E q : req' = [req EXCEPT ![h] = q]
        /\ UNCHANGED <<draft, answer, cursor, adrift>>
    BY <1>4 DEF Receive, Goto, file
  <2>3. \A g \in Handlers : (Over(g)' <=> Over(g)) /\ (Over(g) => req'[g] = req[g])
    BY <2>1, <2>2 DEF Over
  <2> QED
    BY <1>3, <2>2, <2>3
<1>5. ASSUME NEW h \in Handlers, Work(h) PROVE Rest
  <2>1. /\ pc[h] \in Stages \ {"idle", "done", "lost"} /\ req' = req /\ ~Over(h)
        /\ \A g \in Handlers \ {h} : pc'[g] = pc[g] /\ answer'[g] = answer[g]
        /\ adrift \subseteq adrift' /\ req[h] \in Request
    BY <1>0, <1>1, <1>5, WorkMoves DEF Over
  <2>2. IsTable(draft')
    BY <1>0, <1>5, <2>1, WorkTells, ChangeTable, EmptyTable DEF Tables
  <2>3. CASE cursor' = cursor
    <3>1. Cursors' /\ Sourced'
      BY <1>0, <1>2, <2>1, <2>3 DEF Cursors, Sourced
    <3>2. ASSUME NEW g \in Handlers \ {h}
          PROVE  \/ /\ answer'[g].rows = <<>> /\ answer'[g].error = FALSE
                    /\ Over(g)' /\ req'[g].route \in SelectRoutes => answer'[g].status \in {400, 500}
                 \/ Over(g)' /\ \E n \in 0 .. Len(cursor'[g]) : answer'[g] = Listing(cursor'[g], n)
      BY <1>0, <2>1, <2>3 DEF Told, Over
    <3>3. \/ /\ answer'[h].rows = <<>> /\ answer'[h].error = FALSE
             /\ Over(h)' /\ req'[h].route \in SelectRoutes => answer'[h].status \in {400, 500}
          \/ Over(h)' /\ \E n \in 0 .. Len(cursor'[h]) : answer'[h] = Listing(cursor'[h], n)
      <4>1. \A code : /\ Status(code).rows = <<>> /\ Status(code).error = FALSE
                      /\ Status(code).status = code
        BY DEF Status, NoAnswer
      <4>2. CASE answer' = answer /\ pc'[h] # "done"
        BY <1>0, <2>1, <4>2 DEF Told, Over
      <4>3. CASE pc'[h] = "done" /\ answer'[h] \in {Status(400), Status(500)}
        BY <4>1, <4>3
      <4>4. CASE pc'[h] = "done" /\ answer'[h] = Status(200) /\ req[h].route \notin SelectRoutes
        BY <2>1, <4>1, <4>4
      <4>5. CASE pc'[h] = "done" /\ \E n \in 0 .. Len(cursor[h]) : answer'[h] = Listing(cursor[h], n)
        BY <2>3, <4>5 DEF Over
      <4> QED
        BY ZenonT(30), <1>0, <1>5, <4>2, <4>3, <4>4, <4>5, WorkTells
    <3>4. Told'
      BY ZenonT(30), <3>2, <3>3 DEF Told
    <3> QED
      BY <2>2, <3>1, <3>4
  <2>4. CASE cursor' # cursor
    <3> DEFINE found(c) == Select(req[h], filter[h], View(c))
    <3>1. PICK c \in Available :
              /\ found(c).kind # "error" /\ cursor' = [cursor EXCEPT ![h] = found(c).rows]
              /\ writer = c => h \in adrift'
      BY <1>0, <1>5, <2>4, WorkTells
    <3>2. Query(h) /\ pc'[h] = "rows" /\ answer' = answer
      BY <1>0, <1>5, <2>4, WorkTells
    <3>3. req[h].route \in SelectRoutes
      BY <1>0, <3>2 DEF Query, AtQuery, Selects, PoolInv, Routed
    <3>4. IsTable(View(c))
      BY <1>0 DEF View, Tables
    <3>5. found(c).rows \in Seq(RowsOf(View(c)))
      BY <3>1, <3>3, <3>4, SelectRows DEF Within
    <3> DEFINE rows == found(c).rows
    <3> HIDE DEF found
    <3>6. RowsOf(View(c)) \subseteq Row
      BY <3>4 DEF RowsOf, IsTable
    <3>7. rows \in Seq(Row) /\ \A n \in 1 .. Len(rows) : rows[n] \in RowsOf(View(c))
      BY <3>5, <3>6, SeqMonotonic
    <3> HIDE DEF rows
    <3>8. cursor'[h] = rows /\ \A g \in Handlers \ {h} : cursor'[g] = cursor[g]
      BY <1>0, <3>1 DEF Cursors, rows
    <3>9. Cursors'
      BY <1>0, <3>1, <3>7 DEF Cursors, rows
    <3>10. Sourced'
      <4>1. ASSUME h \notin adrift', NEW n \in 1 .. Len(rows) PROVE Kept(rows[n].by)
        <5>1. View(c) = users
          BY <3>1, <4>1 DEF View
        <5>2. Committed(rows[n].by)
          BY <1>0, <3>7, <4>1, <5>1 DEF Provenance
        <5> QED
          BY <1>10, <5>2
      <4>2. ASSUME NEW g \in Handlers \ adrift', g # h, NEW n \in 1 .. Len(cursor[g])
            PROVE  Kept(cursor[g][n].by)
        <5>1. Committed(cursor[g][n].by)
          BY <1>0, <2>1, <4>2 DEF Sourced
        <5> QED
          BY <1>10, <5>1
      <4> HIDE DEF Kept
      <4>3. ASSUME NEW g \in Handlers \ adrift', NEW n \in 1 .. Len(cursor'[g])
            PROVE  Kept(cursor'[g][n].by)
        BY <3>8, <4>1, <4>2, <4>3
      <4> QED
        BY <4>3 DEF Sourced, Committed, Kept
    <3>11. Told'
      <4>1. \A g \in Handlers \ {h} : (Over(g)' <=> Over(g)) /\ answer'[g] = answer[g]
        BY <2>1 DEF Over
      <4>2. ~Over(h)'
        BY <3>2 DEF Over
      <4> QED
        BY <1>0, <2>1, <3>2, <3>8, <4>1, <4>2 DEF Told
    <3> QED
      BY <2>2, <3>9, <3>10, <3>11
  <2> QED
    BY <2>3, <2>4
<1>6. ASSUME NEW p \in Procs,
             Start(p) \/ DeleteRows(p) \/ InsertSeeds(p) \/ InitFails(p) \/ Listen(p)
      PROVE  Rest
  <2>1. UNCHANGED <<draft, cursor, adrift, answer, pc, req>>
    BY <1>6 DEF Start, DeleteRows, InsertSeeds, InitFails, Listen, file, work
  <2> QED
    BY <1>3, <2>1 DEF Over
<1>7. ASSUME NEW p \in Procs, Crash(p) PROVE Rest
  <2>1. UNCHANGED <<answer, req, adrift>>
    BY <1>7 DEF Crash
  <2>2. CASE at[p] # "serve"
    BY <1>3, <1>7, <2>1, <2>2 DEF Crash, Over
  <2>3. CASE at[p] = "serve"
    <3>1. /\ pc' = [h \in Handlers |-> IF h \in Active THEN "lost" ELSE pc[h]]
          /\ cursor' = [h \in Handlers |-> IF h \in Active THEN <<>> ELSE cursor[h]]
          /\ draft' = Empty
      BY <1>7, <2>3 DEF Crash
    <3>2. \A h \in Handlers : (Over(h)' <=> Over(h)) /\ (Over(h) => h \notin Active)
      BY <3>1 DEF Active, Over
    <3>3. IsTable(draft')
      BY <3>1, EmptyTable
    <3>4. Cursors'
      BY <1>0, <3>1 DEF Cursors
    <3>5. \A h \in Handlers : cursor'[h] \in {<<>>, cursor[h]} /\ (Over(h) => cursor'[h] = cursor[h])
      BY <3>1, <3>2
    <3>6. Sourced'
      <4>1. ASSUME NEW g \in Handlers \ adrift', NEW n \in 1 .. Len(cursor'[g])
            PROVE  Committed(cursor'[g][n].by)
        <5>1. cursor'[g] = cursor[g]
          BY <3>5, <4>1
        <5> QED
          BY <1>0, <2>1, <4>1, <5>1 DEF Sourced
      <4> QED
        BY <1>2, <4>1 DEF Sourced
    <3>7. Told'
      BY <1>0, <2>1, <3>2, <3>5 DEF Told
    <3> QED
      BY <3>3, <3>4, <3>6, <3>7
  <2> QED
    BY <2>2, <2>3
<1>8. ASSUME UNCHANGED vars PROVE Rest
  <2>1. UNCHANGED <<draft, cursor, adrift, answer, pc, req>>
    BY <1>8 DEF vars, file, work
  <2> QED
    BY <1>3, <2>1 DEF Over
<1>9. Rest
  <2> HIDE DEF Rest
  <2>1. Next => Rest
    BY <1>4, <1>5, <1>6, <1>7 DEF Next
  <2> QED
    BY <1>8, <2>1
<1> QED
  BY <1>0, <1>2, <1>9 DEF ListInv, Tables

LEMMA ListAlways == Spec => []ListInv
  BY ListInit, ListStep, PTL DEF Spec

LEMMA ToldTells ==
    ASSUME ListInv, NEW h \in Handlers
    PROVE  \/ /\ answer[h].rows = <<>> /\ answer[h].error = FALSE
              /\ Over(h) /\ req[h].route \in SelectRoutes => answer[h].status \in {400, 500}
           \/ Tells(answer[h], cursor[h])
<1>1. cursor[h] \in Seq(Row)
  BY DEF ListInv, Cursors
<1> QED
  BY <1>1, ListingTells DEF ListInv, Told

(* A listing has no row of a request that was refused or is still open,    *)
(* unless it was read where a Commit had failed.                           *)
THEOREM ListingsCommittedCorrect == Spec => []ListingsCommitted
<1>1. ASSUME ListInv PROVE ListingsCommitted
  <2> SUFFICES ASSUME NEW h \in Handlers \ adrift, NEW n \in 1 .. Met(h)
               PROVE  Committed(cursor[h][n].by)
    BY DEF ListingsCommitted, Committed
  <2>1. Tells(answer[h], cursor[h])
    <3>1. CASE answer[h].rows = <<>> /\ answer[h].error = FALSE
      <4>1. Met(h) = 0
        BY <3>1 DEF Met
      <4> QED
        BY <4>1
    <3> QED
      BY <1>1, <3>1, ToldTells
  <2>2. Met(h) \in Nat /\ Len(cursor[h]) \in Nat /\ Met(h) <= Len(cursor[h])
    <3>1. cursor[h] \in Seq(Row)
      BY <1>1 DEF ListInv, Cursors
    <3>2. /\ answer[h].error => Met(h) = Len(answer[h].rows) + 1
          /\ ~answer[h].error => Met(h) = Len(answer[h].rows) + 0
      BY DEF Met
    <3> QED
      BY <2>1, <3>1, <3>2 DEF Tells
  <2> QED
    BY <1>1, <2>2 DEF ListInv, Sourced
<1> QED
  BY <1>1, ListAlways, PTL

(* A listing answered 200 without an error is the whole of its statement,  *)
(* or the beginning of it after an iteration that failed; an error in it   *)
(* stands for a role that is Null.                                         *)
THEOREM ListingExplainedCorrect == Spec => []ListingExplained
<1>1. ASSUME ListInv PROVE ListingExplained
  <2> SUFFICES ASSUME NEW h \in Handlers, Over(h), req[h].route \in SelectRoutes,
                      answer[h].status # 400
               PROVE  /\ \A n \in DOMAIN answer[h].rows : /\ answer[h].rows[n] = cursor[h][n]
                                                          /\ answer[h].rows[n].role # Null
                      /\ answer[h].error => cursor[h][Len(answer[h].rows) + 1].role = Null
                      /\ answer[h].status = 200 /\ ~answer[h].error /\ ~answer[h].cut =>
                            answer[h].rows = cursor[h]
    BY DEF ListingExplained
  <2>1. CASE Tells(answer[h], cursor[h])
    BY <2>1 DEF Tells
  <2>2. CASE answer[h].rows = <<>> /\ answer[h].error = FALSE /\ answer[h].status \in {400, 500}
    BY <2>2
  <2> QED
    <3>1. Tells(answer[h], cursor[h]) \/ (answer[h].rows = <<>> /\ answer[h].error = FALSE
                                          /\ answer[h].status \in {400, 500})
      BY <1>1, ToldTells
    <3> QED
      BY <2>1, <2>2, <3>1
<1> QED
  BY <1>1, ListAlways, PTL

-------------------------------------------------------------------------------
(* The way of a request to its answer.                                     *)

Turn(stage) == CASE stage = "idle"  -> 0
                 [] stage = "begin" -> 1
                 [] stage \in {"prepared", "filter", "tx"} -> 2
                 [] stage \in {"rows", "wrote"} -> 3
                 [] stage \in {"done", "lost"}  -> 4
Further(h) == Turn(pc[h]) < Turn(pc'[h])
GoesOn ==
    /\ \A h \in Handlers : pc'[h] = pc[h] \/ Further(h)
    /\ (\E h \in Handlers : Work(h)) => \E h \in Handlers : Further(h)
Replied == \A h \in Handlers : Over(h) => answer[h].status \in {200, 400, 500}

LEMMA TurnsFollow ==
    /\ Turn("idle") < Turn("begin")
    /\ \A s \in {"prepared", "filter", "tx", "rows", "done"} : Turn("begin") < Turn(s)
    /\ \A s \in {"prepared", "filter"} : \A t \in {"rows", "done"} : Turn(s) < Turn(t)
    /\ Turn("tx") < Turn("wrote") /\ Turn("tx") < Turn("done")
    /\ Turn("rows") < Turn("done") /\ Turn("wrote") < Turn("done")
    /\ \A s \in Stages \ {"done", "lost"} : Turn(s) < Turn("lost")
<1>1. /\ Turn("idle") = 0 /\ Turn("begin") = 1
      /\ Turn("prepared") = 2 /\ Turn("filter") = 2 /\ Turn("tx") = 2
      /\ Turn("rows") = 3 /\ Turn("wrote") = 3
      /\ Turn("done") = 4 /\ Turn("lost") = 4
  BY DEF Turn
<1> QED
  BY <1>1 DEF Stages

(* A request that is served goes on, whatever comes of the step. *)
LEMMA WorkGoesOn ==
    ASSUME PoolInv, NEW h \in Handlers, Work(h)
    PROVE  Further(h) /\ \A g \in Handlers \ {h} : pc'[g] = pc[g]
<1>0. pc \in [Handlers -> Stages] /\ \A g \in Handlers \ {h} : pc'[g] = pc[g]
  BY WorkMoves DEF PoolInv, LabTypes
<1> SUFFICES Further(h)
  BY <1>0
<1>1. \A to : Goto(h, to) => pc'[h] = to
  BY <1>0 DEF Goto
<1>2. /\ \A a : Done(h, a) => pc'[h] = "done"
      /\ \A c : Fail(h, c) => pc'[h] = "done"
  BY <1>1 DEF Done, Fail
<1>3. pc[h] \in {"begin", "prepared", "filter", "tx", "rows", "wrote"} /\ pc'[h] = "done" => Further(h)
  BY TurnsFollow DEF Further
<1>4. Selects(h) \/ AtQuery(h) => pc[h] \in {"begin", "prepared", "filter"}
  BY DEF Selects, AtQuery
<1>5. CASE Refuse(h)
  BY <1>2, <1>3, <1>5 DEF Refuse
<1>6. CASE Prepare(h) \/ ReadFilter(h)
  <2>1. pc[h] = "begin" /\ pc'[h] \in {"done", "prepared", "filter"}
    BY <1>1, <1>2, <1>6 DEF Prepare, ReadFilter, Selects
  <2> QED
    BY <2>1, TurnsFollow DEF Further
<1>7. CASE Query(h)
  <2>1. pc[h] \in {"begin", "prepared", "filter"} /\ pc'[h] \in {"done", "rows"}
    BY <1>1, <1>2, <1>4, <1>7 DEF Query
  <2> QED
    BY <2>1, TurnsFollow DEF Further
<1>8. CASE ReadTimesOut(h)
  BY <1>2, <1>3, <1>4, <1>8 DEF ReadTimesOut
<1>9. CASE WriteUsers(h)
  BY <1>2, <1>3, <1>9 DEF WriteUsers
<1>10. CASE Exec(h) \/ ExecTimesOut(h)
  BY <1>2, <1>3, <1>10 DEF Exec, ExecTimesOut, Executes
<1>11. CASE Begin(h)
  <2>1. pc[h] = "begin" /\ pc'[h] \in {"done", "tx"}
    BY <1>1, <1>2, <1>11 DEF Begin
  <2> QED
    BY <2>1, TurnsFollow DEF Further
<1>12. CASE TxExec(h)
  <2>1. pc[h] = "tx" /\ pc'[h] \in {"done", "wrote"}
    BY <1>1, <1>2, <1>12 DEF TxExec
  <2> QED
    BY <2>1, TurnsFollow DEF Further
<1>13. CASE Commit(h) \/ CommitFails(h)
  BY <1>2, <1>3, <1>13 DEF Commit, CommitFails
<1> QED
  BY <1>0, <1>5, <1>6, <1>7, <1>8, <1>9, <1>10, <1>11, <1>12, <1>13 DEF Work

LEMMA OnwardStep == ASSUME PoolInv, Next PROVE GoesOn
<1>0. pc \in [Handlers -> Stages]
  BY DEF PoolInv, LabTypes
<1>n. ASSUME \E h \in Handlers : Work(h) PROVE GoesOn
  BY <1>n, WorkGoesOn DEF GoesOn
<1>q. ASSUME ~\E h \in Handlers : Work(h), \A h \in Handlers : pc'[h] = pc[h] \/ Further(h)
      PROVE  GoesOn
  BY <1>q DEF GoesOn
<1>1. ASSUME NEW h \in Handlers, Receive(h)
      PROVE  \A g \in Handlers : pc'[g] = pc[g] \/ Further(g)
  <2>1. pc[h] = "idle" /\ pc'[h] = "begin" /\ \A g \in Handlers \ {h} : pc'[g] = pc[g]
    BY <1>0, <1>1 DEF Receive, Goto
  <2> QED
    BY <2>1, TurnsFollow DEF Further
<1>2. ASSUME NEW p \in Procs,
             Start(p) \/ DeleteRows(p) \/ InsertSeeds(p) \/ InitFails(p) \/ Listen(p)
      PROVE  pc' = pc
  BY <1>2 DEF Start, DeleteRows, InsertSeeds, InitFails, Listen
<1>3. ASSUME NEW p \in Procs, Crash(p)
      PROVE  \A g \in Handlers : pc'[g] = pc[g] \/ Further(g)
  <2>1. \A g \in Handlers : pc'[g] # pc[g] => pc[g] \in Stages \ {"done", "lost"} /\ pc'[g] = "lost"
    BY <1>0, <1>3 DEF Crash, Active
  <2> QED
    BY <2>1, TurnsFollow DEF Further
<1> QED
  BY <1>n, <1>q, <1>1, <1>2, <1>3 DEF Next

LEMMA RepliedStep == ASSUME PoolInv, Replied, [Next]_vars PROVE Replied'
<1>0. pc \in [Handlers -> Stages] /\ DOMAIN answer = Handlers
  BY DEF PoolInv, LabTypes
<1> USE DEF Replied, Over
<1>1. ASSUME UNCHANGED answer, \A h \in Handlers : pc'[h] = "done" => pc[h] = "done" PROVE Replied'
  BY <1>1
<1>2. ASSUME NEW h \in Handlers, Work(h) PROVE Replied'
  <2>1. \A g \in Handlers \ {h} : pc'[g] = pc[g] /\ answer'[g] = answer[g]
    BY <1>2, WorkMoves
  <2>2. \A a : Done(h, a) => answer'[h] = a
    BY <1>0 DEF Done
  <2>3. \A code : Status(code).status = code
    BY DEF Status, NoAnswer
  <2>4. \A c : Fail(h, c) => answer'[h].status \in {200, 400, 500}
    BY <2>2, <2>3 DEF Fail
  <2>5. \A rows, n : Listing(rows, n).status \in {200, 500}
    BY DEF Listing
  <2>6. \A to : Goto(h, to) => pc'[h] = to
    BY <1>0 DEF Goto
  <2>7. pc'[h] # "done" \/ answer'[h].status \in {200, 400, 500}
    <3>1. CASE Refuse(h)
      BY <3>1, <2>2, <2>3 DEF Refuse
    <3>2. CASE Prepare(h)
      <4>1. (\E c \in Available : Fail(h, c)) \/ Goto(h, "prepared")
        BY <3>2 DEF Prepare
      <4> QED
        BY <4>1, <2>4, <2>6
    <3>3. CASE ReadFilter(h)
      BY <3>3, <2>4, <2>6 DEF ReadFilter
    <3>4. CASE Query(h)
      BY <3>4, <2>4, <2>6 DEF Query
    <3>5. CASE ReadTimesOut(h)
      BY <3>5, <2>4 DEF ReadTimesOut
    <3>6. CASE WriteUsers(h)
      BY <3>6, <2>2, <2>5 DEF WriteUsers
    <3>7. CASE Exec(h)
      BY <3>7, <2>2, <2>3, <2>4 DEF Exec
    <3>8. CASE ExecTimesOut(h)
      BY <3>8, <2>4 DEF ExecTimesOut
    <3>9. CASE Begin(h)
      BY <3>9, <2>4, <2>6 DEF Begin
    <3>10. CASE TxExec(h)
      BY <3>10, <2>4, <2>6 DEF TxExec
    <3>11. CASE Commit(h)
      BY <3>11, <2>2, <2>3 DEF Commit
    <3>12. CASE CommitFails(h)
      BY <3>12, <2>4 DEF CommitFails
    <3> QED
      BY <1>2, <3>1, <3>2, <3>3, <3>4, <3>5, <3>6, <3>7, <3>8, <3>9, <3>10, <3>11, <3>12
         DEF Work
  <2> QED
    BY <2>1, <2>7
<1>3. CASE UNCHANGED vars
  BY <1>1, <1>3 DEF vars
<1>4. ASSUME NEW h \in Handlers, Receive(h) PROVE Replied'
  BY <1>0, <1>4 DEF Receive, Goto
<1>5. ASSUME NEW p \in Procs,
             Start(p) \/ DeleteRows(p) \/ InsertSeeds(p) \/ InitFails(p) \/ Listen(p)
      PROVE  Replied'
  BY <1>5 DEF Start, DeleteRows, InsertSeeds, InitFails, Listen
<1>6. ASSUME NEW p \in Procs, Crash(p) PROVE Replied'
  <2>1. answer' = answer
    BY <1>6 DEF Crash
  <2>2. \/ pc' = pc
        \/ pc' = [h \in Handlers |-> IF h \in Active THEN "lost" ELSE pc[h]]
    BY <1>6 DEF Crash
  <2>3. \A h \in Handlers : pc'[h] = "done" => pc[h] = "done"
    BY <2>2
  <2> QED
    BY <1>1, <2>1, <2>3
<1> QED
  BY <1>2, <1>3, <1>4, <1>5, <1>6 DEF Next

(* However many requests, connections and processes: what a handler does   *)
(* takes its request further, to an answer after four steps at the most,   *)
(* and nothing takes one back.  Nobody can go round in circles between     *)
(* locks that others hold.  EveryRequestAnswered adds that the steps are   *)
(* taken.                                                                  *)
THEOREM RequestsGoOn == Spec => []Replied /\ [][GoesOn]_vars
<1>1. Init => Replied
  <2>1. Init => \A h \in Handlers : pc[h] = "idle"
    BY DEF Init
  <2> QED
    BY <2>1 DEF Replied, Over
<1>2. PoolInv /\ Replied /\ [Next]_vars => Replied'
  BY RepliedStep
<1>3. PoolInv /\ [Next]_vars => [GoesOn]_vars
  BY OnwardStep
<1> QED
  BY PoolAlways, <1>1, <1>2, <1>3, PTL DEF Spec
===============================================================================
