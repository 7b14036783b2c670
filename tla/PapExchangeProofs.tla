-------------------------- MODULE PapExchangeProofs --------------------------
(***************************************************************************)
(* Theorems about PapExchange, for answers of any length and bytes of any  *)
(* value: the loops over the attributes keep to the datagram, together     *)
(* they come to the verdict that the attributes deserve, and they end.     *)
(***************************************************************************)
EXTENDS PapExchange, TLAPS

USE ByteAssumption

(* After verifyResponseAuth every check works on a datagram that is        *)
(* framed, and a loop that runs has not passed the declared end.           *)
LoopInv ==
    /\ d \in Datagrams
    /\ i \in Nat
    /\ at = "send" => d = NoDatagram
    /\ at \in {"send", "auth"} => i = 0
    /\ at \in {"send", "auth", "maParse"} => maAt = -1
    /\ at \in {"maParse", "walk", "mac", "parse", "report"} => Framed
    /\ at \in {"maParse", "walk", "parse"} => i <= d.declared

Inv == TypeOK /\ LoopInv /\ NeverReadsBeyond

(* A body is a sequence of bytes and no longer than MaxBody. *)
LEMMA BodyType ==
    ASSUME d \in Datagrams
    PROVE  /\ d.declared \in Int /\ Len(d.body) \in 0 .. MaxBody
           /\ \A k \in 1 .. Len(d.body) : d.body[k] \in Byte
<1>1. /\ d.declared \in -1 .. MaxBody + 1
      /\ d.body \in UNION {[1 .. m -> Byte] : m \in 0 .. MaxBody}
  BY DEF Datagrams, BoundedSeq, SeqOf
<1>2. PICK m \in 0 .. MaxBody : d.body \in [1 .. m -> Byte]
  BY <1>1
<1>3. Len(d.body) = m
  BY <1>2
<1> QED
  BY <1>1, <1>2, <1>3

(* What a loop reads at an index that leaves room for a type and a length. *)
LEMMA HeaderType ==
    ASSUME LoopInv, Framed, i + 2 <= d.declared
    PROVE  type \in Byte /\ length \in Byte /\ InBounds(d.declared) /\ InBounds(Len(d.body))
<1>1. /\ d.declared <= Len(d.body) /\ d.declared \in Int /\ Len(d.body) \in Nat
      /\ \A k \in 1 .. Len(d.body) : d.body[k] \in Byte
  BY BodyType DEF LoopInv, Framed
<1>2. i + 1 \in 1 .. Len(d.body) /\ i + 2 \in 1 .. Len(d.body)
  BY <1>1 DEF LoopInv
<1> QED
  BY <1>1, <1>2 DEF type, length, InBounds, LoopInv

LEMMA InvInit == Init => Inv
<1>1. ASSUME Init PROVE NoDatagram \in Datagrams
  <2>1. <<>> \in [1 .. 0 -> Byte]
    OBVIOUS
  <2>2. <<>> \in BoundedSeq(Byte, MaxBody)
    BY <2>1 DEF BoundedSeq, SeqOf
  <2> QED
    BY <2>2 DEF NoDatagram, Datagrams, Codes
<1> QED
  BY <1>1 DEF Init, Inv, TypeOK, LoopInv, NeverReadsBeyond, NoDatagram

(* Every step of the exchange keeps the loops within the datagram. *)
LEMMA InvStep == Inv /\ [Next]_vars => Inv'
<1> SUFFICES ASSUME Inv, [Next]_vars PROVE Inv'
  OBVIOUS
<1> USE DEF Inv, TypeOK, NeverReadsBeyond
<1>0. /\ d.declared \in Int /\ Len(d.body) \in 0 .. MaxBody
      /\ Framed => d.declared \in 0 .. Len(d.body)
  BY BodyType DEF LoopInv, Framed
<1>1. CASE UNCHANGED vars
  BY <1>1 DEF vars, LoopInv, Framed
<1>2. ASSUME NEW what, End(what), what # "panic" PROVE Inv'
  BY <1>2 DEF End, LoopInv
<1>3. CASE NoAnswer
  BY <1>2, <1>3 DEF NoAnswer
<1>4. CASE Receive
  BY <1>4 DEF Receive, LoopInv
<1>5. CASE AuthRejected
  BY <1>2, <1>5 DEF AuthRejected
<1>6. CASE AuthPassed
  BY <1>0, <1>6 DEF AuthPassed, LoopInv, Framed
<1>7. CASE ParseAttribute
  <2>1. i + 2 <= d.declared
    BY <1>7 DEF ParseAttribute, Sound, InBounds
  <2>2. type \in Byte /\ length \in Nat
    BY <1>7, <2>1, HeaderType DEF ParseAttribute
  <2>3. length >= 2 /\ i + length <= d.declared
    BY <1>0, <1>7, <2>2 DEF ParseAttribute, Sound, Overruns
  <2>4. length \in 2 .. MaxBody /\ i' \in 0 .. MaxBody /\ i' <= d.declared
    BY <1>0, <1>7, <2>2, <2>3 DEF ParseAttribute, LoopInv
  <2>5. [type |-> type, len |-> length] \in [type : Byte, len : 2 .. MaxBody]
    BY <2>2, <2>4
  <2>6. attrs' \in Seq([type : Byte, len : 2 .. MaxBody])
    BY <1>7, <2>5 DEF ParseAttribute
  <2>7. TypeOK' /\ NeverReadsBeyond'
    BY <1>7, <2>4, <2>6 DEF ParseAttribute
  <2>8. LoopInv'
    BY <1>7, <2>4 DEF ParseAttribute, Parsing, LoopInv, Framed
  <2> QED
    BY <2>7, <2>8
<1>8. CASE ParseRefused
  <2>1. ASSUME Framed PROVE InBounds(d.declared)
    BY <1>0, <1>8, <2>1 DEF ParseRefused, ParseOver, InBounds, LoopInv
  <2> QED
    BY <1>2, <1>8, <2>1 DEF ParseRefused, Refused
<1>9. CASE ParseDone
  BY <1>0, <1>9 DEF ParseDone, LoopInv, Framed, Parsing
<1>10. CASE WalkAttribute
  <2>1. i + 2 <= d.declared /\ Framed
    BY <1>0, <1>10 DEF WalkAttribute, WalkOver, LoopInv
  <2>2. length \in Nat
    BY <2>1, HeaderType
  <2>3. i + length <= d.declared
    BY <1>0, <1>10, <2>2 DEF WalkAttribute, Sound, Overruns
  <2>4. i' \in 0 .. MaxBody /\ i' <= d.declared
    BY <1>0, <1>10, <2>1, <2>2, <2>3 DEF WalkAttribute
  <2> QED
    BY <1>10, <2>1, <2>4 DEF WalkAttribute, LoopInv, Framed
<1>11. CASE WalkFound
  <2>1. i + MALen <= d.declared
    BY <1>0, <1>11 DEF WalkFound, Sound, Overruns, IsMA
  <2>2. maAt' \in Nat /\ maAt' + MALen - 2 <= d.declared
    BY <1>0, <1>11, <2>1 DEF WalkFound
  <2> QED
    BY <1>11, <2>2 DEF WalkFound, LoopInv, Framed
<1>12. CASE WalkDone
  <2>1. WalkOver \/ InBounds(Len(d.body))
    BY <1>0, <1>12 DEF WalkDone, WalkOver, InBounds, LoopInv
  <2> QED
    BY <1>12, <2>1 DEF WalkDone, LoopInv, Framed
<1>13. CASE MacRejected
  BY <1>2, <1>13 DEF MacRejected
<1>14. CASE MacPassed
  BY <1>0, <1>14 DEF MacPassed, LoopInv, Framed
<1>15. CASE Report
  BY <1>2, <1>15 DEF Report, Codes
<1>16. CASE Over
  BY <1>1, <1>16 DEF Over
<1> QED
  BY <1>1, <1>3, <1>4, <1>5, <1>6, <1>7, <1>8, <1>9, <1>10, <1>11, <1>12,
     <1>13, <1>14, <1>15, <1>16 DEF Next

LEMMA InvCorrect == Spec => []Inv
  BY InvInit, InvStep, PTL DEF Spec

(* The indices of parseAttributes and of verifyMessageAuthenticator stay   *)
(* within the declared length, for an answer of any bytes.                 *)
THEOREM TypeCorrect == Spec => []TypeOK
<1>1. Inv => TypeOK
  BY DEF Inv
<1> QED
  BY <1>1, InvCorrect, PTL

(* Neither loop ever reads beyond the slice it is given (the comment in    *)
(* verifyMessageAuthenticator about the bounds guards).                    *)
THEOREM NeverReadsBeyondCorrect == Spec => []NeverReadsBeyond
<1>1. Inv => NeverReadsBeyond
  BY DEF Inv
<1> QED
  BY <1>1, InvCorrect, PTL

-------------------------------------------------------------------------------
(* ReportedExactly: the loops stay on the offsets of the definition, and   *)
(* at the end they have passed them all.                                   *)

LEMMA OffsetsStart ==
    ASSUME NEW n \in Nat, NEW b
    PROVE  0 \in Offsets(b, n)
<1> QED
  BY DEF Offsets, Closed

(* An attribute of the offsets has its end among them. *)
LEMMA OffsetsGoOn ==
    ASSUME NEW n \in Nat, NEW b, NEW j \in Offsets(b, n), HasAttribute(n, j), b[j + 2] \in Nat
    PROVE  EndOf(b, n, j) \in Offsets(b, n)
<1>1. j \in Nat
  BY DEF Offsets, HasAttribute
<1>2. EndOf(b, n, j) \in -1 .. n
  BY <1>1 DEF EndOf
<1>3. \A S \in SUBSET (-1 .. n) : Closed(b, n, S) => EndOf(b, n, j) \in S
  BY DEF Offsets, Closed
<1> QED
  BY <1>2, <1>3 DEF Offsets

(* What a loop has behind it: from the start to where it is, each          *)
(* attribute with its end.                                                 *)
Behind(V) ==
    /\ V \subseteq 0 .. d.declared
    /\ 0 \in V \cup {i}
    /\ \A j \in V : /\ HasAttribute(d.declared, j)
                    /\ EndOf(d.body, d.declared, j) \in V \cup {i}
IsMAAt(j) == d.body[j + 1] = MAType /\ d.body[j + 2] = MALen

(* With no room for another attribute, these are all the offsets. *)
LEMMA NothingElse ==
    ASSUME NEW V, Behind(V), d.declared \in Nat, i \in 0 .. d.declared, d.declared - i < 2
    PROVE  Offsets(d.body, d.declared) \subseteq V \cup {i}
<1> DEFINE S == V \cup {i}
<1>1. S \in SUBSET (-1 .. d.declared)
  BY DEF Behind
<1>2. Closed(d.body, d.declared, S)
  <2>1. ~HasAttribute(d.declared, i)
    BY DEF HasAttribute
  <2> QED
    BY <2>1 DEF Closed, Behind
<1> HIDE DEF S
<1>3. Offsets(d.body, d.declared) \subseteq S
  BY <1>1, <1>2 DEF Offsets
<1> QED
  BY <1>3 DEF S

Checking == at \in {"maParse", "walk", "mac", "parse", "report"}
OnTrail ==
    at \in {"maParse", "walk", "parse"} =>
        /\ i \in Offsets(d.body, d.declared)
        /\ \E V \in SUBSET Nat : Behind(V) /\ (at = "walk" => \A j \in V : ~IsMAAt(j))
KnownMA ==
    /\ at \in {"walk", "mac", "parse", "report"} => Parses(d.body, d.declared)
    /\ at = "walk" => maAt = -1
    /\ at = "mac" => (maAt >= 0 <=> CarriesMA(d.body, d.declared))
    /\ at \in {"parse", "report"} => (CarriesMA(d.body, d.declared) => MacFits)
VerdictInv == (Checking => d.signed) /\ OnTrail /\ KnownMA /\ ReportedExactly

(* A step that ends without a verdict is right if the answer deserves none. *)
LEMMA EndsWithout ==
    ASSUME NEW what, End(what), what \notin Codes,
           Framed /\ d.signed /\ d.code \in Codes /\ Parses(d.body, d.declared) =>
               CarriesMA(d.body, d.declared) /\ ~MacFits
    PROVE  VerdictInv'
<1>1. at' = "ended" /\ result' = what /\ d' = d
  BY DEF End
<1> QED
  BY <1>1 DEF VerdictInv, Checking, OnTrail, KnownMA, ReportedExactly, Framed, MacFits

(* The header at the index of a loop. *)
LEMMA AtIndex ==
    ASSUME Inv, Framed, i + 2 <= d.declared
    PROVE  /\ HasAttribute(d.declared, i) /\ d.body[i + 2] \in Nat /\ d.declared \in Nat
           /\ EndOf(d.body, d.declared, i) = IF Overruns THEN -1 ELSE i + length
           /\ InBounds(d.declared) /\ InBounds(Len(d.body))
<1>1. length \in Nat /\ InBounds(d.declared) /\ InBounds(Len(d.body))
  BY HeaderType DEF Inv
<1>2. i \in Nat /\ d.declared \in Nat
  BY BodyType DEF Inv, LoopInv, Framed
<1> QED
  BY <1>1, <1>2 DEF HasAttribute, EndOf, Overruns, length

(* A loop that takes one attribute stays on the trail. *)
LEMMA TrailGoesOn ==
    ASSUME Inv, OnTrail, Framed, at \in {"maParse", "walk", "parse"}, at' = at, d' = d,
           i + 2 <= d.declared, ~Overruns, i' = i + length, at = "walk" => ~IsMA
    PROVE  OnTrail'
<1> DEFINE n == d.declared
           b == d.body
<1>1. /\ HasAttribute(n, i) /\ b[i + 2] \in Nat /\ n \in Nat /\ EndOf(b, n, i) = i'
  BY AtIndex
<1>2. i \in Nat /\ i <= n
  BY DEF Inv, LoopInv
<1>3. i \in Offsets(b, n)
  BY DEF OnTrail
<1>4. i' \in Offsets(b, n)
  BY <1>1, <1>3, OffsetsGoOn
<1>5. PICK V \in SUBSET Nat : Behind(V) /\ (at = "walk" => \A j \in V : ~IsMAAt(j))
  BY DEF OnTrail
<1>w. PICK W \in SUBSET Nat : W = V \cup {i}
  BY <1>2
<1>6. W \in SUBSET Nat /\ W \subseteq 0 .. n /\ 0 \in W
  BY <1>w, <1>1, <1>2, <1>5 DEF Behind
<1>7. \A j \in W : HasAttribute(n, j) /\ EndOf(b, n, j) \in W \cup {i'}
  BY <1>w, <1>1, <1>5 DEF Behind
<1>8. at = "walk" => \A j \in W : ~IsMAAt(j)
  BY <1>w, <1>5 DEF IsMAAt, IsMA, type, length
<1>9. Behind(W)'
  BY <1>6, <1>7 DEF Behind
<1>10. (at = "walk" => \A j \in W : ~IsMAAt(j))'
  BY <1>8 DEF IsMAAt
<1> QED
  BY <1>4, <1>6, <1>9, <1>10 DEF OnTrail

(* A loop that starts over is at the first of the offsets. *)
LEMMA TrailStarts ==
    ASSUME i' = 0, d' = d, d.declared \in Nat
    PROVE  OnTrail'
<1>1. 0 \in Offsets(d.body, d.declared)
  BY OffsetsStart
<1>2. Behind({})' /\ {} \in SUBSET Nat /\ \A j \in {} : ~IsMAAt(j)'
  BY DEF Behind
<1> QED
  BY <1>1, <1>2 DEF OnTrail

LEMMA VerdictInit == Init => VerdictInv
<1> QED
  BY DEF Init, VerdictInv, Checking, OnTrail, KnownMA, ReportedExactly

LEMMA VerdictStep == Inv /\ VerdictInv /\ [Next]_vars => VerdictInv'
<1> SUFFICES ASSUME Inv, VerdictInv, [Next]_vars PROVE VerdictInv'
  OBVIOUS
<1>0. /\ d.declared \in Int /\ i \in Nat
      /\ Framed => d.declared \in Nat
      /\ Checking => Framed
      /\ at \in {"maParse", "walk", "parse"} => i \in 0 .. d.declared
  BY BodyType DEF Inv, LoopInv, Framed, Checking
<1>1. CASE UNCHANGED vars
  BY <1>1 DEF vars, VerdictInv, Checking, OnTrail, Behind, IsMAAt, KnownMA, MacFits,
     ReportedExactly, Framed
<1>2. CASE NoAnswer
  <2>1. ~(Framed /\ d.signed /\ d.code \in Codes /\ Parses(d.body, d.declared))
    BY <1>2 DEF NoAnswer, Inv, LoopInv, NoDatagram, Framed
  <2> QED
    BY <1>2, <2>1, EndsWithout DEF NoAnswer, Codes
<1>3. CASE Receive
  BY <1>3 DEF Receive, VerdictInv, Checking, OnTrail, KnownMA, ReportedExactly
<1>4. CASE AuthRejected
  BY <1>4, EndsWithout DEF AuthRejected, Codes
<1>5. CASE AuthPassed
  <2>1. i' = 0 /\ d' = d /\ d.declared \in Nat
    BY <1>0, <1>5 DEF AuthPassed, Inv, LoopInv
  <2>2. OnTrail'
    BY <2>1, TrailStarts
  <2> QED
    BY <1>5, <2>2 DEF AuthPassed, VerdictInv, Checking, KnownMA, ReportedExactly
<1>6. CASE ParseAttribute
  <2>1. OnTrail'
    BY <1>0, <1>6, TrailGoesOn
       DEF ParseAttribute, Parsing, ParseOver, Sound, InBounds, VerdictInv
  <2> QED
    BY <1>6, <2>1 DEF ParseAttribute, Parsing, VerdictInv, Checking, KnownMA, MacFits,
       ReportedExactly
<1>7. CASE ParseRefused
  <2>1. Framed /\ i + 2 <= d.declared
    BY <1>0, <1>7 DEF ParseRefused, Parsing, Checking, ParseOver
  <2>2. Overruns
    BY <1>7, <2>1, AtIndex DEF ParseRefused, Sound
  <2>3. i \in Offsets(d.body, d.declared)
    BY <1>7 DEF ParseRefused, Parsing, VerdictInv, OnTrail
  <2>4. -1 \in Offsets(d.body, d.declared)
    BY <2>1, <2>2, <2>3, AtIndex, OffsetsGoOn
  <2> QED
    BY <1>7, <2>4, EndsWithout DEF ParseRefused, Refused, Codes, Parses
<1>8. CASE ParseDone
  <2>1. d.declared \in Nat /\ d.declared - i < 2 /\ i \in 0 .. d.declared
    BY <1>0, <1>8 DEF ParseDone, Parsing, ParseOver
  <2>2. Parses(d.body, d.declared)
    <3>1. PICK V \in SUBSET Nat : Behind(V)
      BY <1>8 DEF ParseDone, Parsing, VerdictInv, OnTrail
    <3>2. Offsets(d.body, d.declared) \subseteq V \cup {i}
      BY <2>1, <3>1, NothingElse
    <3> QED
      BY <2>1, <3>2 DEF Parses
  <2>3. OnTrail'
    BY <1>8, <2>1, TrailStarts DEF ParseDone
  <2> QED
    BY <1>8, <2>2, <2>3 DEF ParseDone, Parsing, VerdictInv, Checking, KnownMA, MacFits,
       ReportedExactly, Inv, LoopInv
<1>9. CASE WalkAttribute
  <2>1. OnTrail'
    BY <1>0, <1>9, TrailGoesOn DEF WalkAttribute, WalkOver, Sound, VerdictInv, Checking
  <2> QED
    BY <1>9, <2>1 DEF WalkAttribute, VerdictInv, Checking, KnownMA, MacFits, ReportedExactly
<1>10. CASE WalkFound
  <2>1. HasAttribute(d.declared, i) /\ i \in Offsets(d.body, d.declared)
    BY <1>0, <1>10, AtIndex DEF WalkFound, WalkOver, VerdictInv, OnTrail, Checking
  <2>2. CarriesMA(d.body, d.declared)
    BY <1>10, <2>1 DEF WalkFound, IsMA, type, length, CarriesMA
  <2> QED
    BY <1>0, <1>10, <2>2 DEF WalkFound, VerdictInv, Checking, OnTrail, KnownMA, ReportedExactly
<1>11. CASE WalkDone
  <2>1. WalkOver
    <3> SUFFICES ASSUME ~WalkOver
                 PROVE  FALSE
      OBVIOUS
    <3>1. Framed /\ i + 2 <= d.declared
      BY <1>0, <1>11 DEF WalkDone, WalkOver, Checking
    <3>2. Overruns
      BY <1>11, <3>1, AtIndex DEF WalkDone, Sound
    <3>3. i \in Offsets(d.body, d.declared) /\ Parses(d.body, d.declared)
      BY <1>11 DEF WalkDone, VerdictInv, OnTrail, KnownMA
    <3> QED
      BY <3>1, <3>2, <3>3, AtIndex, OffsetsGoOn DEF Parses
  <2>2. d.declared \in Nat /\ d.declared - i < 2 /\ i \in 0 .. d.declared
    BY <1>0, <1>11, <2>1 DEF WalkDone, WalkOver, Checking
  <2>3. PICK V \in SUBSET Nat : Behind(V) /\ \A j \in V : ~IsMAAt(j)
    BY <1>11 DEF WalkDone, VerdictInv, OnTrail
  <2>4. Offsets(d.body, d.declared) \subseteq V \cup {i}
    BY <2>2, <2>3, NothingElse
  <2>5. ~CarriesMA(d.body, d.declared)
    <3> SUFFICES ASSUME NEW k \in Offsets(d.body, d.declared), HasAttribute(d.declared, k),
                        d.body[k + 1] = MAType, d.body[k + 2] = MALen
                 PROVE  FALSE
      BY DEF CarriesMA
    <3>1. k # i
      BY <2>2 DEF HasAttribute
    <3>2. k \in V
      BY <2>4, <3>1
    <3> QED
      BY <2>3, <3>2 DEF IsMAAt
  <2> QED
    BY <1>11, <2>1, <2>5 DEF WalkDone, VerdictInv, Checking, OnTrail, KnownMA, ReportedExactly
<1>12. CASE MacRejected
  BY <1>12, EndsWithout DEF MacRejected, VerdictInv, KnownMA, Codes
<1>13. CASE MacPassed
  <2>1. OnTrail'
    BY <1>0, <1>13, TrailStarts DEF MacPassed, Checking
  <2> QED
    BY <1>13, <2>1 DEF MacPassed, VerdictInv, Checking, KnownMA, MacFits, ReportedExactly
<1>14. CASE Report
  BY <1>0, <1>14 DEF Report, End, VerdictInv, Checking, OnTrail, KnownMA, MacFits,
     ReportedExactly, Codes, Framed
<1>15. CASE Over
  BY <1>1, <1>15 DEF Over
<1> QED
  BY <1>1, <1>2, <1>3, <1>4, <1>5, <1>6, <1>7, <1>8, <1>9, <1>10, <1>11, <1>12, <1>13,
     <1>14, <1>15 DEF Next

(* A verdict is reported for exactly the answers that deserve it, whatever *)
(* their bytes: the parser and the walk of verifyMessageAuthenticator find *)
(* the same attributes (exchange).                                         *)
THEOREM ReportedExactlyCorrect == Spec => []ReportedExactly
<1>1. VerdictInv => ReportedExactly
  BY DEF VerdictInv
<1>2. Inv /\ VerdictInv /\ [Next]_vars => (Inv /\ VerdictInv)'
  BY InvStep, VerdictStep
<1> QED
  BY InvInit, VerdictInit, <1>1, <1>2, PTL DEF Spec

-------------------------------------------------------------------------------
(* How much an exchange has left to do: the checks to come, and the bytes  *)
(* that the loops may still read.                                          *)
Unread == d.declared - i
Left == CASE at = "send"    -> 3 * MaxBody + 7
          [] at = "auth"    -> 3 * MaxBody + 6
          [] at = "maParse" -> 2 * MaxBody + 5 + Unread
          [] at = "walk"    -> MaxBody + 4 + Unread
          [] at = "mac"     -> MaxBody + 3
          [] at = "parse"   -> 2 + Unread
          [] at = "report"  -> 1
          [] at = "ended"   -> 0

LEMMA LeftType == Inv => Left \in 0 .. 3 * MaxBody + 7
<1> SUFFICES ASSUME Inv PROVE Left \in 0 .. 3 * MaxBody + 7
  OBVIOUS
<1>1. /\ d.declared \in Int /\ i \in Nat
      /\ at \in {"maParse", "walk", "parse"} => Unread \in 0 .. MaxBody
  BY BodyType DEF Inv, LoopInv, Framed, Unread
<1>2. at \in {"send", "auth", "maParse", "walk", "mac", "parse", "report", "ended"}
  BY DEF Inv, TypeOK
<1> QED
  BY <1>1, <1>2 DEF Left

LEMMA LeftStep == Inv /\ Inv' /\ [Next]_vars => [Left' < Left]_vars
<1> SUFFICES ASSUME Inv, Inv', Next, ~UNCHANGED vars PROVE Left' < Left
  OBVIOUS
<1>0. /\ d.declared \in Int /\ i \in Nat /\ MaxBody \in Nat
      /\ at \in {"maParse", "walk", "parse"} => Unread \in 0 .. MaxBody
      /\ Framed => d.declared \in 0 .. MaxBody
  BY BodyType DEF Inv, LoopInv, Framed, Unread
<1>1. ASSUME NEW what, End(what), at # "ended" PROVE Left' < Left
  <2>1. Left' = 0
    BY <1>1 DEF End, Left
  <2>2. Left > 0
    BY SMTT(20), <1>0, <1>1 DEF Left, Inv, TypeOK
  <2> QED
    BY <2>1, <2>2
<1>2. ASSUME at \in {"maParse", "walk", "parse"}, at' = at, UNCHANGED d,
             i + 2 <= d.declared, ~Overruns, i' = i + length
      PROVE  Left' < Left
  <2>f. LoopInv /\ Framed
    BY <1>2 DEF Inv, LoopInv
  <2>l. length \in Nat
    BY <1>2, <2>f, HeaderType
  <2>1. length \in Nat /\ length >= 2
    BY <1>2, <2>l DEF Overruns
  <2>2. Unread' < Unread /\ Unread \in Int /\ Unread' \in Int
    BY SMTT(20), <1>0, <1>2, <2>1 DEF Unread
  <2> QED
    BY <1>0, <1>2, <2>2 DEF Left
<1>3. CASE NoAnswer
  BY <1>1, <1>3 DEF NoAnswer
<1>4. CASE Receive
  BY <1>0, <1>4 DEF Receive, Left
<1>5. CASE AuthRejected
  BY <1>1, <1>5 DEF AuthRejected
<1>6. CASE AuthPassed
  BY <1>0, <1>6 DEF AuthPassed, Left, Unread, Inv, LoopInv
<1>7. CASE ParseAttribute
  BY <1>2, <1>7 DEF ParseAttribute, Parsing, Sound, InBounds
<1>8. CASE ParseRefused
  BY <1>1, <1>8 DEF ParseRefused, Parsing
<1>9. CASE ParseDone
  BY SMTT(20), <1>0, <1>9 DEF ParseDone, Parsing, Left, Unread
<1>10. CASE WalkAttribute
  BY <1>0, <1>2, <1>10 DEF WalkAttribute, WalkOver, Sound
<1>11. CASE WalkFound
  BY <1>0, <1>11 DEF WalkFound, Left
<1>12. CASE WalkDone
  <2>1. CASE End("panic")
    BY <1>1, <1>12, <2>1 DEF WalkDone
  <2>2. CASE at' = "mac" /\ UNCHANGED <<d, i, attrs, maAt, result>>
    BY <1>0, <1>12, <2>2 DEF WalkDone, Left
  <2> QED
    BY <1>12, <2>1, <2>2 DEF WalkDone
<1>13. CASE MacRejected
  BY <1>1, <1>13 DEF MacRejected
<1>14. CASE MacPassed
  BY <1>0, <1>14 DEF MacPassed, Left, Unread, Inv, LoopInv
<1>15. CASE Report
  BY <1>1, <1>15 DEF Report
<1>16. CASE Over
  BY <1>16 DEF Over
<1> QED
  BY <1>3, <1>4, <1>5, <1>6, <1>7, <1>8, <1>9, <1>10, <1>11, <1>12,
     <1>13, <1>14, <1>15, <1>16 DEF Next

(* For an answer of any bytes: every step leaves less to do, so no loop    *)
(* goes round for ever, whatever the length bytes say (verifyMessageAu-    *)
(* thenticator, parseAttributes).  It is the part of Ends that is left     *)
(* when the exchange is not held up between two steps.                     *)
THEOREM StepsRunOut == Spec => [](Left \in 0 .. 3 * MaxBody + 7) /\ [][Left' < Left]_vars
  BY InvCorrect, LeftType, LeftStep, PTL DEF Spec
==============================================================================
