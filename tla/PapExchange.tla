----------------------------- MODULE PapExchange -----------------------------
(***************************************************************************)
(* runPAP of the v2 client (src/RADIUS/client/v2/pap.go): one request, one *)
(* answer, and the checks of exchange on the bytes of that answer:         *)
(* verifyResponseAuth and parseAttributes (challenge.go) and               *)
(* verifyMessageAuthenticator (messageAuthenticator.go).  The last walks   *)
(* the attributes a second time by itself, so the loops are modelled step  *)
(* by step, with the index each of them reads.                             *)
(*                                                                         *)
(* Offsets count from the end of the header of 20 bytes.  A digest is what *)
(* it was computed over: MD5 and HMAC-MD5 are taken to be free of          *)
(* collisions, and only the server has the secret.                         *)
(***************************************************************************)
EXTENDS Integers, Sequences, SequencesExt

CONSTANTS
    Byte,       \* the values of type and length bytes that occur
    MaxBody,    \* bytes after the header, at most
    MAType,     \* 80, the type of Message-Authenticator
    MALen       \* 18, its length

ASSUME ByteAssumption == Byte \subseteq Nat /\ MaxBody \in Nat /\ MALen \in Nat /\ MALen >= 2

Codes == {"accept", "reject", "challenge"}

(* body: the bytes after the header; declared: the Length field less 20;   *)
(* short: not even a header.  signed: the authenticator is that of the     *)
(* server for this request, over the code, the length and the declared     *)
(* bytes.  mac: the server computed a Message-Authenticator over them.     *)
Datagrams ==
    [short : BOOLEAN, code : Codes \cup {"other"}, signed : BOOLEAN, mac : BOOLEAN,
     declared : -1 .. MaxBody + 1, body : BoundedSeq(Byte, MaxBody)]

NoDatagram == [short |-> TRUE, code |-> "other", signed |-> FALSE, mac |-> FALSE,
               declared |-> -1, body |-> <<>>]

VARIABLES
    at,     \* the check that runs
    d,      \* the datagram read
    i,      \* the index of the loop that runs
    attrs,  \* the attributes parsed so far
    maAt,   \* maOffset, or -1: no Message-Authenticator found
    result  \* what runPAP prints or returns

vars == <<at, d, i, attrs, maAt, result>>

Init ==
    /\ at = "send" /\ d = NoDatagram /\ i = 0 /\ attrs = <<>> /\ maAt = -1
    /\ result = "none"

End(what) == at' = "ended" /\ result' = what /\ UNCHANGED <<d, i, attrs, maAt>>

(* The length checks that verifyResponseAuth and parseAttributes share. *)
Framed == ~d.short /\ d.declared >= 0 /\ Len(d.body) >= d.declared

(* The type and the length byte at an offset, for a loop that may read up  *)
(* to a bound; a read beyond it panics.                                    *)
InBounds(bound) == i + 2 <= bound
type == d.body[i + 1]
length == d.body[i + 2]
Overruns == length < 2 \/ i + length > d.declared
Sound(bound) == InBounds(bound) /\ ~Overruns

-------------------------------------------------------------------------------
(* sendRawUDP: an error, or any datagram *)
NoAnswer == at = "send" /\ End("network")
Receive ==
    /\ at = "send" /\ at' = "auth"
    /\ d' \in Datagrams
    /\ UNCHANGED <<i, attrs, maAt, result>>

(* verifyResponseAuth *)
AuthRejected == at = "auth" /\ ~(Framed /\ d.signed) /\ End("invalid authenticator")
AuthPassed ==
    /\ at = "auth" /\ Framed /\ d.signed
    /\ at' = "maParse" /\ UNCHANGED <<d, i, attrs, maAt, result>>

(* parseAttributes, called by verifyMessageAuthenticator and by exchange   *)
Parsing == at \in {"maParse", "parse"}
Refused == IF at = "maParse" THEN "invalid Message-Authenticator" ELSE "parse error"

ParseOver == i >= d.declared \/ d.declared - i < 2

ParseAttribute ==
    /\ Parsing /\ Framed /\ ~ParseOver /\ Sound(d.declared)
    /\ attrs' = Append(attrs, [type |-> type, len |-> length])
    /\ i' = i + length
    /\ UNCHANGED <<at, d, maAt, result>>
ParseRefused ==
    /\ Parsing
    /\ ~(Framed /\ (ParseOver \/ Sound(d.declared)))
    /\ End(IF Framed /\ ~InBounds(d.declared) THEN "panic" ELSE Refused)
ParseDone ==
    /\ Parsing /\ Framed /\ ParseOver
    /\ at' = IF at = "maParse" THEN "walk" ELSE "report"
    /\ i' = 0 /\ attrs' = IF at = "maParse" THEN <<>> ELSE attrs
    /\ UNCHANGED <<d, maAt, result>>

(* The walk of verifyMessageAuthenticator, over the whole datagram. *)
WalkOverByIndex == i >= d.declared                                \* faulty
WalkOver == d.declared - i < 2
IsMA == type = MAType /\ length = MALen

WalkValueOnly ==                                                  \* faulty
    /\ at = "walk" /\ ~WalkOver /\ Sound(Len(d.body)) /\ ~IsMA
    /\ i' = i + length - 2
    /\ UNCHANGED <<at, d, attrs, maAt, result>>
WalkAttribute ==
    /\ at = "walk" /\ ~WalkOver /\ Sound(Len(d.body)) /\ ~IsMA
    /\ i' = i + length
    /\ UNCHANGED <<at, d, attrs, maAt, result>>
WalkFoundAny ==                                                   \* faulty
    /\ at = "walk" /\ ~WalkOver /\ InBounds(Len(d.body)) /\ type = MAType
    /\ maAt' = i + 2 /\ at' = "mac"
    /\ UNCHANGED <<d, i, attrs, result>>
WalkFound ==
    /\ at = "walk" /\ ~WalkOver /\ Sound(Len(d.body)) /\ IsMA
    /\ maAt' = i + 2 /\ at' = "mac"
    /\ UNCHANGED <<d, i, attrs, result>>
WalkDone ==
    /\ at = "walk" /\ ~(~WalkOver /\ Sound(Len(d.body)))
    /\ IF WalkOver \/ InBounds(Len(d.body))
       THEN at' = "mac" /\ UNCHANGED <<d, i, attrs, maAt, result>>
       ELSE End("panic")

(* The HMAC covers the whole datagram, what follows the declared length    *)
(* included.                                                               *)
MacFits == d.mac /\ Len(d.body) = d.declared
MacRejected == at = "mac" /\ maAt >= 0 /\ ~MacFits /\ End("invalid Message-Authenticator")
MacPassed ==
    /\ at = "mac" /\ (maAt >= 0 => MacFits)
    /\ at' = "parse" /\ i' = 0
    /\ UNCHANGED <<d, attrs, maAt, result>>

(* switch resp[0] *)
Report == at = "report" /\ End(IF d.code \in Codes THEN d.code ELSE "unknown code")

Over == at = "ended" /\ UNCHANGED vars

Next ==
    \/ NoAnswer \/ Receive \/ AuthRejected \/ AuthPassed
    \/ ParseAttribute \/ ParseRefused \/ ParseDone
    \/ WalkAttribute \/ WalkFound \/ WalkDone
    \/ MacRejected \/ MacPassed \/ Report \/ Over

Spec == Init /\ [][Next]_vars
FairSpec == Spec /\ WF_vars(Next)
-------------------------------------------------------------------------------
(* The loops keep to the datagram, and what they find are offsets in it.   *)
TypeOK ==
    /\ at \in {"send", "auth", "maParse", "walk", "mac", "parse", "report", "ended"}
    /\ i \in 0 .. MaxBody
    /\ maAt = -1 \/ (maAt \in Nat /\ maAt + MALen - 2 <= d.declared)
    /\ attrs \in Seq([type : Byte, len : 2 .. MaxBody])

(* Whatever bytes arrive, no check reads beyond what it was given: not for *)
(* a length that lies, nor for a single byte left over at the end.         *)
NeverReadsBeyond == result # "panic"

(* Where the attributes of n bytes start and end, by one definition: the   *)
(* least set that has the offset 0 and, with the offset of an attribute,   *)
(* that of its end; -1 stands for the end of one that makes no sense.      *)
EndOf(b, n, k) == IF b[k + 2] < 2 \/ k + b[k + 2] > n THEN -1 ELSE k + b[k + 2]
HasAttribute(n, k) == k >= 0 /\ n - k >= 2
Closed(b, n, S) == 0 \in S /\ \A k \in S : HasAttribute(n, k) => EndOf(b, n, k) \in S
Offsets(b, n) ==
    LET closed == {S \in SUBSET (-1 .. n) : Closed(b, n, S)}
    IN  {k \in -1 .. n : \A S \in closed : k \in S}
Parses(b, n) == -1 \notin Offsets(b, n)
CarriesMA(b, n) ==
    \E k \in Offsets(b, n) : HasAttribute(n, k) /\ b[k + 1] = MAType /\ b[k + 2] = MALen

(* A verdict is reported exactly for the answers that deserve it: signed   *)
(* by the server for this request, with attributes that parse, and with a  *)
(* right Message-Authenticator if there is one among them; the two loops   *)
(* over the attributes agree.  With a Message-Authenticator, bytes after   *)
(* the declared length spoil an answer that is good without them.          *)
ReportedExactly ==
    at = "ended" =>
        (result \in Codes <=>
            /\ Framed /\ d.signed /\ d.code \in Codes
            /\ Parses(d.body, d.declared)
            /\ CarriesMA(d.body, d.declared) => d.mac /\ Len(d.body) = d.declared)

(* The loops end: the exchange comes to a result whatever it has read.     *)
Ends == <>(at = "ended")
==============================================================================
