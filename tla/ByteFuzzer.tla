------------------------------- MODULE ByteFuzzer -------------------------------
(***************************************************************************)
(* The v1 RADIUS client, src/RADIUS/client/v1, in its modes "pap", "raw"   *)
(* and "fuzz" (client.go): packets that are built byte by byte             *)
(* (packet.go), mutated (fuzz.go), sent, and printed (dump.go).  The mode  *)
(* "eap-md5" is the module EapExchange.                                    *)
(*                                                                         *)
(* A byte is a number below ByteMod, 256 in the code.  A random value is a *)
(* number of equal bytes.  The authenticator is left out, and with it what *)
(* a password is encrypted to, except for its size.  Texts are their       *)
(* sizes.                                                                  *)
(***************************************************************************)
EXTENDS Integers, FiniteSets, SequencesExt

CONSTANTS
    ByteMod,
    RandomBytes,    \* bound: the bytes random values are made of
    PadSizes,       \* how much oversize-value appends, 200 to 399 bytes
    GarbageSizes,   \* bound: sizes of unknown-type-attr and garbage-attr
    Commands,       \* the command lines
    Responses,      \* what may come back
    NoPacket

Byte == 0 .. ByteMod - 1
AttrUserName == 1
AttrUserPassword == 2

(* -attr; type is -1 for a name that is not in the dictionary or a number  *)
(* out of range, and bad says that the value is not of its kind.           *)
Spec1 == [type : {-1} \cup Byte, kind : {"str", "int", "ip", "hex", "pwd", "odd"},
          size : Nat, bad : BOOLEAN, len : Int]
Command == [mode : {"pap", "raw", "fuzz", "odd"}, expect : STRING, code : {-1} \cup Byte,
            id : Int, attrs : Seq(Spec1), username : Nat, password : Nat, secret : Nat,
            fuzzBase : {"pap", "attrs", "odd"}, iterations : Int]
Received == [kind : {"error", "empty"}] \cup [kind : {"packet"}, code : Byte]

ASSUME FuzzerAssumption ==
    /\ ByteMod \in Nat /\ ByteMod > 32
    /\ RandomBytes \subseteq Byte /\ PadSizes \subseteq Nat /\ GarbageSizes \subseteq Nat
    /\ Commands \subseteq Command /\ Responses \subseteq Received

VARIABLES
    command,
    phase,          \* "build", "send", "mutate", "next" or "ended"
    base,           \* the packet that is sent, or mutated
    pkt,            \* the packet of this iteration
    dumped,         \* the attributes dumpPacket shows of it, when it is called
    i, interesting,
    exit,           \* status of the process, -1 while it runs
    asked           \* history: the packet that was asked for

bvars == <<command, phase, base, pkt, dumped, i, interesting, exit, asked>>

-------------------------------------------------------------------------------
(* packet.go *)

Derived == -1       \* LenOverride, LengthOverride: none
Attr(type, value) == [type |-> type, value |-> value, over |-> Derived]
Zeros(n) == [m \in 1 .. n |-> 0]
Repeat(b, n) == [m \in 1 .. n |-> b]

lengthByteOfValue(a) == IF a.over >= 0 THEN a.over % ByteMod ELSE Len(a.value) % ByteMod \* faulty
lengthByte(a) == IF a.over >= 0 THEN a.over % ByteMod ELSE (2 + Len(a.value)) % ByteMod

Body(p) == FlattenSeq([n \in DOMAIN p.attrs |->
                          <<p.attrs[n].type, lengthByte(p.attrs[n])>> \o p.attrs[n].value])
Build(p) ==
    LET field == IF p.over >= 0 THEN p.over ELSE 20 + Len(Body(p))
    IN  [code |-> p.code, id |-> p.id, length |-> field % (ByteMod * ByteMod), body |-> Body(p)]

(* NewUserPassword of the library: RFC 2865 has room for 128 octets.       *)
Encrypts(size) == size <= 128 /\ command.secret > 0

(* parseAttrSpec: ;len= below zero is as if it were not there.             *)
PayloadSize(s) ==
    CASE s.kind \in {"str", "hex"} -> s.size
      [] s.kind \in {"int", "ip"} -> 4
      [] s.kind = "pwd" -> IF s.size = 0 THEN 16 ELSE 16 * ((s.size + 15) \div 16)
Parses(s) == s.type # -1 /\ s.kind # "odd" /\ ~s.bad /\ (s.kind = "pwd" => Encrypts(s.size))
parseAttrSpec(s) == [type |-> s.type, value |-> Zeros(PayloadSize(s)), over |-> s.len]

-------------------------------------------------------------------------------
(* dump.go *)

(* Attributes as far as the length bytes lead; the first one that cannot   *)
(* be is the last.                                                         *)
decodeAttrs(b) ==
    LET From[o \in 1 .. Len(b) + 1] ==
            LET left == Len(b) - o + 1
                declared == b[o + 1]
                Malformed(value) == <<[type |-> b[o], value |-> value, malformed |-> TRUE]>>
            IN  IF left = 0 THEN <<>>
                ELSE IF left < 2 THEN <<[type |-> 0, value |-> <<>>, malformed |-> TRUE]>>
                ELSE IF declared < 2 THEN Malformed(<<>>)
                ELSE IF declared > left THEN Malformed(SubSeq(b, o + 2, Len(b)))
                ELSE <<[type |-> b[o], value |-> SubSeq(b, o + 2, o + declared - 1),
                        malformed |-> FALSE]>> \o From[o + declared]
    IN  From[1]

(* The length field cuts the body if it is within the datagram. *)
Shown(raw) ==
    IF raw.length >= 20 /\ raw.length <= 20 + Len(raw.body)
    THEN SubSeq(raw.body, 1, raw.length - 20) ELSE raw.body
dumpPacket(raw) == decodeAttrs(Shown(raw))

-------------------------------------------------------------------------------
(* fuzz.go: the results of one mutation *)

At(p, n, a) == [p EXCEPT !.attrs[n] = a]
Add(p, a) == [p EXCEPT !.attrs = Append(p.attrs, a)]
RandomValue(sizes) == {Repeat(b, n) : b \in RandomBytes, n \in sizes}

Flipped(v) ==
    {IF (v \div 2^n) % 2 = 0 THEN v + 2^n ELSE v - 2^n : n \in 0 .. 7} \cap Byte
BitflipValue(p) ==
    UNION {UNION {{At(p, n, [p.attrs[n] EXCEPT !.value[m] = b]) : b \in Flipped(p.attrs[n].value[m])} :
                m \in DOMAIN p.attrs[n].value} : n \in DOMAIN p.attrs}
TruncateValue(p) ==
    UNION {{At(p, n, [p.attrs[n] EXCEPT !.value = SubSeq(p.attrs[n].value, 1, m)]) :
                m \in 0 .. Len(p.attrs[n].value) - 1} :
                    n \in {n \in DOMAIN p.attrs : Len(p.attrs[n].value) > 1}}
OversizeValue(p) ==
    UNION {{At(p, n, [p.attrs[n] EXCEPT !.value = p.attrs[n].value \o pad]) :
                pad \in RandomValue(PadSizes)} : n \in DOMAIN p.attrs}
BadLengthByte(p) == {At(p, n, [p.attrs[n] EXCEPT !.over = l]) : n \in DOMAIN p.attrs, l \in Byte}
DuplicateAttr(p) == {Add(p, p.attrs[n]) : n \in DOMAIN p.attrs}
GarbageAttr(p) == {Add(p, Attr(t, v)) : t \in RandomBytes, v \in RandomValue(GarbageSizes)}
EmptyValue(p) == {At(p, n, [p.attrs[n] EXCEPT !.value = <<>>]) : n \in DOMAIN p.attrs}
CorruptTotalLength(p) == {[p EXCEPT !.over = 20 + Len(Body(p)) + d] : d \in -20 .. 20}
InvalidCode(p) == {[p EXCEPT !.code = c] : c \in RandomBytes}
ExtremeId(p) == {[p EXCEPT !.id = b] : b \in {0, 1, ByteMod \div 2 - 1, ByteMod \div 2, ByteMod - 1}}
StripAttributes(p) == {[p EXCEPT !.attrs = <<>>]}

(* p itself: of an attribute, or of a value, there may be none.            *)
fuzzMutation(p) ==
    {p} \cup BitflipValue(p) \cup TruncateValue(p) \cup OversizeValue(p) \cup BadLengthByte(p)
        \cup DuplicateAttr(p) \cup GarbageAttr(p) \cup EmptyValue(p) \cup CorruptTotalLength(p)
        \cup InvalidCode(p) \cup ExtremeId(p) \cup StripAttributes(p)

isKnownResponseCode(r) == r.kind = "packet" /\ r.code \in {2, 3, 11}

-------------------------------------------------------------------------------
(* client.go *)

BInit ==
    /\ command \in Commands
    /\ phase = "build" /\ base = NoPacket /\ pkt = NoPacket /\ dumped = <<>>
    /\ i = 0 /\ interesting = 0 /\ exit = -1 /\ asked = NoPacket

Exit(status) == phase' = "ended" /\ exit' = status

Packet(code, id, attrs) == [code |-> code, id |-> id, attrs |-> attrs, over |-> Derived]

buildPAPPacket(id) ==
    Packet(1, id, << Attr(AttrUserName, Zeros(command.username)),
                     Attr(AttrUserPassword, Zeros(IF command.password = 0 THEN 16
                                                  ELSE 16 * ((command.password + 15) \div 16))) >>)
buildRawPacketFromFlags(id) ==
    Packet(command.code, IF command.id >= 0 THEN command.id % ByteMod ELSE id,
           [n \in DOMAIN command.attrs |-> parseAttrSpec(command.attrs[n])])

FromFlags == command.mode = "raw" \/ (command.mode = "fuzz" /\ command.fuzzBase = "attrs")
Builds ==
    /\ command.mode # "odd"
    /\ command.mode = "fuzz" => command.fuzzBase # "odd"
    /\ FromFlags => /\ command.code # -1
                    /\ \A n \in DOMAIN command.attrs : Parses(command.attrs[n])
    /\ ~FromFlags => Encrypts(command.password)

(* main, up to the packet; log.Fatalf if it cannot be built *)
BuildBase ==
    /\ phase = "build"
    /\ IF ~Builds THEN Exit(1) /\ UNCHANGED <<base, asked>>
       ELSE /\ \E id \in RandomBytes :
                base' = IF FromFlags THEN buildRawPacketFromFlags(id) ELSE buildPAPPacket(id)
            /\ asked' = base'
            /\ phase' = IF command.mode = "fuzz" THEN "mutate" ELSE "send"
            /\ UNCHANGED exit
    /\ UNCHANGED <<command, pkt, dumped, i, interesting>>

(* checkExpectation: other codes have the names of the library.            *)
Got(code) == CASE code = 2 -> "accept" [] code = 3 -> "reject" [] code = 11 -> "challenge"
               [] code = 1 -> "Access-Request" [] OTHER -> "another"
checkExpectation(code) == IF command.expect \in {"any", Got(code)} THEN 0 ELSE 1

(* testPAP and the mode raw: exchangeVerbose, then the first byte, which   *)
(* need not be there.                                                      *)
Exchange ==
    /\ phase = "send"
    /\ pkt' = base /\ dumped' = dumpPacket(Build(base))
    /\ \E r \in Responses :
        CASE r.kind = "error" -> Exit(1)
          [] r.kind = "empty" -> Exit(2)
          [] r.kind = "packet" -> Exit(checkExpectation(r.code))
    /\ UNCHANGED <<command, base, i, interesting, asked>>

(* runFuzz: an iteration mutates a copy of base. *)
MutateShared ==                                                  \* faulty
    /\ phase = "mutate" /\ i < command.iterations
    /\ pkt' \in fuzzMutation(base) /\ base' = pkt'
    /\ dumped' = dumpPacket(Build(pkt'))
    /\ phase' = "next"
    /\ UNCHANGED <<command, i, interesting, exit, asked>>
Mutate ==
    /\ phase = "mutate" /\ i < command.iterations
    /\ pkt' \in fuzzMutation(base)
    /\ dumped' = dumpPacket(Build(pkt'))
    /\ phase' = "next"
    /\ UNCHANGED <<command, base, i, interesting, exit, asked>>

ExchangeRawUnguarded ==                                          \* faulty
    /\ phase = "next"
    /\ \E r \in Responses :
        IF r.kind = "empty" THEN Exit(2) /\ UNCHANGED <<i, interesting>>
        ELSE /\ interesting' = IF isKnownResponseCode(r) THEN interesting ELSE interesting + 1
             /\ i' = i + 1 /\ phase' = "mutate" /\ UNCHANGED exit
    /\ pkt' = NoPacket /\ dumped' = <<>>
    /\ UNCHANGED <<command, base, asked>>
ExchangeRaw ==
    /\ phase = "next"
    /\ \E r \in Responses :
        interesting' = IF isKnownResponseCode(r) THEN interesting ELSE interesting + 1
    /\ i' = i + 1 /\ phase' = "mutate"
    /\ pkt' = NoPacket /\ dumped' = <<>>
    /\ UNCHANGED <<command, base, exit, asked>>

Done ==
    /\ phase = "mutate" /\ i >= command.iterations
    /\ Exit(0)
    /\ UNCHANGED <<command, base, pkt, dumped, i, interesting, asked>>

BClient == BuildBase \/ Exchange \/ Mutate \/ ExchangeRaw \/ Done
BNext == BClient \/ (phase = "ended" /\ UNCHANGED bvars)

(* The client is sequential, and every read has a deadline (exchangeRaw).  *)
BSpec == BInit /\ [][BNext]_bvars /\ WF_bvars(BClient)

-------------------------------------------------------------------------------
(* The dump can be trusted as far as the packet can: with a true length    *)
(* byte on every attribute and nothing cut off it shows the attributes as  *)
(* they were asked for; otherwise it shows those before the first          *)
(* attribute whose length byte is not its size, or that is cut; and only   *)
(* the last line is marked as malformed (dump.go: a "best-effort, tolerant *)
(* parse").                                                                *)
Truthful(a) == IF a.over >= 0 THEN a.over % ByteMod = 2 + Len(a.value) ELSE 2 + Len(a.value) < ByteMod
SizeOf(attrs) == Len(FlattenSeq([n \in DOMAIN attrs |-> <<0, 0>> \o attrs[n].value]))
DumpFaithful ==
    pkt # NoPacket =>
        LET shown == Len(Shown(Build(pkt)))
            Told(n) == /\ \A m \in 1 .. n : Truthful(pkt.attrs[m])
                       /\ SizeOf(SubSeq(pkt.attrs, 1, n)) <= shown
        IN  /\ \A n \in DOMAIN pkt.attrs : Told(n) =>
                  /\ n <= Len(dumped) /\ ~dumped[n].malformed
                  /\ dumped[n].type = pkt.attrs[n].type /\ dumped[n].value = pkt.attrs[n].value
            /\ Told(Len(pkt.attrs)) /\ shown = SizeOf(pkt.attrs) => Len(dumped) = Len(pkt.attrs)
            /\ \A n \in DOMAIN dumped : dumped[n].malformed => n = Len(dumped)

(* However many packets went before, the one of this iteration is the      *)
(* packet asked for with at most one thing done to it: a header field, a   *)
(* value, a length byte, an attribute more, or no attributes (fuzz.go:     *)
(* "one random structural mutation to a copy of base").                    *)
OneMutation ==
    phase = "next" =>
        \/ pkt.attrs = asked.attrs
           /\ Cardinality({f \in {"code", "id", "over"} : pkt[f] # asked[f]}) <= 1
        \/ /\ pkt.attrs # asked.attrs /\ pkt = [asked EXCEPT !.attrs = pkt.attrs]
           /\ \/ pkt.attrs = <<>>
              \/ Front(pkt.attrs) = asked.attrs
              \/ /\ Len(pkt.attrs) = Len(asked.attrs)
                 /\ \E n \in DOMAIN asked.attrs :
                    /\ \A m \in DOMAIN asked.attrs \ {n} : pkt.attrs[m] = asked.attrs[m]
                    /\ pkt.attrs[n].type = asked.attrs[n].type
                    /\ pkt.attrs[n].value = asked.attrs[n].value \/ pkt.attrs[n].over = asked.attrs[n].over

(* A fuzz run reaches its last iteration and ends with status 0 whatever   *)
(* comes back, an error or a datagram without a byte included; in the      *)
(* modes of one packet the latter is a panic (client.go:123, 295).         *)
FuzzReachesItsEnd == command.mode = "fuzz" /\ phase = "mutate" ~> exit = 0
===============================================================================
