------------------------------- MODULE AttrSpecs -------------------------------
(***************************************************************************)
(* Attributes as the YAML scenarios of the v2 RADIUS client describe them  *)
(* (AttrSpec, src/RADIUS/client/v2/config.go), how they go on the wire     *)
(* (packet.go), and the mutators of a fuzz scenario (fuzz.go).             *)
(*                                                                         *)
(* A value is kept as what the encoder asks of it: the form of its text    *)
(* and the number of its bytes.  A mutator that draws random numbers is    *)
(* the set of its results.                                                 *)
(***************************************************************************)
EXTENDS Integers, FiniteSets, SequencesExt

CONSTANTS
    OtherTypes,     \* attribute types without a treatment of their own
    NoLength,       \* no length: override
    NoTarget        \* a strategy without target:

UserPassword == "User-Password"
MessageAuthenticator == "Message-Authenticator"
NASIPAddress == "NAS-IP-Address"      \* stands for the four of ipv4Attrs
UnknownType == "unknown"              \* a number the dictionary does not list
Type == {UserPassword, MessageAuthenticator, NASIPAddress, UnknownType} \cup OtherTypes

(* "text" is literal, "ipv4" is text that reads as a dotted quad, "hex" is *)
(* hex:..., "badhex" is hex: with digits that do not decode, and "marked"  *)
(* is text that contains <FUZZ>.  bytes counts what decodeAttrValue yields *)
(* (for "badhex", the characters).                                         *)
Form == {"text", "ipv4", "hex", "badhex", "marked"}
Sized(a) == a.form = "ipv4" => a.bytes <= 45     \* net.ParseIP reads no longer text
Attr == {a \in [type : Type, form : Form, bytes : Nat, length : {NoLength} \cup 0 .. 255] :
            Sized(a)}

-------------------------------------------------------------------------------
(* The encoder. *)

(* encryptPAP pads to the next multiple of 16, the empty password to 16.   *)
Padded(n) == IF n = 0 THEN 16 ELSE 16 * ((n + 15) \div 16)

EncryptsPassword(a) == a.type = UserPassword /\ a.length = NoLength /\ a.form \notin {"hex", "badhex"}
ComputesAuthenticator(a) ==
    a.type = MessageAuthenticator /\ a.form = "text" /\ a.bytes = 0 /\ a.length = NoLength

(* The bytes of value that appendAttrSpec puts on the wire. *)
ValueOnWire(a) ==
    IF EncryptsPassword(a) THEN Padded(a.bytes)
    ELSE IF ComputesAuthenticator(a) THEN 16
    ELSE IF a.type = NASIPAddress /\ a.form = "ipv4" THEN 4
    ELSE a.bytes

(* The Length byte beside them; without an override it wraps (appendAttr). *)
DeclaredLength(a) ==
    IF a.length # NoLength THEN a.length ELSE (2 + ValueOnWire(a)) % 256

(* The Length byte tells the true size of the attribute. *)
Truthful(a) == DeclaredLength(a) = 2 + ValueOnWire(a)

(* buildPacketFromSpec: a value that is not hex after all, or a second     *)
(* Message-Authenticator to compute, is an error.                          *)
Builds(attrs) ==
    /\ \A k \in DOMAIN attrs : attrs[k].form # "badhex"
    /\ Cardinality({k \in DOMAIN attrs : ComputesAuthenticator(attrs[k])}) <= 1

-------------------------------------------------------------------------------
(* The mutators.  Each yields attrs unchanged when it has nothing to do.   *)

Hex(a, n) == [a EXCEPT !.form = "hex", !.bytes = n, !.length = NoLength]

(* targetIndex: the first attribute of the target's type, or any one.      *)
Targets(attrs, target) ==
    IF target = NoTarget THEN DOMAIN attrs
    ELSE {k \in DOMAIN attrs : /\ attrs[k].type = target
                               /\ \A l \in 1 .. k - 1 : attrs[l].type # target}

OrUnchanged(results, attrs) == IF results = {} THEN {attrs} ELSE results

Clamp(n) == IF n < 0 THEN 0 ELSE IF n > 255 THEN 255 ELSE n

(* actual counts the value as decodeAttrValue sees it *)
LengthMismatch(attrs, target) ==
    OrUnchanged(UNION
        { LET actual == 2 + attrs[k].bytes
              deltas == {1 - actual, -5, -2, -1, 1, 2, 5, 255 - actual}
          IN  { [attrs EXCEPT ![k].length = Clamp(actual + d)] : d \in deltas }
          : k \in Targets(attrs, target) }, attrs)

Duplicate(attrs, target) ==
    OrUnchanged({InsertAt(attrs, k + 1, attrs[k]) : k \in Targets(attrs, target)}, attrs)

MissingRequired(attrs, target) ==
    OrUnchanged({RemoveAt(attrs, k) : k \in Targets(attrs, target)}, attrs)

OversizedValue(attrs, target) ==
    OrUnchanged({[attrs EXCEPT ![k] = Hex(@, 300)] : k \in Targets(attrs, target)}, attrs)

EmptyValue(attrs, target) ==
    OrUnchanged({[attrs EXCEPT ![k] = Hex(@, 0)] : k \in Targets(attrs, target)}, attrs)

ChangeType(attrs, target) ==
    OrUnchanged({[attrs EXCEPT ![k].type = UnknownType] : k \in Targets(attrs, target)}, attrs)

(* bit_flip and truncate need a value to work on.  Without a target they   *)
(* try ten attributes at random, which may all turn out empty.             *)
NonEmpty(attrs, target) == {k \in Targets(attrs, target) : attrs[k].bytes > 0}
MayGiveUp(attrs, target, results) ==
    IF NonEmpty(attrs, target) = Targets(attrs, target) /\ results # {}
    THEN results ELSE results \cup {attrs}

BitFlip(attrs, target) ==
    MayGiveUp(attrs, target,
        {[attrs EXCEPT ![k] = Hex(@, attrs[k].bytes)] : k \in NonEmpty(attrs, target)})

TruncateKeepingLength(attrs, target) ==                           \* faulty
    MayGiveUp(attrs, target, UNION
        {{[attrs EXCEPT ![k].form = "hex", ![k].bytes = n, ![k].length = Clamp(2 + attrs[k].bytes)]
            : n \in 0 .. attrs[k].bytes - 1} : k \in NonEmpty(attrs, target)})
Truncate(attrs, target) ==
    MayGiveUp(attrs, target, UNION
        {{[attrs EXCEPT ![k] = Hex(@, n)] : n \in 0 .. attrs[k].bytes - 1}
            : k \in NonEmpty(attrs, target)})

TamperAuthenticator(attrs) ==
    OrUnchanged({[attrs EXCEPT ![k] = Hex(@, 16)] : k \in Targets(attrs, MessageAuthenticator)}, attrs)

(* The marker is replaced by line, [form, bytes]; alone in its value, the  *)
(* line becomes the value.                                                 *)
Marked(attrs) == {k \in DOMAIN attrs : attrs[k].form = "marked"}
MarkedRange(attrs, line) ==
    LET k == CHOOSE k \in Marked(attrs) : \A l \in Marked(attrs) : k <= l
    IN  {[attrs EXCEPT ![k].form = line.form, ![k].bytes = line.bytes, ![k].length = NoLength]}

Line == {l \in [form : Form, bytes : Nat] : Sized(l)}

Targetable == {"length_mismatch", "duplicate", "missing_required", "oversized_value",
               "empty_value", "unknown_type", "bit_flip", "truncate"}
Strategy == Targetable \cup {"message_authenticator_tamper", "marked_range"}

Mutations(strategy, attrs, target) ==
    CASE strategy = "length_mismatch"  -> LengthMismatch(attrs, target)
      [] strategy = "duplicate"        -> Duplicate(attrs, target)
      [] strategy = "missing_required" -> MissingRequired(attrs, target)
      [] strategy = "oversized_value"  -> OversizedValue(attrs, target)
      [] strategy = "empty_value"      -> EmptyValue(attrs, target)
      [] strategy = "unknown_type"     -> ChangeType(attrs, target)
      [] strategy = "bit_flip"         -> BitFlip(attrs, target)
      [] strategy = "truncate"         -> Truncate(attrs, target)
      [] strategy = "message_authenticator_tamper" -> TamperAuthenticator(attrs)
===============================================================================
