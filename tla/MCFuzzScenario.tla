---------------------------- MODULE MCFuzzScenario ----------------------------
EXTENDS FuzzScenario

A(type, form, bytes) == [type |-> type, form |-> form, bytes |-> bytes, length |-> NoLength]
S(name) == [strategy |-> name, target |-> NoTarget]
On(name, type) == [strategy |-> name, target |-> type]

(* A request with a marker, an address and a Message-Authenticator to      *)
(* compute.  The name is as long as an attribute may be, and the password  *)
(* as long as one may be that is encrypted in blocks of 16.                *)
Request == <<A("User-Name", "marked", 253), A(UserPassword, "text", 239),
             A(NASIPAddress, "ipv4", 9),
             A(MessageAuthenticator, "text", 0)>>

(* Every strategy, and marked_range at every third turn: its second line,  *)
(* which cannot be encoded, does not meet a health check.                  *)
Everything == <<S("marked_range"), S("missing_required"), S("bit_flip"),
                S("marked_range"), S("truncate"), S("unknown_type"),
                S("marked_range"), S("message_authenticator_tamper"), S("empty_value"),
                S("oversized_value"), On("length_mismatch", UserPassword),
                On("duplicate", "User-Name")>>
DuplicateAny == <<S("duplicate")>>

NoLines == <<>>
Lines == <<[form |-> "text", bytes |-> 240], [form |-> "badhex", bytes |-> 5],
           [form |-> "hex", bytes |-> 2]>>
===============================================================================
