----------------------------- MODULE MCOtpExchange -----------------------------
EXTENDS OtpExchange

CONSTANTS art, good

(* The seed packet, the guesses, and the probes. *)
MCRequests ==
    [ma : {"valid"}, kind : {"plain"}, name : {SeedUser}, cred : {SeedPwd} \cup (OTPMin .. OTPMax),
     attr60 : {FALSE}, id : {0}, state : Token \cup {NoState, Foreign}]

Probes == <<"bit_flip", "drop">>
===============================================================================
