---------------------------- MODULE MCEapExchange ----------------------------
(* Instances of EapExchange for TLC. *)
EXTENDS EapExchange

CONSTANTS art, good, bad

(* What this client may send: the identity, and an answer to any challenge. *)
MCRequests ==
    {Identity} \cup
    [ma : {"absent"}, kind : {"md5"}, name : {ClientUser}, attr60 : {FALSE}, id : 0 .. IdMod - 1,
     cred : [id : 0 .. IdMod - 1, pwd : Pwd, chal : Token], state : Token]

(* One answer for each way through testEAPMD5 that the mock server never takes. *)
OddAnswers ==
    { NoAnswer,
      [NoAnswer EXCEPT !.size = "short", !.code = "challenge"],
      [NoAnswer EXCEPT !.size = "short"],
      [NoAnswer EXCEPT !.size = "full", !.code = "challenge"],
      [NoAnswer EXCEPT !.size = "full", !.code = "challenge", !.eap = "truncated"] }
==============================================================================
