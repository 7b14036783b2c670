----------------------------- MODULE MCMockServer -----------------------------
(* An instance of MockServer for TLC: in each mode the requests are one    *)
(* representative of every way through its handler.                        *)
EXTENDS MockServer

CONSTANTS art, bob, good, bad, otp

Base == [ma |-> "valid", kind |-> "plain", name |-> art, cred |-> good,
         attr60 |-> FALSE, id |-> 0, state |-> NoState]

PapRequests ==
    [ma : {"absent", "valid", "invalid"}, kind : {"plain"}, name : {art, bob},
     cred : {good, bad}, attr60 : {FALSE}, id : {0}, state : {NoState}]

OtpRequests ==
    { Base,
      [Base EXCEPT !.ma = "absent"],
      [Base EXCEPT !.cred = bad],
      [Base EXCEPT !.name = bob],
      [Base EXCEPT !.cred = otp, !.state = Foreign] }
    \cup [ma : {"valid", "invalid"}, kind : {"plain"}, name : {bob},
          cred : {otp, bad}, attr60 : {FALSE}, id : {0}, state : Token]

ChapRequests ==
    {[Base EXCEPT !.kind = "malformed"]} \cup
    [ma : {"valid"}, kind : {"plain"}, name : {art, bob}, attr60 : BOOLEAN, id : {0},
     cred : [id : {0}, pwd : {good, bad}, chal : {"attr60", "authenticator"}], state : {NoState}]

EapRequests ==
    LET identity == [Base EXCEPT !.kind = "identity"]
        answers  == [ma : {"valid"}, kind : {"md5"}, name : {art}, attr60 : {FALSE}, id : Id,
                     cred : [id : Id, pwd : {good}, chal : Token], state : Token]
    IN  { [identity EXCEPT !.id = i] : i \in Id }
        \cup { [identity EXCEPT !.name = bob],
               [identity EXCEPT !.ma = "absent"],
               [Base EXCEPT !.kind = "other"],
               [Base EXCEPT !.kind = "md5"] }
        \cup { [r EXCEPT !.kind = "md5short"] : r \in {a \in answers : a.cred.id = 0 /\ a.id = 0} }
        \cup { r \in answers : r.cred.chal = r.state /\ r.id = r.cred.id }

MCRequests ==
    [m \in Modes |-> CASE m = "pap" -> PapRequests [] m = "pap+otp" -> OtpRequests
                       [] m = "chap" -> ChapRequests [] m = "eap-md5" -> EapRequests]
===============================================================================
