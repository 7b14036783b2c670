---------------------------- MODULE MCPapExchange ----------------------------
(* Instances of PapExchange for TLC: lengths that are too small, fit and   *)
(* overrun; a Message-Authenticator without its sixteen bytes.             *)
EXTENDS PapExchange
MCByte == {0, 2, 3, 9}
==============================================================================
