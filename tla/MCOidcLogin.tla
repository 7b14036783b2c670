----------------------------- MODULE MCOidcLogin -----------------------------
(* An instance of OidcLogin for TLC. *)
EXTENDS OidcLogin
===============================================================================
