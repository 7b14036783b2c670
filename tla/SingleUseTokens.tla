--------------------------- MODULE SingleUseTokens ---------------------------
(***************************************************************************)
(* The life of a value that is handed out once and may be answered once:   *)
(* the State of a challenge of the mock RADIUS server (MockServer), and    *)
(* the state of a login at an OIDC client (OidcLogin).  A token is issued  *)
(* once, one answer claims it, and that answer decides it for good.  Both  *)
(* programs implement this with a map, a mutex, and one goroutine for each *)
(* datagram or request.                                                    *)
(***************************************************************************)
CONSTANT Token      \* the values that are handed out

VARIABLE status     \* status[t]: how far the challenge or login of t has got

Status == {"unissued", "open", "claimed", "accepted", "rejected"}

Init == status = [t \in Token |-> "unissued"]

Move(t, from, to) ==
    /\ status[t] = from
    /\ status' = [status EXCEPT ![t] = to]

(* A challenge or login is opened under a token never used before. *)
Issue(t) == Move(t, "unissued", "open")

(* One answer takes the token; every other answer finds nothing. *)
Claim(t) == Move(t, "open", "claimed")

(* The answer that took the token is judged. *)
Accept(t) == Move(t, "claimed", "accepted")
Reject(t) == Move(t, "claimed", "rejected")

Next == \E t \in Token : Issue(t) \/ Claim(t) \/ Accept(t) \/ Reject(t)

Spec == Init /\ [][Next]_status
==============================================================================
