------------------------------- MODULE TokenLife -------------------------------
(***************************************************************************)
(* What the session service promises to whoever presents a token: a token  *)
(* is issued once, by a login, and revokes the user's earlier one; a       *)
(* logout records a token of the same user that is not accepted any more;  *)
(* and a token that was revoked is never accepted again.                   *)
(***************************************************************************)
CONSTANTS
  Users,
  Tokens,
  None     \* no token, no user

VARIABLES
  active,  \* the token that is accepted from each user
  issued,  \* the user each token was issued to
  ended    \* the tokens whose end is on record

Init ==
  /\ active = [u \in Users |-> None]
  /\ issued = [k \in Tokens |-> None]
  /\ ended = {}

Login(u) ==
  /\ \E k \in Tokens \ ended :
       /\ issued[k] = None
       /\ active' = [active EXCEPT ![u] = k]
       /\ issued' = [issued EXCEPT ![k] = u]
  /\ UNCHANGED ended

\* The session that a logout ends need not be the one that it records.
Logout(u) ==
  /\ active' \in {active, [active EXCEPT ![u] = None]}
  /\ \/ UNCHANGED ended
     \/ \E k \in Tokens :
          /\ issued[k] = u /\ active'[u] # k
          /\ ended' = ended \cup {k}
  /\ UNCHANGED issued

Next == \E u \in Users : Login(u) \/ Logout(u)

Spec == Init /\ [][Next]_<<active, issued, ended>>
=============================================================================
