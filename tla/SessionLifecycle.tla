-------------------------- MODULE SessionLifecycle --------------------------
(***************************************************************************)
(* What a login session promises, said without tokens, requests or         *)
(* statements: a session is opened once, may be closed once, and a closed  *)
(* session is never open again.  RefreshTokens implements this module      *)
(* under the mapping  life <- SessionLife.                                 *)
(***************************************************************************)
CONSTANT Sessions

VARIABLE life

States == {"none", "open", "closed"}

Init == life = [s \in Sessions |-> "none"]

\* A code exchange stores a new session row.
Open(s) == /\ life[s] = "none"
           /\ life' = [life EXCEPT ![s] = "open"]

\* The last thing that could produce a usable refresh token is gone.
Close(s) == /\ life[s] = "open"
            /\ life' = [life EXCEPT ![s] = "closed"]

Next == \E s \in Sessions : Open(s) \/ Close(s)

Spec == Init /\ [][Next]_life

=============================================================================
