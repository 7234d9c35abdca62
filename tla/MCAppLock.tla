----------------------------- MODULE MCAppLock -----------------------------
(* Instances of AppLock for TLC. *)
EXTENDS AppLock, TLC

CONSTANTS s1, s2, s3, r1, r2

\* Sessions are interchangeable: no definition names one.
SessionSymmetry == Permutations(Sessions)

\* Two tries each; the candidates of r1 and r2 are {0, 1} and {2, 3}.
HashApart == (r1 :> 0 @@ r2 :> 2)
HashOne == (r1 :> 0)

\* Each resource is always locked with the same owner.
OwnersApart == (r1 :> {"Session"} @@ r2 :> {"Transaction"})
OwnersSession == [r \in Resources |-> {"Session"}]
=============================================================================
