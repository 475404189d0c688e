-------------------------- MODULE MCRefreshTokens --------------------------
(***************************************************************************)
(* Small instances of RefreshTokens.                                       *)
(***************************************************************************)
EXTENDS RefreshTokens, TLC

CONSTANTS r1, r2, r3, A, B, k1, k2, k3

\* Two logins for client A and one for client B; all ask for offline_access.
TwoClients == (k1 :> A) @@ (k2 :> A) @@ (k3 :> B)
RequestSymmetry == Permutations(Requests)
=============================================================================
