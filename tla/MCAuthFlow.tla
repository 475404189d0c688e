----------------------------- MODULE MCAuthFlow -----------------------------
(***************************************************************************)
(* Small instances of AuthFlow.                                            *)
(***************************************************************************)
EXTENDS AuthFlow

CONSTANTS a1, a2, ldap, github, u1, h1, h2, h3, g1, g2
=============================================================================
