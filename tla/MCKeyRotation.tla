--------------------------- MODULE MCKeyRotation ---------------------------
(***************************************************************************)
(* Instances of KeyRotation for TLC.                                       *)
(***************************************************************************)
EXTENDS KeyRotation

CONSTANTS s1, s2

\* One server signs ID tokens with keys the other rotates.
RotateAndSign == {[host |-> s1, role |-> "sign"], [host |-> s2, role |-> "rotate"]}

\* Both servers rotate and one of them publishes the keys.
RotateAndPublish == {[host |-> s1, role |-> "rotate"], [host |-> s2, role |-> "rotate"],
                     [host |-> s1, role |-> "publish"]}
=============================================================================
