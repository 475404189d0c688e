------------------------- MODULE MCResponsiveImages -------------------------
(* Instances of ResponsiveImages for TLC. *)
EXTENDS ResponsiveImages

\* A default first or last, and none.
MCRuleSets == {<<0, 1, 2>>, <<2, 1, 0>>, <<1, 2>>, <<0, 0, 1>>}
=============================================================================
