-------------------------- MODULE MCElementQueries --------------------------
(***************************************************************************)
(* Instances of ElementQueries for TLC: a responsive image that matches    *)
(* two selectors.                                                          *)
(***************************************************************************)
EXTENDS ElementQueries

Query(mode, property, value, unit) ==
    [mode |-> mode, property |-> property, value |-> value, unit |-> unit]
Rule(sel, query, within) == [sel |-> sel, query |-> query, within |-> within]

MCMatches == [panel |-> {".a", ".b"}]
MCBoxes == {<<1, 2>>, <<2, 1>>}

Media == [type |-> 4, styleSheet |-> "none"]
Import(styleSheet) == [type |-> 3, styleSheet |-> styleSheet]

\* A sheet with an import and a media rule, one that cannot import, one that may
\* not be read, a text.
MCSheets ==
    << [kind |-> "rules", rules |->
          << Rule(".a", Query("max", "width", 5, "px"), {Import("bare")}),
             Rule(".a", Query("min", "width", 2, "cm"), {}),
             Rule(".b", Query("max", "width", 1, "px"), {Media}) >>],
       [kind |-> "rules", rules |->
          << Rule(".a", Query("max", "width", 4, "px"), {Import("own")}),
             Rule(".b", Query("max", "width", 5, "px"), {Import("null")}),
             Rule(".b", Query("min", "height", 1, "px"), {}) >>],
       [kind |-> "denied", rules |-> << Rule(".b", Query("min", "height", 2, "px"), {}) >>],
       [kind |-> "text", rules |->
          << Rule(".a", Query("max", "height", 1, "px"), {}),
             Rule(".a", Query("min", "width", 1, "em"), {}) >>] >>
=============================================================================
