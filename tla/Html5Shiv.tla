----------------------------- MODULE Html5Shiv -----------------------------
(***************************************************************************)
(* html5shiv, as modernizr-latest.js includes it: in browsers that do not  *)
(* know the elements of HTML5, the createElement of a document is replaced *)
(* by one that works from clones.  What it keeps for a document is found   *)
(* by a number that it writes into the document, so that documents can be  *)
(* shived again and others (of frames) be shived too.                      *)
(***************************************************************************)
EXTENDS Naturals, FiniteSets

CONSTANTS
    Docs,           \* the documents; the first to be shived is Main
    Main,
    CloneNames,     \* node names of saveClones
    OtherNames      \* node names that are made anew each time

ASSUME ShivAssumption == IsFiniteSet(Docs) /\ Main \in Docs

VARIABLES
    supportsUnknownElements, supportsHtml5Styles,
    html5,          \* the options a script may change
    expanID,
    expando,        \* the number in each document, 0 if undefined
    expandoData,    \* what is kept under each number
    method,         \* whether createElement of each document is replaced
    sheets,         \* style sheets added to each document
    outcome         \* the last element made: for which document, by whom

shivVars == <<supportsUnknownElements, supportsHtml5Styles, html5, expanID, expando,
              expandoData, method, sheets, outcome>>

Names == CloneNames \cup OtherNames
Native(d) == <<"native", d>>
Replaced(d) == <<"replaced", d>>
TypeError(d) == <<"TypeError", d>>
Fresh == [cached |-> FALSE, cache |-> {}, createElem |-> Native(Main), hasCSS |-> FALSE]
Ids == 1 .. Cardinality(Docs)
NoOutcome == [doc |-> Main, by |-> Native(Main)]

-----------------------------------------------------------------------------
\* Unable to tell means unable to help: a browser that throws, or whose
\* fragments cannot make elements, counts as one that knows unknown elements.
SupportsUnknown(b) == "throws" \in b.has \/ "unknown" \in b.has \/ "fragments" \notin b.has
SupportsStyles(b) == "throws" \in b.has \/ "hidden" \in b.has

\* getExpandoData.
ExpandoData(d) ==
    IF expando[d] # 0
      THEN UNCHANGED <<expanID, expando>>
      ELSE /\ expanID' = expanID + 1
           /\ expando' = [expando EXCEPT ![d] = expanID + 1]

\* shivMethods, on the data of a document.  Fault: the method is saved each time.
SaveMethodsAlways(d, data) ==
    [data EXCEPT !.cached = TRUE, !.createElem = method[d]]
SaveMethods(d, data) ==
    IF data.cached THEN data
    ELSE [data EXCEPT !.cached = TRUE, !.createElem = method[d]]

\* addStyleSheet makes a p with the document's createElement, which keeps a clone
\* if it is a replacement.
AddStyleSheet(d, data) ==
    [data EXCEPT !.hasCSS = TRUE,
                 !.cache = IF method[d] = Replaced(d) /\ html5.shivMethods
                             THEN @ \cup ({"p"} \cap CloneNames) ELSE @]

\* shivDocument.

ShivDocument(d) ==
    /\ ExpandoData(d)
    /\ LET id == expando'[d]
           styles == html5.shivCSS /\ ~supportsHtml5Styles /\ ~expandoData[id].hasCSS
       IN  /\ sheets' = [sheets EXCEPT ![d] = IF styles THEN @ + 1 ELSE @]
           /\ expandoData' = [expandoData EXCEPT ![id] =
                LET data == IF styles THEN AddStyleSheet(d, @) ELSE @ IN
                IF supportsUnknownElements THEN data ELSE SaveMethods(d, data)]
    /\ method' = [method EXCEPT ![d] = IF supportsUnknownElements THEN @ ELSE Replaced(d)]
    /\ UNCHANGED <<supportsUnknownElements, supportsHtml5Styles, html5, outcome>>

\* createElement, with the data under a number: from a clone, made and kept if
\* the name is one of saveClones.
FromData(d, name, id) ==
    /\ outcome' = [doc |-> d, by |-> expandoData[id].createElem]
    /\ expandoData' = [expandoData EXCEPT ![id].cache = @ \cup ({name} \cap CloneNames)]

\* html5.createElement(name, d): for a document that was not shived there is no
\* cache, and reading it throws; its number stays.
CreateElement(d, name) ==
    IF supportsUnknownElements
      THEN /\ outcome' = [doc |-> d, by |-> method[d]]
           /\ UNCHANGED <<expanID, expando, expandoData>>
      ELSE /\ ExpandoData(d)
           /\ IF expandoData[expando'[d]].cached
                THEN FromData(d, name, expando'[d])
                ELSE outcome' = [doc |-> d, by |-> TypeError(d)] /\ UNCHANGED expandoData

\* d.createElement(name): the document's own method, or its replacement, which
\* works with the data it was made for.
DocCreateElement(d, name) ==
    /\ UNCHANGED <<expanID, expando>>
    /\ IF method[d] = Native(d)
         THEN outcome' = [doc |-> d, by |-> Native(d)] /\ UNCHANGED expandoData
       ELSE IF ~html5.shivMethods
         THEN outcome' = [doc |-> d, by |-> expandoData[expando[d]].createElem]
              /\ UNCHANGED expandoData
       ELSE FromData(d, name, expando[d])

\* html5.createDocumentFragment(d): a clone of the fragment, on which every
\* element of the list is made once.
CreateDocumentFragment(d) ==
    IF supportsUnknownElements
      THEN /\ outcome' = [doc |-> d, by |-> Native(d)]
           /\ UNCHANGED <<expanID, expando, expandoData>>
      ELSE /\ ExpandoData(d) /\ UNCHANGED expandoData
           /\ outcome' = [doc |-> d, by |-> IF expandoData[expando'[d]].cached
                            THEN expandoData[expando'[d]].createElem ELSE TypeError(d)]

\* d.createDocumentFragment(): the replacement clones the fragment of the data it
\* was made with.
DocCreateDocumentFragment(d) ==
    /\ outcome' = [doc |-> d, by |-> IF method[d] = Native(d) THEN Native(d)
                                      ELSE expandoData[expando[d]].createElem]
    /\ UNCHANGED <<expanID, expando, expandoData>>

\* A script changes html5.shivMethods or html5.shivCSS.
SetOption(options) ==
    /\ html5' = options
    /\ UNCHANGED <<supportsUnknownElements, supportsHtml5Styles, expanID, expando,
                   expandoData, method, sheets, outcome>>

ShivInit(b) ==
    /\ supportsUnknownElements = SupportsUnknown(b)
    /\ supportsHtml5Styles = SupportsStyles(b)
    /\ html5 \in [shivCSS : BOOLEAN, shivMethods : BOOLEAN]
    /\ expanID = 0 /\ expando = [d \in Docs |-> 0]
    /\ expandoData = [i \in Ids |-> Fresh]
    /\ method = [d \in Docs |-> Native(d)]
    /\ sheets = [d \in Docs |-> 0]
    /\ outcome = NoOutcome

ShivUse ==
    \/ \E d \in Docs : ShivDocument(d)
    \/ /\ \E d \in Docs, name \in Names : CreateElement(d, name) \/ DocCreateElement(d, name)
       /\ UNCHANGED <<supportsUnknownElements, supportsHtml5Styles, html5, method, sheets>>
    \/ /\ \E d \in Docs : CreateDocumentFragment(d) \/ DocCreateDocumentFragment(d)
       /\ UNCHANGED <<supportsUnknownElements, supportsHtml5Styles, html5, method, sheets>>
    \/ \E options \in [shivCSS : BOOLEAN, shivMethods : BOOLEAN] : SetOption(options)

-----------------------------------------------------------------------------
ShivTypeOK ==
    /\ supportsUnknownElements \in BOOLEAN /\ supportsHtml5Styles \in BOOLEAN
    /\ html5 \in [shivCSS : BOOLEAN, shivMethods : BOOLEAN]
    /\ expanID \in 0 .. Cardinality(Docs) /\ expando \in [Docs -> 0 .. expanID]
    /\ expandoData \in [Ids -> [cached : BOOLEAN, cache : SUBSET CloneNames, hasCSS : BOOLEAN,
                                createElem : {Native(d) : d \in Docs} \cup {Replaced(d) : d \in Docs}]]
    /\ method \in [Docs -> {Native(d) : d \in Docs} \cup {Replaced(d) : d \in Docs}]
    /\ sheets \in [Docs -> Nat]

\* An element is made by the browser's own method of the document it is for,
\* however often and in whatever order documents are shived: no replacement
\* calls itself or works for another document.  html5.createElement can throw (for
\* a document that was not shived) only where the browser needs the shiv.  And the
\* style sheet is added to a document once, by however many calls.
MadeByOwnDocument ==
    /\ \A d \in Docs : sheets[d] =< 1
    /\ \/ outcome.by = Native(outcome.doc)
       \/ outcome.by = TypeError(outcome.doc) /\ ~supportsUnknownElements
    /\ \A d \in Docs : method[d] = Replaced(d) =>
         expandoData[expando[d]].cached /\ expandoData[expando[d]].createElem = Native(d)
=============================================================================
