--------------------------- MODULE ElementQueries ---------------------------
(***************************************************************************)
(* The element queries of the hugo-uno theme (ElementQueries.js): rules    *)
(* such as .box[min-width~="500px"] are read from the style sheets, and an *)
(* element that matches their selector gets the attributes that hold for   *)
(* its size.  The size sensor is used for what SizeWatch promises: while   *)
(* it can hear the element, it reports that the size has changed.  The     *)
(* CSS engine and the sensor are external.                                 *)
(***************************************************************************)
EXTENDS Naturals, Sequences, FiniteSets, FiniteSetsExt

CONSTANTS
    Elements,
    Images,       \* those with the responsive-image attribute
    Matches,      \* [Elements -> sets of selectors]
    Boxes,        \* <<width, height>> of an element that is shown
    Sheets,       \* the style sheets, in the order they come into the document
    Scales,       \* what relative units stand for
    MaxInits,     \* bound: calls of init and update
    MaxSteps      \* bound: what scripts and layout do

Selectors == UNION {Matches[e] : e \in Elements}
None == "none"
Hidden == <<0, 0>>

ASSUME ElementsAssumption ==
    /\ Images \subseteq Elements /\ None \notin Selectors
    /\ MaxInits \in Nat /\ MaxSteps \in Nat

-----------------------------------------------------------------------------
(***************************************************************************)
(* Reading rules.  A sheet is a list of rules, a text, or may not be read. *)
(* A rule is a selector with one of its queries, and comes with the        *)
(* at-rules that it is in.  An @import whose sheet is null has no rules:   *)
(* one of any selector stands for it, and is never read.                   *)
(***************************************************************************)
Queries == UNION {{Sheets[i].rules[k].query : k \in DOMAIN Sheets[i].rules} : i \in DOMAIN Sheets}
AtRules == [type : Nat, styleSheet : {"none", "null", "bare", "own"}]
Rules == [sel : Selectors, query : Queries, within : SUBSET AtRules]

ASSUME SheetsAssumption ==
    Sheets \in Seq([kind : {"rules", "text", "denied"}, rules : Seq(Rules)]) \ {<<>>}

\* readRules goes into at-rules of type 4 (@media), and of type 3 (@import) if the
\* sheet owns cssRules.  To ask a null sheet throws.
GoesInto(at) == at.type = 4 \/ (at.type = 3 /\ at.styleSheet = "own")
Throws(rule) ==
    \E at \in rule.within :
        /\ at.type = 3 /\ at.styleSheet = "null"
        /\ \A outer \in rule.within \ {at} : GoesInto(outer)

\* What throws ends the reading of its sheet; a foreign sheet throws at once.  A
\* text is read only if it speaks of a width.
IsRead(sheet, k) ==
    \/ /\ sheet.kind = "rules"
       /\ \A at \in sheet.rules[k].within : GoesInto(at)
       /\ ~\E before \in 1 .. k : Throws(sheet.rules[before])
    \/ /\ sheet.kind = "text"
       /\ \E any \in DOMAIN sheet.rules : sheet.rules[any].query.property = "width"

\* queueQuery.  Fault: rules read again get another id.
QueueQueryAgain(state, rule) ==
    [queries |-> [state.queries EXCEPT ![rule.sel] = Append(@, rule.query)],
     mapping |-> Append(state.mapping, rule.sel)]

QueueQuery(state, rule) ==
    [queries |-> [state.queries EXCEPT ![rule.sel] = Append(@, rule.query)],
     mapping |-> IF state.queries[rule.sel] = <<>>
                   THEN Append(state.mapping, rule.sel) ELSE state.mapping]

ReadSheet(state, sheet) ==
    LET read[k \in 0 .. Len(sheet.rules)] ==
          IF k = 0 THEN state
          ELSE IF IsRead(sheet, k) THEN QueueQuery(read[k - 1], sheet.rules[k])
          ELSE read[k - 1]
    IN  read[Len(sheet.rules)]

ReadSheets(state, n) ==
    LET read[i \in 0 .. n] == IF i = 0 THEN state ELSE ReadSheet(read[i - 1], Sheets[i])
    IN  read[n]

\* convertToPx: the value in any other unit is taken for pixels.
RelativeUnits == {"em", "rem", "vw", "vh", "vmin", "vmax"}
ToPx(q, scale) == IF q.unit \in RelativeUnits THEN q.value * scale ELSE q.value

\* The attribute a query sets on an element of that size.
Holds(q, box, scale) ==
    LET actual == IF q.property = "width" THEN box[1] ELSE box[2] IN
    \/ q.mode = "min" /\ actual >= ToPx(q, scale)
    \/ q.mode = "max" /\ actual <= ToPx(q, scale)

-----------------------------------------------------------------------------
VARIABLES
    loaded,       \* style sheets in the document
    ready,        \* DOMContentLoaded has been fired
    listening,    \* init is to be called then
    scale,
    handlers,     \* animationstart listeners on the body, one for each init
    allQueries,   \* [Selectors -> Seq(queries)], <<>> where undefined
    idToSelectorMapping,
    box,          \* the size of each element
    starting,     \* elements with an animationstart event under way
    setup,        \* the selector of elementQueriesSetupInformation, or None
    sensor,       \* elements with elementQueriesSensor
    instance,     \* elements with resizeSensorInstance
    queue,        \* the listeners of the sensor of each element
    heard,        \* elements whose sensor notices changes of the size
    pending,      \* elements with a report of the sensor under way
    attrs,        \* the queries each element has attributes for
    seen,         \* history: allQueries when its attributes were last set
    thrown,       \* history: a listener found no setup information
    detached,     \* history: elements detached since they last came into view
    steps

dom == <<loaded, ready, listening>>
rules == <<handlers, allQueries, idToSelectorMapping>>
sensors == <<sensor, instance, queue, heard>>
shown == <<attrs, seen>>
vars == <<dom, scale, rules, box, starting, setup, sensors, pending, shown,
          thrown, detached, steps>>

Init ==
    /\ loaded = 1 /\ ready = FALSE /\ listening = FALSE /\ scale \in Scales
    /\ handlers = 0
    /\ allQueries = [s \in Selectors |-> <<>>] /\ idToSelectorMapping = <<>>
    /\ box \in [Elements -> Boxes \cup {Hidden}]
    /\ starting = {} /\ setup = [e \in Elements |-> None]
    /\ sensor = {} /\ instance = {} /\ queue = [e \in Elements |-> <<>>]
    /\ heard = {} /\ pending = {}
    /\ attrs = [e \in Elements |-> {}] /\ seen = [e \in Elements |-> allQueries]
    /\ thrown = FALSE /\ detached = {} /\ steps = 0

Step == steps < MaxSteps /\ steps' = steps + 1

\* The elements an animation rule applies to, given the selectors with rules.
Animated(mapping) == {e \in Elements : Matches[e] \cap Range(mapping) # {}}

-----------------------------------------------------------------------------
\* init: one more animationstart listener; all sheets are read again; the
\* responsive images get one more listener.  The engine starts the animation of
\* elements in view that had none.
InitInstance ==
    /\ handlers < MaxInits /\ handlers' = handlers + 1
    /\ LET state == ReadSheets([queries |-> allQueries, mapping |-> idToSelectorMapping], loaded)
       IN  /\ allQueries' = state.queries
           /\ idToSelectorMapping' = state.mapping
           /\ starting' = starting \cup
                {e \in Animated(state.mapping) \ Animated(idToSelectorMapping) : box[e] # Hidden}
    /\ instance' = Images
    /\ queue' = [e \in Elements |-> IF e \in Images THEN Append(queue[e], "check") ELSE queue[e]]
    /\ heard' = heard \cup {e \in Images : queue[e] = <<>>}
    /\ UNCHANGED <<loaded, scale, box, setup, sensor, pending, shown, thrown, detached>>

\* ElementQueries.init; ElementQueries.update, which needs an instance.
Initialize == Step /\ InitInstance /\ UNCHANGED <<ready, listening>>
Update == Step /\ handlers > 0 /\ InitInstance /\ UNCHANGED <<ready, listening>>

\* ElementQueries.listen.  A listener that is added again stays one, and one that
\* is added when the event is over never runs.
Listen ==
    /\ Step /\ listening' = (listening \/ ~ready)
    /\ UNCHANGED <<loaded, ready, scale, rules, box, starting, setup, sensors, pending, shown,
                   thrown, detached>>
DOMContentLoaded ==
    /\ ~ready /\ ready' = TRUE
    /\ IF listening THEN InitInstance
       ELSE UNCHANGED <<loaded, scale, rules, box, starting, setup, sensors, pending, shown,
                        thrown, detached>>
    /\ UNCHANGED <<listening, steps>>

-----------------------------------------------------------------------------
(***************************************************************************)
(* setupElement for the elements of which, with on[e] the selector each is *)
(* found for, and added[e] the listeners attached before.                  *)
(***************************************************************************)
\* SetupInformation.call: measure, and set or remove the attributes.
Call(which, set) ==
    /\ attrs' = [e \in Elements |-> IF e \notin which THEN attrs[e]
                   ELSE {q \in Range(allQueries[set[e]]) : Holds(q, box[e], scale)}]
    /\ seen' = [e \in Elements |-> IF e \in which THEN allQueries ELSE seen[e]]

\* Fault: the first call is left to the sensor.
SetupElementsSilent(which, on, added) ==
    LET set == [e \in Elements |-> IF e \in which /\ setup[e] = None THEN on[e] ELSE setup[e]]
        all == [e \in Elements |->
                  IF e \in which /\ added[e] = <<>> /\ e \notin sensor
                    THEN <<"direct">> ELSE added[e]]
    IN  /\ setup' = set
        /\ sensor' = sensor \cup which
        /\ queue' = [e \in Elements |-> queue[e] \o all[e]]
        /\ heard' = heard \cup {e \in which : queue[e] = <<>>}
        /\ UNCHANGED shown

SetupElements(which, on, added) ==
    LET set == [e \in Elements |-> IF e \in which /\ setup[e] = None THEN on[e] ELSE setup[e]]
        all == [e \in Elements |->
                  IF e \in which /\ added[e] = <<>> /\ e \notin sensor
                    THEN <<"direct">> ELSE added[e]]
    IN  /\ setup' = set
        /\ sensor' = sensor \cup which
        /\ queue' = [e \in Elements |-> queue[e] \o all[e]]
        /\ heard' = heard \cup {e \in which : queue[e] = <<>>}
        /\ Call(which, set)

-----------------------------------------------------------------------------
\* The animationstart listeners: each attaches one more listener, which looks
\* for the setup information before it calls.  Which of several matching
\* selectors has set the min-width of the div is up to the cascade.
\* Fault: elements that have a sensor are taken for set up.
AnimationStartNew(e) ==
    /\ e \in starting
    /\ starting' = starting \ {e}
    /\ IF queue[e] # <<>> THEN UNCHANGED <<setup, sensor, queue, heard, shown>>
       ELSE \E i \in DOMAIN idToSelectorMapping :
         /\ idToSelectorMapping[i] \in Matches[e]
         /\ SetupElements({e}, [f \in Elements |-> idToSelectorMapping[i]],
                [f \in Elements |-> IF f = e THEN [h \in 1 .. handlers |-> "guarded"] ELSE <<>>])
    /\ UNCHANGED <<dom, scale, rules, box, instance, pending, thrown, detached, steps>>

AnimationStart(e) ==
    /\ e \in starting
    /\ starting' = starting \ {e}
    /\ \E i \in DOMAIN idToSelectorMapping :
         /\ idToSelectorMapping[i] \in Matches[e]
         /\ SetupElements({e}, [f \in Elements |-> idToSelectorMapping[i]],
                [f \in Elements |-> IF f = e THEN [h \in 1 .. handlers |-> "guarded"] ELSE <<>>])
    /\ UNCHANGED <<dom, scale, rules, box, instance, pending, thrown, detached, steps>>

FirstSelector(e) ==
    LET of == {i \in DOMAIN idToSelectorMapping : idToSelectorMapping[i] \in Matches[e]}
    IN  IF of = {} THEN None ELSE idToSelectorMapping[Min(of)]

\* findElementQueriesElements, in the elements of a container: selectors in the
\* order of their first rule.
FindElements(container) ==
    /\ Step /\ handlers > 0
    /\ LET which == container \cap Animated(idToSelectorMapping)
           on == [e \in Elements |-> FirstSelector(e)] IN
         SetupElements(which, on, [e \in Elements |-> <<>>])
    /\ UNCHANGED <<dom, scale, rules, box, starting, instance, pending, thrown, detached>>

\* ElementQueries.detach: the sensor goes with all listeners, whoever attached
\* them, and the attributes stay.
\* Fault: the setup information stays.
DetachKeepsSetup(e) ==
    /\ Step /\ setup[e] # None
    /\ sensor' = sensor \ {e}
    /\ queue' = [queue EXCEPT ![e] = <<>>] /\ heard' = heard \ {e}
    /\ detached' = detached \cup {e}
    /\ UNCHANGED <<dom, scale, rules, box, starting, setup, instance, pending, shown, thrown>>

Detach(e) ==
    /\ Step
    /\ \/ /\ setup[e] # None
          /\ setup' = [setup EXCEPT ![e] = None] /\ sensor' = sensor \ {e}
          /\ UNCHANGED instance
       \/ /\ setup[e] = None /\ e \in instance
          /\ instance' = instance \ {e}
          /\ UNCHANGED <<setup, sensor>>
    /\ queue' = [queue EXCEPT ![e] = <<>>] /\ heard' = heard \ {e}
    /\ detached' = detached \cup {e}
    /\ UNCHANGED <<dom, scale, rules, box, starting, pending, shown, thrown>>

-----------------------------------------------------------------------------
(***************************************************************************)
(* The sensor, the engine and the page.                                    *)
(***************************************************************************)
\* The sensor calls its listeners.  A frame of a detached sensor may do so for
\* the one attached since.
Report(e) ==
    /\ e \in pending
    /\ pending' = pending \ {e}
    /\ thrown' = (thrown \/ (setup[e] = None /\ "direct" \in Range(queue[e])))
    /\ Call({f \in {e} : setup[f] # None /\ {"direct", "guarded"} \cap Range(queue[f]) # {}}, setup)
    /\ UNCHANGED <<dom, scale, rules, box, starting, setup, sensors, detached, steps>>

Noticed(e, noticed) ==
    /\ (e \in heard) => noticed
    /\ noticed => queue[e] # <<>>
    /\ pending' = IF noticed THEN pending \cup {e} ELSE pending

Resize(e, b, noticed) ==
    /\ Step /\ box[e] # Hidden /\ b # box[e]
    /\ box' = [box EXCEPT ![e] = b]
    /\ Noticed(e, noticed)
    /\ UNCHANGED <<dom, scale, rules, starting, setup, sensors, shown, thrown, detached>>

\* Whether an animation that has begun is still announced is up to the engine.
Hide(e, cancelled) ==
    /\ Step /\ box[e] # Hidden
    /\ box' = [box EXCEPT ![e] = Hidden]
    /\ heard' = heard \ {e}
    /\ starting' = IF cancelled THEN starting \ {e} ELSE starting
    /\ UNCHANGED <<dom, scale, rules, setup, sensor, instance, queue, pending, shown,
                   thrown, detached>>

\* Shown again, or put back into the document: by itself (alone) its sensor is
\* reset.  The animation starts anew.
Show(e, b, noticed, alone) ==
    /\ Step /\ box[e] = Hidden
    /\ box' = [box EXCEPT ![e] = b]
    /\ alone => noticed
    /\ heard' = heard \cup {f \in {e} : alone}
    /\ Noticed(e, noticed)
    /\ starting' = starting \cup ({e} \cap Animated(idToSelectorMapping))
    /\ detached' = detached \ {e}
    /\ UNCHANGED <<dom, scale, rules, setup, sensor, instance, queue, shown, thrown>>

LoadSheet ==
    /\ Step /\ loaded < Len(Sheets) /\ loaded' = loaded + 1
    /\ UNCHANGED <<ready, listening, scale, rules, box, starting, setup, sensors, pending, shown, thrown, detached>>

Rescale ==
    /\ Step /\ scale' \in Scales \ {scale}
    /\ UNCHANGED <<dom, rules, box, starting, setup, sensors, pending, shown, thrown, detached>>

Next ==
    \/ Initialize \/ Update \/ Listen \/ DOMContentLoaded \/ LoadSheet \/ Rescale
    \/ \E container \in SUBSET Elements : FindElements(container)
    \/ \E e \in Elements :
         \/ AnimationStart(e) \/ Report(e) \/ Detach(e)
         \/ \E b \in Boxes, noticed \in BOOLEAN : Resize(e, b, noticed)
         \/ \E cancelled \in BOOLEAN : Hide(e, cancelled)
         \/ \E b \in Boxes, noticed, alone \in BOOLEAN : Show(e, b, noticed, alone)

\* The engine announces animations, and the sensor keeps its promise.
Fairness == \A e \in Elements : WF_vars(AnimationStart(e)) /\ WF_vars(Report(e))

Spec == Init /\ [][Next]_vars /\ Fairness

-----------------------------------------------------------------------------
TypeOK ==
    /\ loaded \in 0 .. Len(Sheets) /\ ready \in BOOLEAN /\ listening \in BOOLEAN
    /\ scale \in Scales /\ handlers \in 0 .. MaxInits
    /\ DOMAIN allQueries = Selectors /\ idToSelectorMapping \in Seq(Selectors)
    /\ box \in [Elements -> Boxes \cup {Hidden}]
    /\ setup \in [Elements -> Selectors \cup {None}]
    /\ sensor \subseteq Elements /\ instance \subseteq Images
    /\ starting \subseteq Elements /\ heard \subseteq Elements /\ pending \subseteq Elements
    /\ queue \in [Elements -> Seq({"check", "direct", "guarded"})]
    /\ \A e \in Elements : attrs[e] \subseteq UNION {Range(allQueries[s]) : s \in Selectors}
    /\ thrown \in BOOLEAN /\ steps \in 0 .. MaxSteps

\* The ids written into the sensors' style lead back to the selectors: however
\* often the sheets are read, each selector with rules has one id; and the
\* variables have their types.
IdsMatchSelectors ==
    /\ TypeOK
    /\ IsInjective(idToSelectorMapping)
    /\ Range(idToSelectorMapping) = {s \in Selectors : allQueries[s] # <<>>}

\* An element that is set up is listened to, through init, update, detach and
\* hiding in any order; and a listener that does not look for the setup
\* information never runs without it.
ListensWhileSetUp ==
    /\ ~thrown
    /\ \A e \in Elements : setup[e] # None =>
         e \in sensor /\ {"direct", "guarded"} \cap Range(queue[e]) # {}

Fixed(queries) == {q \in queries : q.unit \notin RelativeUnits}
Due(e, s) == {q \in Fixed(Range(seen[e][s])) : Holds(q, box[e], scale)}

\* "we detect automatically when new elements are available in the DOM": an
\* element in view that matches a rule gets set up, unless a script detached it.
Detected ==
    \A e \in Elements :
        box[e] # Hidden /\ e \in Animated(idToSelectorMapping)
            ~> setup[e] # None \/ box[e] = Hidden \/ e \in detached

\* An element that keeps its size, set up and heard, ends up with exactly the
\* attributes the rules of its selector ask for at its size, as they were when
\* its attributes were last set.  Rules in relative units are left out: nothing
\* tells the element of a new scale.
Adapts ==
    \A e \in Elements : \A b \in Boxes :
        <>[](setup[e] # None /\ e \in heard /\ box[e] = b)
            => <>[](setup[e] # None /\ Fixed(attrs[e]) = Due(e, setup[e]))
=============================================================================
