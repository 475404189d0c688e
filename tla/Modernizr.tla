----------------------------- MODULE Modernizr -----------------------------
(***************************************************************************)
(* Feature detection on the pages of the grid-side theme                   *)
(* (modernizr-latest.js).  The script runs its tests one by one, then      *)
(* those of input elements, shivs the document, and only then writes the   *)
(* classes into the html element.  It is loaded in the head, before there  *)
(* is a body.  Afterwards scripts add tests and inject styles of their     *)
(* own, with functions that may do the same again, or throw.               *)
(*                                                                         *)
(* A browser is what it has: objects, methods, values it understands, and  *)
(* by name properties <<prefix, name>>, input types <<"type", t>>.         *)
(***************************************************************************)
EXTENDS Html5Shiv, Sequences

CONSTANTS
    Browsers,
    NewFeatures,    \* features that scripts add
    MaxDepth,       \* bound: calls in progress
    MaxCalls        \* bound: calls by scripts

ASSUME ModernizrAssumption ==
    /\ MaxDepth \in Nat /\ MaxCalls \in Nat
    /\ NewFeatures \cap {"js", "input", "inputtypes"} = {}

VARIABLES
    browser,
    at,             \* tests of the loop that have run
    phase,          \* "tests", "shiv", "classes", "loaded", "failed"
    mStyle,         \* what the style of modElem, shared by the tests, holds
    results,        \* the properties of the Modernizr object
    inputs,         \* the attributes and types of input that are understood
    html,           \* the classes of the html element
    hasBody,        \* the document has a body of its own
    fakeBody,       \* the script has put a body into the document
    divs,           \* divs of the script in either body
    overflow,       \* style.overflow of the html element
    stack,          \* calls of addTest and testStyles in progress
    odd,            \* history: features whose test gave nothing or re-entered
    threw,          \* history: a function given to testStyles threw
    calls

loading == <<browser, at, phase, mStyle>>
document == <<fakeBody, divs, overflow>>
modernizrVars == <<loading, results, inputs, html, hasBody, document, stack, odd, threw, calls>>
vars == <<modernizrVars, shivVars>>

Undefined == "undefined"
Results == {"true", "false", Undefined}
Truthy(v) == v \notin {"false", Undefined}

-----------------------------------------------------------------------------
(***************************************************************************)
(* Questions to a browser b.                                               *)
(***************************************************************************)
VendorPrefixes == {"", "Webkit", "Moz", "O", "ms"}

\* testProps: the style of modElem has one of the properties.
TestProps(b, props) == props \cap b.props # {}

\* testDOMProps: an object has one of the properties.
TestDOMProps(b, props) == props \cap b.props # {}

\* testPropsAll: the property by its name or with a vendor's prefix, of the style
\* or of a given object (whose prefixes are in lower case).
TestPropsAll(b, prop, ofStyle) ==
    LET props == {<<p, prop>> : p \in VendorPrefixes}
    IN  IF ofStyle THEN TestProps(b, props) ELSE TestDOMProps(b, props)

\* isEventSupported: by a property of the element, or by an attribute that
\* becomes a function; window has no setAttribute, so a div is asked instead.
IsEventSupported(b, event) == {<<"on", event>>, <<"attribute", event>>} \cap b.props # {}

FlexAndCanvas(b, r) ==
    [flexbox |-> TestPropsAll(b, "flexWrap", TRUE),
     flexboxlegacy |-> TestPropsAll(b, "boxDirection", TRUE),
     canvas |-> {"getContext", "2d"} \subseteq b.has,
     canvastext |-> Truthy(r["canvas"]) /\ "fillText" \in b.has,
     webgl |-> "WebGLRenderingContext" \in b.has]

Touch(b) == [touch |-> {"ontouchstart", "DocumentTouch", "touch-enabled"} \cap b.has # {}]

Objects(b) ==
    [geolocation |-> "geolocation" \in b.has,
     postmessage |-> "postMessage" \in b.has,
     websqldatabase |-> "openDatabase" \in b.has,
     indexeddb |-> TestPropsAll(b, "indexedDB", FALSE),
     hashchange |-> IsEventSupported(b, "hashchange") /\ "documentMode7" \notin b.has,
     history |-> "pushState" \in b.has,
     draganddrop |-> "draggable" \in b.has \/ {"ondragstart", "ondrop"} \subseteq b.has,
     websockets |-> {"WebSocket", "MozWebSocket"} \cap b.has # {}]

\* The first three, opacity and gradients read back from s what they have set.
Colours(s) ==
    [rgba |-> "rgba" \in s,
     hsla |-> {"rgba", "hsla"} \cap s # {},
     multiplebgs |-> "three urls" \in s]

BoxesAndText(b, s) ==
    [backgroundsize |-> TestPropsAll(b, "backgroundSize", TRUE),
     borderimage |-> TestPropsAll(b, "borderImage", TRUE),
     borderradius |-> TestPropsAll(b, "borderRadius", TRUE),
     boxshadow |-> TestPropsAll(b, "boxShadow", TRUE),
     textshadow |-> <<"", "textShadow">> \in b.props,
     opacity |-> "0.55" \in s]

\* WebKit may know the property and not draw in three dimensions: the media query
\* tells.
Animation(b, s) ==
    [cssanimations |-> TestPropsAll(b, "animationName", TRUE),
     csscolumns |-> TestPropsAll(b, "columnCount", TRUE),
     cssgradients |-> "gradient" \in s,
     cssreflections |-> TestPropsAll(b, "boxReflect", TRUE),
     csstransforms |-> TestPropsAll(b, "transform", TRUE),
     csstransforms3d |-> /\ TestPropsAll(b, "perspective", TRUE)
                         /\ "webkitPerspective" \in b.has => "transform-3d" \in b.has,
     csstransitions |-> TestPropsAll(b, "transition", TRUE)]

FontAndContent(b) ==
    [fontface |-> "font-face" \in b.has,
     generatedcontent |-> "content" \in b.has]

\* A Boolean object: it stays true when asking for a codec throws.
Media(b) == [video |-> "canPlayType" \in b.has, audio |-> "canPlayType" \in b.has]

\* setItem throws where storage is switched off or has no room.
Storage(b) == [localstorage |-> "setItem" \in b.has, sessionstorage |-> "setItem" \in b.has]

WorkersAndSvg(b) ==
    [webworkers |-> "Worker" \in b.has,
     applicationcache |-> "applicationCache" \in b.has,
     svg |-> {"createElementNS", "createSVGRect"} \subseteq b.has,
     inlinesvg |-> "inline svg" \in b.has,
     smil |-> {"createElementNS", "SVGAnimate"} \subseteq b.has,
     svgclippaths |-> {"createElementNS", "SVGClipPath"} \subseteq b.has]

Tests(b, r, s) ==
    {FlexAndCanvas(b, r), Touch(b), Objects(b), Colours(s), BoxesAndText(b, s),
     Animation(b, s), FontAndContent(b), Media(b), Storage(b), WorkersAndSvg(b)}

\* The loop takes the tests in the order in which they were put into the object.
TestOrder ==
    <<"flexbox", "flexboxlegacy", "canvas", "canvastext", "webgl", "touch", "geolocation",
      "postmessage", "websqldatabase", "indexeddb", "hashchange", "history",
      "draganddrop", "websockets", "rgba", "hsla", "multiplebgs", "backgroundsize",
      "borderimage", "borderradius", "boxshadow", "textshadow", "opacity",
      "cssanimations", "csscolumns", "cssgradients", "cssreflections", "csstransforms",
      "csstransforms3d", "csstransitions", "fontface", "generatedcontent", "video",
      "audio", "localstorage", "sessionstorage", "webworkers", "applicationcache", "svg",
      "inlinesvg", "smil", "svgclippaths">>

\* The input types that webforms asks for, one or two of each kind: the browser
\* may keep them as the type of the element without drawing anything for it.
InputType(b, t) ==
    /\ <<"type", t>> \in b.props
    /\ CASE t = "range" /\ "WebkitAppearance" \in b.has -> "slider" \in b.has
         [] t \in {"search", "tel"} -> TRUE
         [] t \in {"url", "email"} -> "checkValidity" \in b.has
         [] OTHER -> <<"sanitizes", t>> \in b.props
InputTypes == {"search", "tel", "url", "email", "date", "range"}

\* The attributes: a list also needs the element that holds it.
InputAttribute(b, a) ==
    /\ <<"attribute", a>> \in b.props
    /\ a = "list" => "HTMLDataListElement" \in b.has
InputAttributes == {"autofocus", "list"}

\* The style modElem has after a test: what the browser understands of the text
\* that setCss puts in the place of the old one.
Understood(b, test) ==
    CASE test = "rgba" -> {"rgba"} \cap b.has
      [] test = "hsla" -> IF "hsla" \notin b.has THEN {}
                          ELSE IF "keeps hsla" \in b.has THEN {"hsla"} ELSE {"rgba"}
      [] test = "multiplebgs" -> {"three urls"} \cap b.has
      [] test = "opacity" -> IF <<"", "opacity">> \in b.props THEN {"0.55"} ELSE {}
      [] test = "cssgradients" -> IF TestPropsAll(b, "gradient", TRUE) THEN {"gradient"} ELSE {}

SetCss(b, test, style) ==
    IF test \in {"rgba", "hsla", "multiplebgs", "opacity", "cssgradients"}
      THEN Understood(b, test) ELSE style

Features == {TestOrder[i] : i \in DOMAIN TestOrder}
Known == Features \cup {"input", "inputtypes"} \cup NewFeatures

-----------------------------------------------------------------------------
(***************************************************************************)
(* Styles injected into the document: into its body, or into one that is   *)
(* put there for as long as the callback runs.                             *)
(***************************************************************************)
\* document.body: the first one in the document.
Body == IF fakeBody THEN "fake" ELSE IF hasBody THEN "own" ELSE "none"

Call(kind, feature, keys) ==
    [kind |-> kind, feature |-> feature, keys |-> keys, body |-> Body, saved |-> overflow]

\* Fault: only a body of the document's own counts.
InjectFaking ==
    IF ~hasBody
      THEN /\ fakeBody' = TRUE /\ overflow' = "hidden"
           /\ divs' = [divs EXCEPT !.fake = 1]
      ELSE /\ divs' = [divs EXCEPT !.own = @ + 1]
           /\ UNCHANGED <<fakeBody, overflow>>

\* injectElementWithStyles, up to the call of its callback.
Inject ==
    IF Body = "none"
      THEN /\ fakeBody' = TRUE /\ overflow' = "hidden"
           /\ divs' = [divs EXCEPT !.fake = 1]
      ELSE /\ divs' = [divs EXCEPT ![Body] = @ + 1]
           /\ UNCHANGED <<fakeBody, overflow>>

\* The rest of it: the body that was put in goes, with all it holds.
RemoveInjected(call) ==
    IF call.body = "none"
      THEN /\ fakeBody' = FALSE /\ overflow' = call.saved
           /\ divs' = [divs EXCEPT !.fake = 0]
      ELSE /\ divs' = [divs EXCEPT ![call.body] = @ - 1]
           /\ UNCHANGED <<fakeBody, overflow>>

-----------------------------------------------------------------------------
(***************************************************************************)
(* The script is loaded.                                                   *)
(***************************************************************************)
ModernizrInit ==
    /\ browser \in Browsers
    /\ at = 0 /\ phase = "tests" /\ mStyle = {}
    /\ results = [f \in Known |-> Undefined]
    /\ inputs = {}
    /\ html = {<<"js", FALSE>>}
    /\ hasBody = FALSE /\ fakeBody = FALSE /\ divs = [own |-> 0, fake |-> 0]
    /\ overflow = "visible"
    /\ stack = <<>> /\ odd = {} /\ threw = FALSE /\ calls = 0
    /\ ShivInit(browser)

\* Of the tests that inject styles, fontface looks for the style element it has
\* put in, and throws if the browser has dropped it: the script ends there.
Throws(b, test) == test = "fontface" /\ "drops style" \in b.has

RunTest ==
    LET test == TestOrder[at + 1] IN
    /\ phase = "tests" /\ at < Len(TestOrder)
    /\ IF Throws(browser, test)
         THEN /\ phase' = "failed" /\ threw' = TRUE /\ Inject
              /\ UNCHANGED <<at, mStyle, results>>
         ELSE /\ at' = at + 1
              /\ mStyle' = SetCss(browser, test, mStyle)
              /\ results' = [results EXCEPT ![test] =
                   IF \E tests \in Tests(browser, results, mStyle') :
                        test \in DOMAIN tests /\ tests[test]
                     THEN "true" ELSE "false"]
              /\ UNCHANGED <<phase, threw, document>>
    /\ UNCHANGED <<browser, inputs, html, hasBody, stack, odd, calls, shivVars>>

\* webforms, which answers with objects, then setCss('').
Webforms ==
    /\ phase = "tests" /\ at = Len(TestOrder)
    /\ phase' = "shiv" /\ mStyle' = {}
    /\ inputs' = {a \in InputAttributes : InputAttribute(browser, a)}
                 \cup {t \in InputTypes : InputType(browser, t)}
    /\ results' = [results EXCEPT !["input"] = "object", !["inputtypes"] = "object"]
    /\ UNCHANGED <<browser, at, html, hasBody, document, stack, odd, threw, calls, shivVars>>

ShivMain ==
    /\ phase = "shiv" /\ phase' = "classes"
    /\ ShivDocument(Main)
    /\ UNCHANGED <<browser, at, mStyle, results, inputs, html, hasBody, document, stack,
                   odd, threw, calls>>

\* The class no-js gives way to js and to those of the tests.
WriteClasses ==
    /\ phase = "classes" /\ phase' = "loaded"
    /\ html' = (html \ {<<"js", FALSE>>}) \cup {<<"js", TRUE>>}
               \cup {<<f, Truthy(results[f])>> : f \in Features}
    /\ UNCHANGED <<browser, at, mStyle, results, inputs, hasBody, document, stack, odd,
                   threw, calls, shivVars>>

\* The parser comes to the body: no script is running.
ParseBody ==
    /\ phase \in {"loaded", "failed"} /\ stack = <<>> /\ ~hasBody
    /\ hasBody' = TRUE
    /\ UNCHANGED <<loading, results, inputs, html, document, stack, odd, threw, calls, shivVars>>

-----------------------------------------------------------------------------
(***************************************************************************)
(* Scripts use the script.  A function of theirs runs while the call it    *)
(* was given to is on top of the stack.                                    *)
(***************************************************************************)
Top == stack[Len(stack)]
Below == SubSeq(stack, 1, Len(stack) - 1)
Running == stack # <<>> /\ Top.kind # "object"
MayCall == phase = "loaded" /\ (stack = <<>> \/ Running) /\ calls < MaxCalls
Entered(f) == \E i \in DOMAIN stack : stack[i].kind = "test" /\ stack[i].feature = f

\* The end of addTest.  Fault: the class is written for a result there is, not
\* for the one that was just found.
SetResultLate(f, v) ==
    /\ html' = html \cup {<<f, Truthy(results[f])>>}
    /\ results' = [results EXCEPT ![f] = v]
SetResult(f, v) ==
    /\ html' = html \cup {<<f, Truthy(v)>>}
    /\ results' = [results EXCEPT ![f] = v]

\* addTest with a name: it quits if there is a result, calls a function, takes
\* anything else as the result.
AddTest(f, base) ==
    IF results[f] # Undefined
      THEN stack' = base /\ UNCHANGED <<results, html, odd>>
      ELSE \/ /\ \E v \in Results :
                   /\ SetResult(f, v)
                   /\ odd' = IF v = Undefined \/ Entered(f) THEN odd \cup {f} ELSE odd
              /\ stack' = base
           \/ /\ Len(base) < MaxDepth
              /\ stack' = Append(base, Call("test", f, {}))
              /\ odd' = IF Entered(f) THEN odd \cup {f} ELSE odd
              /\ UNCHANGED <<results, html>>

CallAddTest ==
    /\ MayCall /\ calls' = calls + 1
    /\ \E f \in NewFeatures \cup {"canvas", "input"} : AddTest(f, stack)
    /\ UNCHANGED <<loading, inputs, hasBody, document, threw, shivVars>>

\* addTest with an object: it calls itself for every key.
CallAddTests ==
    /\ MayCall /\ calls' = calls + 1 /\ Len(stack) < MaxDepth
    /\ stack' = Append(stack, Call("object", "", NewFeatures))
    /\ UNCHANGED <<loading, results, inputs, html, hasBody, document, odd, threw, shivVars>>
\* Fault: the loop adds its keys without looking for their results.
NextKeyUnlooked ==
    /\ stack # <<>> /\ Top.kind = "object"
    /\ IF Top.keys = {}
         THEN stack' = Below /\ UNCHANGED <<results, html, odd>>
         ELSE \E f \in Top.keys, v \in Results :
                /\ SetResult(f, v)
                /\ stack' = Append(Below, [Top EXCEPT !.keys = @ \ {f}])
                /\ UNCHANGED odd
    /\ UNCHANGED <<loading, inputs, hasBody, document, threw, calls, shivVars>>
NextKey ==
    /\ stack # <<>> /\ Top.kind = "object"
    /\ IF Top.keys = {}
         THEN stack' = Below /\ UNCHANGED <<results, html, odd>>
         ELSE \E f \in Top.keys :
                AddTest(f, Append(Below, [Top EXCEPT !.keys = @ \ {f}]))
    /\ UNCHANGED <<loading, inputs, hasBody, document, threw, calls, shivVars>>

TestStyles ==
    /\ MayCall /\ calls' = calls + 1 /\ Len(stack) < MaxDepth
    /\ Inject
    /\ stack' = Append(stack, Call("styles", "", {}))
    /\ UNCHANGED <<loading, results, inputs, html, hasBody, odd, threw, shivVars>>

\* The function on top returns, and so does the call it was given to.
Return(v) ==
    LET call == Top IN
    /\ Running /\ stack' = Below
    /\ IF call.kind = "styles"
         THEN RemoveInjected(call) /\ UNCHANGED <<results, html, odd>>
         ELSE /\ SetResult(call.feature, v)
              /\ odd' = IF v = Undefined THEN odd \cup {call.feature} ELSE odd
              /\ UNCHANGED document
    /\ UNCHANGED <<loading, inputs, hasBody, threw, calls, shivVars>>

\* It throws: calls end, down to a function that catches, without their rest.
Throw(depth) ==
    /\ Running
    /\ stack' = SubSeq(stack, 1, depth)
    /\ depth # 0 => stack[depth].kind # "object"
    /\ threw' = (threw \/ \E i \in depth + 1 .. Len(stack) : stack[i].kind = "styles")
    /\ UNCHANGED <<loading, results, inputs, html, hasBody, document, odd, calls, shivVars>>

UseShiv ==
    /\ MayCall /\ stack = <<>> /\ calls' = calls + 1
    /\ ShivUse
    /\ UNCHANGED <<loading, results, inputs, html, hasBody, document, stack, odd, threw>>

Init == ModernizrInit
Next ==
    \/ RunTest \/ Webforms \/ ShivMain \/ WriteClasses \/ ParseBody
    \/ CallAddTest \/ CallAddTests \/ NextKey \/ TestStyles
    \/ \E v \in Results : Return(v)
    \/ \E depth \in 0 .. Len(stack) - 1 : Throw(depth)
    \/ UseShiv
Spec == Init /\ [][Next]_vars

-----------------------------------------------------------------------------
TypeOK ==
    /\ ShivTypeOK
    /\ browser \in Browsers
    /\ at \in 0 .. Len(TestOrder)
    /\ phase \in {"tests", "shiv", "classes", "loaded", "failed"}
    /\ mStyle \subseteq {"rgba", "hsla", "three urls", "0.55", "gradient"}
    /\ results \in [Known -> Results \cup {"object"}]
    /\ inputs \subseteq InputAttributes \cup InputTypes
    /\ html \subseteq (Known \cup {"js"}) \X BOOLEAN
    /\ hasBody \in BOOLEAN /\ fakeBody \in BOOLEAN
    /\ divs \in [own : 0 .. MaxCalls, fake : 0 .. MaxCalls + 1]
    /\ overflow \in {"visible", "hidden"}
    /\ \A i \in DOMAIN stack : stack[i].kind \in {"test", "object", "styles"}
    /\ Len(stack) =< MaxDepth /\ odd \subseteq NewFeatures /\ threw \in BOOLEAN
    /\ calls \in 0 .. MaxCalls

\* What testStyles puts into the document leaves it again, in whatever way its
\* callbacks call testStyles and addTest in turn: as long as none of them threw,
\* the divs in the document are those of the calls in progress, and there is a
\* body of the script only during a call that needed one.  Throwing or not, the
\* overflow of the page is hidden by the script only while that body is there.
\* The variables, and those of Html5Shiv, have their types.
DocumentRestored ==
    LET styles == {i \in DOMAIN stack : stack[i].kind = "styles"} IN
    /\ TypeOK
    /\ ~fakeBody => overflow = "visible" /\ divs.fake = 0
    /\ ~threw => /\ divs.own + divs.fake = Cardinality(styles)
                 /\ fakeBody <=> \E i \in styles : stack[i].body = "none"

\* The html element and the Modernizr object tell the same: once loaded, every
\* result has its class, and it has not the opposite class too unless its test
\* gave no result or added the feature from within.  Until then the page has the
\* class no-js and no other: a test that throws leaves it as for a browser
\* without scripts.
ClassesAgree ==
    IF phase # "loaded" THEN html = {<<"js", FALSE>>} ELSE
      \A f \in Features \cup NewFeatures :
        /\ results[f] # Undefined => <<f, Truthy(results[f])>> \in html
        /\ f \notin odd => ~({<<f, TRUE>>, <<f, FALSE>>} \subseteq html)
        /\ {<<f, TRUE>>, <<f, FALSE>>} \cap html # {} => results[f] # Undefined \/ f \in odd

\* A result is final once no call of addTest for its feature is in progress: no
\* call, from within any test, for a key of an object or after a function threw,
\* changes it or the classes of its feature again ("we're going to quit if you're
\* trying to overwrite an existing test").  While the test of a feature is running
\* the result that an inner call has left is overwritten, in spite of that comment.
KeptResults ==
    [][\A f \in Known : results[f] # Undefined /\ ~Entered(f) =>
         /\ results'[f] = results[f]
         /\ phase = "loaded" =>
              \A c \in BOOLEAN : <<f, c>> \in html' <=> <<f, c>> \in html]_vars
=============================================================================
