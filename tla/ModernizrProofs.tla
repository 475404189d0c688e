-------------------------- MODULE ModernizrProofs --------------------------
(***************************************************************************)
(* Proofs about Modernizr, for any browsers, features and calls: first its *)
(* results and classes, then what it and the html5shiv it includes do to   *)
(* documents.                                                              *)
(***************************************************************************)
EXTENDS Modernizr, FiniteSetTheorems, TLAPS

\* The provers are tried in turn: those a leaf cites, or else Zenon before SMT.
USE ZenonT(30), SMTT(30)

-----------------------------------------------------------------------------
(***************************************************************************)
(* The tests run once each, in the order of TestOrder; a feature has a     *)
(* result once its test has run, and nothing else has one before the       *)
(* script is loaded.                                                       *)
(***************************************************************************)
LEMMA OrderOfTests ==
    /\ Len(TestOrder) = 42 /\ DOMAIN TestOrder = 1 .. 42
    /\ \A i, j \in 1 .. 42 : TestOrder[i] = TestOrder[j] => i = j
    /\ \A i \in 1 .. 42 : TestOrder[i] \notin {"js", "input", "inputtypes"}
    /\ TestOrder[3] = "canvas"
  <1>1. /\ Len(TestOrder) = 42 /\ DOMAIN TestOrder = 1 .. 42
        /\ TestOrder[3] = "canvas"
    BY SMTT(30), Z3T(30) DEF TestOrder
  <1>2. \A i \in 1 .. 42 : TestOrder[i] \notin {"js", "input", "inputtypes"}
    BY SMTT(30), Z3T(30) DEF TestOrder
  <1>3. \A i, j \in 1 .. 42 : TestOrder[i] = TestOrder[j] => i = j
    BY SMTT(30), Z3T(30) DEF TestOrder
  <1> QED
    BY <1>1, <1>2, <1>3

LEMMA FeaturesOrdered ==
    /\ Features = {TestOrder[i] : i \in 1 .. 42} /\ Features \subseteq Known
    /\ {"input", "inputtypes"} \subseteq Known /\ NewFeatures \subseteq Known
    /\ Features \cap {"js", "input", "inputtypes"} = {}
    /\ "canvas" \in Features
  <1>1. Features = {TestOrder[i] : i \in 1 .. 42}
    BY OrderOfTests DEF Features
  <1>2. "canvas" \in Features
    <2>1. 3 \in 1 .. 42
      BY SMTT(30), Z3T(30)
    <2>2. "canvas" = TestOrder[3]
      BY OrderOfTests
    <2> QED
      BY <1>1, <2>1, <2>2
  <1>3. Features \cap {"js", "input", "inputtypes"} = {}
    <2>1. \A i \in 1 .. 42 : TestOrder[i] \notin {"js", "input", "inputtypes"}
      BY OrderOfTests
    <2> QED
      BY <1>1, <2>1
  <1> QED
    BY <1>1, <1>2, <1>3 DEF Known

Styles == {"rgba", "hsla", "three urls", "0.55", "gradient"}

LoadTypeOK ==
    /\ browser \in Browsers
    /\ at \in 0 .. 42 /\ phase \in {"tests", "shiv", "classes", "loaded", "failed"}
    /\ mStyle \subseteq Styles
    /\ inputs \subseteq InputAttributes \cup InputTypes
    /\ results \in [Known -> Results \cup {"object"}]
    /\ odd \subseteq NewFeatures
    /\ threw \in BOOLEAN /\ hasBody \in BOOLEAN

TestsRun ==
    /\ \A i \in 1 .. 42 : results[TestOrder[i]] = Undefined <=> i > at
    /\ \A f \in {"input", "inputtypes"} :
          results[f] = Undefined <=> phase \in {"tests", "failed"}

Phases ==
    /\ phase \notin {"tests", "failed"} => mStyle = {} /\ at = 42
    /\ phase # "loaded" => /\ stack = <<>> /\ odd = {}
                           /\ \A f \in NewFeatures \ Features : results[f] = Undefined
    /\ phase \notin {"loaded", "failed"} => ~threw /\ ~hasBody

LoadInv == LoadTypeOK /\ TestsRun /\ Phases

LEMMA LoadStart == Init => LoadInv
  <1> SUFFICES ASSUME Init PROVE LoadInv
    OBVIOUS
  <1>1. \A i \in 1 .. 42 : TestOrder[i] \in Known
    BY FeaturesOrdered
  <1>2. LoadTypeOK
    <2>1. results \in [Known -> Results \cup {"object"}]
      BY DEF Init, ModernizrInit, Results
    <2>2. at \in 0 .. 42
      <3>1. at = 0
        BY DEF Init, ModernizrInit
      <3> QED
        BY SMTT(30), Z3T(30), <3>1
    <2> QED
      BY <2>1, <2>2 DEF Init, ModernizrInit, LoadTypeOK
  <1>3. TestsRun
    BY SMTT(30), Z3T(30), <1>1, FeaturesOrdered DEF Init, ModernizrInit, TestsRun
  <1>4. Phases
    BY FeaturesOrdered DEF Init, ModernizrInit, Phases
  <1> QED
    BY <1>2, <1>3, <1>4 DEF LoadInv

\* RunTest gives the next feature its result, or ends the script.
LEMMA RunTestStep ==
    ASSUME LoadInv, RunTest
    PROVE  /\ LoadInv'
           /\ phase = "tests" /\ at < 42 /\ TestOrder[at + 1] \in Features
           /\ \/ phase' = "failed" /\ threw' /\ Inject /\ UNCHANGED <<results, at>>
              \/ /\ phase' = "tests" /\ at' = at + 1 /\ UNCHANGED <<threw, document>>
                 /\ \E v \in {"true", "false"} :
                      results' = [results EXCEPT ![TestOrder[at + 1]] = v]
           /\ UNCHANGED <<browser, inputs, html, hasBody, stack, odd, calls, shivVars>>
  <1> DEFINE test == TestOrder[at + 1]
  <1>1. /\ phase = "tests" /\ at < 42 /\ at + 1 \in 1 .. 42 /\ test \in Features
        /\ test \in Known
        /\ UNCHANGED <<browser, inputs, html, hasBody, stack, odd, calls, shivVars>>
    <2>1. /\ phase = "tests" /\ at < 42
          /\ UNCHANGED <<browser, inputs, html, hasBody, stack, odd, calls, shivVars>>
      BY OrderOfTests DEF RunTest
    <2>2. at + 1 \in 1 .. 42
      BY SMTT(30), Z3T(30), <2>1 DEF LoadInv, LoadTypeOK
    <2> QED
      BY <2>1, <2>2, FeaturesOrdered
  <1>2. CASE Throws(browser, test)
    <2>1. phase' = "failed" /\ threw' = TRUE /\ Inject /\ UNCHANGED <<at, mStyle, results>>
      BY <1>2 DEF RunTest
    <2>2. LoadInv'
      BY <1>1, <2>1 DEF LoadInv, LoadTypeOK, TestsRun, Phases
    <2> QED
      BY <1>1, <2>1, <2>2
  <1>3. CASE ~Throws(browser, test)
    <2>1. /\ at' = at + 1 /\ UNCHANGED <<phase, threw, document>>
          /\ mStyle' = SetCss(browser, test, mStyle)
      BY <1>3 DEF RunTest
    <2>2. PICK v \in {"true", "false"} : results' = [results EXCEPT ![test] = v]
      BY <1>3 DEF RunTest
    <2>3. mStyle' \subseteq Styles
      BY <2>1 DEF SetCss, Understood, Styles, LoadInv, LoadTypeOK
    <2>4. /\ results' \in [Known -> Results \cup {"object"}]
          /\ results'[test] # Undefined
          /\ \A f \in Known : f # test => results'[f] = results[f]
      BY <1>1, <2>2 DEF LoadInv, LoadTypeOK, Results, Undefined
    <2>5. LoadTypeOK'
      BY SMTT(30), Z3T(30), <1>1, <2>1, <2>3, <2>4 DEF LoadInv, LoadTypeOK
    <2>6. TestsRun'
      <3>1. ASSUME NEW i \in 1 .. 42 PROVE results'[TestOrder[i]] = Undefined <=> i > at'
        <4>1. TestOrder[i] \in Known /\ (TestOrder[i] = test <=> i = at + 1)
          <5>1. at + 1 \in 1 .. 42
            BY <1>1
          <5>2. TestOrder[i] \in Known
            BY FeaturesOrdered
          <5>3. TestOrder[i] = test => i = at + 1
            BY <5>1, OrderOfTests
          <5> QED
            BY <5>2, <5>3
        <4>2. CASE i = at + 1
          BY SMTT(30), Z3T(30), <1>1, <2>1, <2>4, <4>2 DEF LoadInv, LoadTypeOK
        <4>3. CASE i # at + 1
          BY SMTT(30), Z3T(30), <1>1, <2>1, <2>4, <4>1, <4>3 DEF LoadInv, LoadTypeOK, TestsRun
        <4> QED
          BY <4>2, <4>3
      <3>2. ASSUME NEW f \in {"input", "inputtypes"}
            PROVE  results'[f] = Undefined <=> phase' \in {"tests", "failed"}
        BY <1>1, <2>1, <2>4, FeaturesOrdered DEF LoadInv, TestsRun
      <3> QED
        BY <3>1, <3>2 DEF TestsRun
    <2>7. Phases'
      BY <1>1, <2>1, <2>4, FeaturesOrdered DEF LoadInv, Phases
    <2> QED
      BY <1>1, <2>1, <2>2, <2>5, <2>6, <2>7 DEF LoadInv
  <1> QED
    BY <1>2, <1>3

LEMMA WebformsStep ==
    ASSUME LoadInv, Webforms
    PROVE  /\ LoadInv'
           /\ \A f \in Known : f \notin {"input", "inputtypes"} => results'[f] = results[f]
  <1>1. /\ phase = "tests" /\ at = 42 /\ phase' = "shiv" /\ mStyle' = {}
        /\ results' = [results EXCEPT !["input"] = "object", !["inputtypes"] = "object"]
        /\ UNCHANGED <<browser, at, html, hasBody, stack, odd, threw>>
    BY OrderOfTests DEF Webforms
  <1>2. /\ results' \in [Known -> Results \cup {"object"}]
        /\ results'["input"] = "object" /\ results'["inputtypes"] = "object"
        /\ \A f \in Known : f \notin {"input", "inputtypes"} => results'[f] = results[f]
    BY <1>1, FeaturesOrdered DEF LoadInv, LoadTypeOK
  <1>3. inputs' \subseteq InputAttributes \cup InputTypes
    BY DEF Webforms
  <1>4. LoadTypeOK'
    BY <1>1, <1>2, <1>3 DEF LoadInv, LoadTypeOK
  <1>5. TestsRun'
    <2>1. \A i \in 1 .. 42 : results'[TestOrder[i]] = results[TestOrder[i]]
      <3>1. ASSUME NEW i \in 1 .. 42
            PROVE  TestOrder[i] \in Known /\ TestOrder[i] \notin {"input", "inputtypes"}
        BY OrderOfTests, FeaturesOrdered
      <3> QED
        BY <1>2, <3>1
    <2> QED
      BY <1>1, <1>2, <2>1 DEF LoadInv, TestsRun, Undefined
  <1>6. Phases'
    BY <1>1, <1>2, FeaturesOrdered, ModernizrAssumption DEF LoadInv, Phases
  <1> QED
    BY <1>2, <1>4, <1>5, <1>6 DEF LoadInv

\* Once loaded, only the results of features that scripts add may change.
LEMMA LoadedKeeps ==
    ASSUME LoadInv, phase = "loaded", UNCHANGED <<loading, inputs>>,
           results' \in [Known -> Results \cup {"object"}],
           \A g \in Known : g \notin NewFeatures \ Features => results'[g] = results[g],
           odd' \subseteq NewFeatures, threw' \in BOOLEAN, hasBody' \in BOOLEAN
    PROVE  LoadInv'
  <1>1. UNCHANGED <<browser, at, phase, mStyle>>
    BY DEF loading
  <1>2. LoadTypeOK'
    BY <1>1 DEF LoadInv, LoadTypeOK
  <1>3. TestsRun'
    <2>1. \A i \in 1 .. 42 : results'[TestOrder[i]] = results[TestOrder[i]]
      BY FeaturesOrdered
    <2>2. \A f \in {"input", "inputtypes"} : results'[f] = results[f]
      BY FeaturesOrdered, ModernizrAssumption
    <2> QED
      BY <1>1, <2>1, <2>2 DEF LoadInv, TestsRun
  <1> QED
    BY <1>1, <1>2, <1>3 DEF LoadInv, Phases

-----------------------------------------------------------------------------
(***************************************************************************)
(* The calls in progress.  A test in progress is of a feature that scripts *)
(* add and that has no result yet; one that has, or that is in progress    *)
(* twice, is among the odd ones.                                           *)
(***************************************************************************)
CallType == [kind : {"test", "object", "styles"}, feature : Known \cup {""},
             keys : SUBSET NewFeatures, body : {"own", "fake", "none"},
             saved : {"visible", "hidden"}]

CallsInv ==
    /\ stack \in Seq(CallType) /\ Len(stack) =< MaxDepth
    /\ \A i \in 1 .. Len(stack) : stack[i].kind = "test" =>
          /\ stack[i].feature \in NewFeatures \ Features
          /\ results[stack[i].feature] = Undefined \/ stack[i].feature \in odd
    /\ \A i, j \in 1 .. Len(stack) :
          i < j /\ stack[i].kind = "test" /\ stack[j].kind = "test"
            => stack[i].feature # stack[j].feature \/ stack[i].feature \in odd

\* The same calls, but for the keys still to be added.
Alike(s, t) ==
    /\ t \in Seq(CallType) /\ Len(t) = Len(s)
    /\ \A i \in 1 .. Len(s) : /\ t[i].kind = s[i].kind /\ t[i].feature = s[i].feature
                              /\ t[i].body = s[i].body /\ t[i].saved = s[i].saved

LEMMA PushedCall ==
    ASSUME NEW s \in Seq(CallType), NEW c \in CallType
    PROVE  /\ Append(s, c) \in Seq(CallType) /\ Len(Append(s, c)) = Len(s) + 1
           /\ Len(s) \in Nat
           /\ \A i \in 1 .. Len(s) : Append(s, c)[i] = s[i]
           /\ Append(s, c)[Len(s) + 1] = c
  BY SMTT(30), Z3T(30)

LEMMA CutCalls ==
    ASSUME NEW s \in Seq(CallType), NEW depth \in 0 .. Len(s)
    PROVE  /\ SubSeq(s, 1, depth) \in Seq(CallType) /\ Len(SubSeq(s, 1, depth)) = depth
           /\ \A i \in 1 .. depth : SubSeq(s, 1, depth)[i] = s[i]
  BY SMTT(30), Z3T(30)

LEMMA PoppedCall ==
    ASSUME stack \in Seq(CallType), stack # <<>>
    PROVE  /\ Below \in Seq(CallType) /\ Len(Below) = Len(stack) - 1
           /\ Len(stack) \in Nat \ {0}
           /\ \A i \in 1 .. Len(stack) - 1 : Below[i] = stack[i]
           /\ Top = stack[Len(stack)] /\ Top \in CallType
  <1>1. Len(stack) \in Nat \ {0} /\ Len(stack) - 1 \in 0 .. Len(stack)
    BY SMTT(30), Z3T(30)
  <1>2. Top = stack[Len(stack)] /\ Top \in CallType
    BY SMTT(30), Z3T(30), <1>1 DEF Top
  <1>3. PICK n \in 0 .. Len(stack) : n = Len(stack) - 1
    BY <1>1
  <1> QED
    BY <1>1, <1>2, <1>3, CutCalls DEF Below

LEMMA ChangedKeys ==
    ASSUME stack \in Seq(CallType), stack # <<>>, NEW f
    PROVE  Alike(stack, Append(Below, [Top EXCEPT !.keys = @ \ {f}]))
  <1> DEFINE c == [Top EXCEPT !.keys = @ \ {f}]
             t == Append(Below, c)
  <1>1. /\ c \in CallType /\ c.kind = Top.kind /\ c.feature = Top.feature
        /\ c.body = Top.body /\ c.saved = Top.saved
    BY PoppedCall DEF CallType
  <1>2. /\ t \in Seq(CallType) /\ Len(t) = Len(stack)
        /\ \A i \in 1 .. Len(stack) - 1 : t[i] = stack[i]
        /\ t[Len(stack)] = c /\ Top = stack[Len(stack)] /\ Len(stack) \in Nat
    <2>1. /\ Below \in Seq(CallType) /\ Len(Below) = Len(stack) - 1
          /\ Len(stack) \in Nat \ {0} /\ Top = stack[Len(stack)]
          /\ \A i \in 1 .. Len(stack) - 1 : Below[i] = stack[i]
      BY PoppedCall
    <2>2. /\ t \in Seq(CallType) /\ Len(t) = Len(Below) + 1
          /\ \A i \in 1 .. Len(Below) : t[i] = Below[i]
          /\ t[Len(Below) + 1] = c
      BY SMTT(30), Z3T(30), <1>1, <2>1, PushedCall
    <2> QED
      BY SMTT(30), Z3T(30), <2>1, <2>2
  <1> HIDE DEF c, t
  <1> QED
    <2>1. \A i \in 1 .. Len(stack) : i \in 1 .. Len(stack) - 1 \/ i = Len(stack)
      BY SMTT(30), Z3T(30), <1>2
    <2>2. Alike(stack, t)
      BY <1>1, <1>2, <2>1 DEF Alike
    <2> QED
      BY <2>2 DEF t, c

\* Calls that stay keep their place among the odd ones.
LEMMA KeptCalls ==
    ASSUME CallsInv, stack' \in Seq(CallType), Len(stack') =< Len(stack),
           Len(stack) \in Nat, Len(stack') \in Nat, MaxDepth \in Nat,
           \A i \in 1 .. Len(stack') :
              stack'[i].kind = stack[i].kind /\ stack'[i].feature = stack[i].feature,
           odd \subseteq odd',
           \A i \in 1 .. Len(stack') : stack[i].kind = "test" =>
              \/ results'[stack[i].feature] = results[stack[i].feature]
              \/ stack[i].feature \in odd'
    PROVE  CallsInv'
  <1>1. \A i \in 1 .. Len(stack') : i \in 1 .. Len(stack)
    BY SMTT(30), Z3T(30)
  <1>2. Len(stack') =< MaxDepth
    BY SMTT(30), Z3T(30) DEF CallsInv
  <1>3. ASSUME NEW i \in 1 .. Len(stack'), stack'[i].kind = "test"
        PROVE  /\ stack'[i].feature \in NewFeatures \ Features
               /\ results'[stack'[i].feature] = Undefined \/ stack'[i].feature \in odd'
    BY <1>1, <1>3 DEF CallsInv
  <1>4. ASSUME NEW i \in 1 .. Len(stack'), NEW j \in 1 .. Len(stack'),
               i < j, stack'[i].kind = "test", stack'[j].kind = "test"
        PROVE  stack'[i].feature # stack'[j].feature \/ stack'[i].feature \in odd'
    BY <1>1, <1>4 DEF CallsInv
  <1> QED
    BY <1>2, <1>3, <1>4 DEF CallsInv

\* A call on top of calls that stay: of testStyles, of addTest with an object, or
\* of a test that has no result.
LEMMA PushedKeeps ==
    ASSUME CallsInv, NEW base, Alike(stack, base), Len(base) < MaxDepth,
           NEW c \in CallType, stack' = Append(base, c), UNCHANGED results,
           odd \subseteq odd',
           c.kind = "test" =>
              /\ c.feature \in NewFeatures \ Features /\ results[c.feature] = Undefined
              /\ Entered(c.feature) => c.feature \in odd'
    PROVE  CallsInv'
  <1> DEFINE n == Len(stack)
  <1>1. n \in Nat /\ MaxDepth \in Nat /\ Len(base) = n /\ base \in Seq(CallType)
        /\ DOMAIN stack = 1 .. n
    BY SMTT(30), Z3T(30), ModernizrAssumption DEF CallsInv, Alike
  <1>2. /\ stack' \in Seq(CallType) /\ Len(stack') = n + 1
        /\ \A i \in 1 .. n : stack'[i] = base[i]
        /\ stack'[n + 1] = c
    BY SMTT(30), Z3T(30), <1>1, PushedCall
  <1>3. /\ \A i \in 1 .. n : /\ stack'[i].kind = stack[i].kind
                             /\ stack'[i].feature = stack[i].feature
        /\ \A i \in 1 .. n + 1 : i \in 1 .. n \/ i = n + 1
    BY SMTT(30), Z3T(30), <1>1, <1>2 DEF Alike
  <1> HIDE DEF n
  <1>4. Len(stack') =< MaxDepth
    BY SMTT(30), Z3T(30), <1>1, <1>2
  <1>5. ASSUME NEW i \in 1 .. Len(stack'), stack'[i].kind = "test"
        PROVE  /\ stack'[i].feature \in NewFeatures \ Features
               /\ results'[stack'[i].feature] = Undefined \/ stack'[i].feature \in odd'
    <2>1. CASE i \in 1 .. n
      BY <1>3, <1>5, <2>1 DEF CallsInv, n
    <2>2. CASE i = n + 1
      BY <1>2, <1>5, <2>2
    <2> QED
      BY <1>2, <1>3, <2>1, <2>2
  <1>6. ASSUME NEW i \in 1 .. Len(stack'), NEW j \in 1 .. Len(stack'),
               i < j, stack'[i].kind = "test", stack'[j].kind = "test"
        PROVE  stack'[i].feature # stack'[j].feature \/ stack'[i].feature \in odd'
    <2>1. i \in 1 .. n
      BY SMTT(30), Z3T(30), <1>1, <1>2, <1>6
    <2>2. CASE j \in 1 .. n
      BY <1>3, <1>6, <2>1, <2>2 DEF CallsInv, n
    <2>3. CASE j = n + 1
      <3>1. stack[i].kind = "test" /\ stack'[i].feature = stack[i].feature
        BY <1>3, <1>6, <2>1
      <3>2. stack[i].feature = c.feature => Entered(c.feature)
        BY <1>1, <2>1, <3>1 DEF Entered, n
      <3> QED
        BY <1>2, <1>6, <2>3, <3>1, <3>2
    <2> QED
      BY <1>2, <1>3, <2>2, <2>3
  <1> QED
    BY <1>2, <1>4, <1>5, <1>6 DEF CallsInv

\* What a step of the scripts does to results: nothing, but for features that may
\* be found odd, or one result.
Silent == UNCHANGED <<results, html>> /\ odd \subseteq odd' /\ odd' \subseteq NewFeatures
Settles(f, v) ==
    /\ f \in NewFeatures \ Features /\ v \in Results
    /\ results[f] = Undefined \/ f \in odd
    /\ results[f] = Undefined \/ Entered(f)
    /\ SetResult(f, v)
    /\ odd \subseteq odd' /\ odd' \subseteq odd \cup {f}
    /\ v = Undefined => f \in odd'

\* addTest, for calls base that stay: what has a result keeps it.
LEMMA AddTestStep ==
    ASSUME LoadInv, CallsInv, phase = "loaded", overflow \in {"visible", "hidden"},
           NEW f \in NewFeatures \cup {"canvas", "input"},
           NEW base, Alike(stack, base), AddTest(f, base)
    PROVE  /\ Silent \/ \E v : Settles(f, v)
           /\ CallsInv'
           /\ \/ stack' = base
              \/ stack' = Append(base, Call("test", f, {}))
  <1>1. /\ f \in Known /\ odd \subseteq NewFeatures /\ base \in Seq(CallType)
        /\ Len(base) = Len(stack) /\ Len(stack) \in Nat /\ DOMAIN stack = 1 .. Len(stack)
        /\ \A i \in 1 .. Len(base) :
             base[i].kind = stack[i].kind /\ base[i].feature = stack[i].feature
    <2>1. f \in Known /\ odd \subseteq NewFeatures
      BY FeaturesOrdered DEF LoadInv, LoadTypeOK
    <2>2. stack \in Seq(CallType)
      BY DEF CallsInv
    <2>3. Len(stack) \in Nat /\ DOMAIN stack = 1 .. Len(stack)
      BY SMTT(30), Z3T(30), <2>2
    <2> QED
      BY <2>1, <2>3 DEF Alike
  <1>2. CASE results[f] # Undefined
    <2>1. stack' = base /\ UNCHANGED <<results, html, odd>>
      BY <1>2 DEF AddTest
    <2>2. CallsInv'
      BY SMTT(30), Z3T(30), <1>1, <2>1, KeptCalls, ModernizrAssumption
    <2> QED
      BY <1>1, <2>1, <2>2 DEF Silent
  <1>3. CASE results[f] = Undefined
    <2>1. f \in NewFeatures \ Features
      <3>1. at = 42 /\ \A i \in 1 .. 42 : results[TestOrder[i]] # Undefined
        BY SMTT(30), Z3T(30) DEF LoadInv, Phases, TestsRun
      <3>2. results["input"] # Undefined
        BY DEF LoadInv, TestsRun
      <3> QED
        BY <1>3, <3>1, <3>2, FeaturesOrdered
    <2>2. ASSUME NEW v \in Results, SetResult(f, v), stack' = base,
                 odd' = IF v = Undefined \/ Entered(f) THEN odd \cup {f} ELSE odd
          PROVE  Settles(f, v) /\ CallsInv'
      <3>1. Settles(f, v)
        BY <1>3, <2>1, <2>2 DEF Settles
      <3>2. ASSUME NEW i \in 1 .. Len(stack'), stack[i].kind = "test"
            PROVE  \/ results'[stack[i].feature] = results[stack[i].feature]
                   \/ stack[i].feature \in odd'
        <4>1. CASE stack[i].feature = f
          BY <1>1, <2>2, <3>2, <4>1 DEF Entered
        <4>2. CASE stack[i].feature # f
          BY SMTT(30), Z3T(30), <2>2, <4>2 DEF SetResult, LoadInv, LoadTypeOK
        <4> QED
          BY <4>1, <4>2
      <3> QED
        BY SMTT(30), Z3T(30), <1>1, <2>2, <3>1, <3>2, KeptCalls, ModernizrAssumption DEF Settles
    <2>3. ASSUME Len(base) < MaxDepth, stack' = Append(base, Call("test", f, {})),
                 odd' = IF Entered(f) THEN odd \cup {f} ELSE odd, UNCHANGED <<results, html>>
          PROVE  Silent /\ CallsInv'
      <3>1. Silent
        BY <1>1, <2>1, <2>3 DEF Silent
      <3>2. PICK c \in CallType : /\ c = Call("test", f, {})
                                  /\ c.kind = "test" /\ c.feature = f
        <4>1. /\ Call("test", f, {}) \in CallType
              /\ Call("test", f, {}).kind = "test" /\ Call("test", f, {}).feature = f
          BY <1>1 DEF Call, CallType, Body
        <4> QED
          BY <4>1
      <3> QED
        BY <1>3, <2>1, <2>3, <3>1, <3>2, PushedKeeps
    <2> QED
      BY <1>3, <2>2, <2>3 DEF AddTest
  <1> QED
    BY <1>2, <1>3

Returns == \E v \in Results : Return(v)
Throwing == \E depth \in 0 .. Len(stack) - 1 : Throw(depth)
ScriptSteps ==
    CallAddTest \/ CallAddTests \/ NextKey \/ TestStyles \/ Returns \/ Throwing \/ UseShiv

\* A function given to addTest returns: the result is that of the test on top.
LEMMA ReturnStep ==
    ASSUME LoadInv, CallsInv, NEW v \in Results, Return(v)
    PROVE  /\ Silent \/ Settles(Top.feature, v)
           /\ CallsInv'
           /\ stack # <<>> /\ stack' = Below
           /\ Top.kind # "styles" => UNCHANGED document
  <1> DEFINE call == Top
             n == Len(stack)
  <1>1. /\ stack # <<>> /\ stack' = Below /\ call.kind # "object"
        /\ odd \subseteq NewFeatures
        /\ call.kind # "styles" => UNCHANGED document
    BY DEF Return, Running, LoadInv, LoadTypeOK
  <1>2. /\ stack' \in Seq(CallType) /\ Len(stack') = n - 1 /\ n \in Nat \ {0}
        /\ \A i \in 1 .. n - 1 : stack'[i] = stack[i]
        /\ call = stack[n] /\ call.kind \in {"test", "styles"}
    BY <1>1, PoppedCall DEF CallsInv, CallType
  <1> HIDE DEF call, n
  <1>3. CASE call.kind = "styles"
    <2>1. UNCHANGED <<results, html, odd>>
      BY <1>3 DEF Return, call
    <2>2. CallsInv'
      BY SMTT(30), Z3T(30), <1>2, <2>1, KeptCalls, ModernizrAssumption DEF n
    <2> QED
      BY <1>1, <2>1, <2>2 DEF Silent, call
  <1>4. CASE call.kind = "test"
    <2>1. /\ SetResult(call.feature, v)
          /\ odd' = IF v = Undefined THEN odd \cup {call.feature} ELSE odd
      BY <1>4 DEF Return, call
    <2>2. /\ call.feature \in NewFeatures \ Features
          /\ results[call.feature] = Undefined \/ call.feature \in odd
      BY SMTT(30), Z3T(30), <1>2, <1>4 DEF CallsInv, n
    <2>3. Settles(call.feature, v)
      <3>1. n \in DOMAIN stack
        BY SMTT(30), Z3T(30), <1>2 DEF CallsInv, n
      <3>2. Entered(call.feature)
        BY <1>2, <1>4, <3>1 DEF Entered
      <3> QED
        BY <2>1, <2>2, <3>2 DEF Settles
    <2>4. ASSUME NEW i \in 1 .. Len(stack'), stack[i].kind = "test"
          PROVE  \/ results'[stack[i].feature] = results[stack[i].feature]
                 \/ stack[i].feature \in odd'
      <3>1. i \in 1 .. n /\ n \in 1 .. n /\ i < n
        BY SMTT(30), Z3T(30), <1>2
      <3>2. CASE stack[i].feature = call.feature
        BY <1>2, <1>4, <2>1, <2>4, <3>1, <3>2 DEF CallsInv, n
      <3>3. CASE stack[i].feature # call.feature
        BY SMTT(30), Z3T(30), <2>1, <3>3 DEF SetResult, LoadInv, LoadTypeOK
      <3> QED
        BY <3>2, <3>3
    <2>5. CallsInv'
      BY SMTT(30), Z3T(30), <1>2, <2>3, <2>4, KeptCalls, ModernizrAssumption DEF n, Settles
    <2> QED
      BY <1>1, <1>4, <2>3, <2>5 DEF call
  <1> QED
    BY <1>2, <1>3, <1>4

LEMMA ThrowStep ==
    ASSUME LoadInv, CallsInv, NEW depth \in 0 .. Len(stack) - 1, Throw(depth)
    PROVE  /\ Silent /\ CallsInv'
           /\ stack' \in Seq(CallType) /\ Len(stack') = depth /\ Len(stack) \in Nat
           /\ \A i \in 1 .. depth : stack'[i] = stack[i]
  <1>1. stack \in Seq(CallType) /\ Len(stack) \in Nat
    BY SMTT(30), Z3T(30) DEF CallsInv
  <1>2. /\ stack' = SubSeq(stack, 1, depth) /\ UNCHANGED <<results, html, odd>>
        /\ depth \in 0 .. Len(stack) /\ odd \subseteq NewFeatures
    BY SMTT(30), Z3T(30), <1>1 DEF Throw, LoadInv, LoadTypeOK
  <1>3. /\ stack' \in Seq(CallType) /\ Len(stack') = depth
        /\ \A i \in 1 .. depth : stack'[i] = stack[i]
    BY <1>1, <1>2, CutCalls
  <1>4. CallsInv'
    BY SMTT(30), Z3T(30), <1>1, <1>2, <1>3, KeptCalls, ModernizrAssumption
  <1> QED
    BY <1>1, <1>2, <1>3, <1>4 DEF Silent

LEMMA ScriptStep ==
    ASSUME LoadInv, CallsInv, overflow \in {"visible", "hidden"}, ScriptSteps
    PROVE  /\ phase = "loaded" /\ UNCHANGED <<loading, inputs, hasBody>> /\ threw' \in BOOLEAN
           /\ Silent \/ \E f, v : Settles(f, v)
           /\ CallsInv'
  <1>1. /\ odd \subseteq NewFeatures /\ threw \in BOOLEAN
        /\ stack \in Seq(CallType) /\ Len(stack) \in Nat
        /\ stack # <<>> => phase = "loaded"
    BY SMTT(30), Z3T(30) DEF LoadInv, LoadTypeOK, Phases, CallsInv
  <1>2. phase = "loaded" /\ UNCHANGED <<loading, inputs, hasBody>> /\ threw' \in BOOLEAN
    BY <1>1 DEF ScriptSteps, CallAddTest, CallAddTests, NextKey, TestStyles, Returns, Return,
                Throwing, Throw, UseShiv, MayCall, Running
  <1>3. Alike(stack, stack)
    BY <1>1 DEF Alike
  <1>4. CASE CallAddTest
    BY <1>2, <1>3, <1>4, AddTestStep DEF CallAddTest
  <1>5. ASSUME NEW kind \in {"object", "styles"}, NEW keys \in SUBSET NewFeatures,
               Len(stack) < MaxDepth, stack' = Append(stack, Call(kind, "", keys)),
               UNCHANGED <<results, html, odd>>
        PROVE  Silent /\ CallsInv'
    <2>1. PICK c \in CallType : c = Call(kind, "", keys) /\ c.kind # "test"
      <3>1. /\ Call(kind, "", keys) \in CallType /\ Call(kind, "", keys).kind # "test"
        BY DEF Call, CallType, Body
      <3> QED
        BY <3>1
    <2> QED
      BY <1>1, <1>3, <1>5, <2>1, PushedKeeps DEF Silent
  <1>6. CASE CallAddTests \/ TestStyles
    <2>1. {} \in SUBSET NewFeatures /\ NewFeatures \in SUBSET NewFeatures
      OBVIOUS
    <2> QED
      BY <1>2, <1>5, <1>6, <2>1 DEF CallAddTests, TestStyles
  <1>7. CASE NextKey
    <2>1. stack # <<>>
      BY <1>7 DEF NextKey
    <2>2. CASE Top.keys = {}
      <3>1. stack' = Below /\ UNCHANGED <<results, html, odd>>
        BY <1>7, <2>2 DEF NextKey
      <3>2. /\ stack' \in Seq(CallType) /\ Len(stack') = Len(stack) - 1
            /\ \A i \in 1 .. Len(stack') : stack'[i] = stack[i]
        BY <1>1, <2>1, <3>1, PoppedCall
      <3>3. CallsInv'
        BY SMTT(30), Z3T(30), <1>1, <2>1, <3>1, <3>2, KeptCalls, PoppedCall, ModernizrAssumption
      <3> QED
        BY <1>1, <1>2, <3>1, <3>3 DEF Silent
    <2>3. CASE Top.keys # {}
      <3>1. PICK f \in Top.keys :
              AddTest(f, Append(Below, [Top EXCEPT !.keys = @ \ {f}]))
        BY <1>7, <2>3 DEF NextKey
      <3>2. f \in NewFeatures
        BY <1>1, <2>1, PoppedCall DEF CallType
      <3> QED
        BY <1>1, <1>2, <2>1, <3>1, <3>2, ChangedKeys, AddTestStep
    <2> QED
      BY <2>2, <2>3
  <1>8. CASE Returns
    BY <1>2, <1>8, ReturnStep DEF Returns
  <1>9. CASE Throwing
    BY <1>2, <1>9, ThrowStep DEF Throwing
  <1>10. CASE UseShiv
    BY SMTT(30), Z3T(30), <1>1, <1>2, <1>10 DEF UseShiv, Silent, CallsInv
  <1> QED
    BY <1>4, <1>6, <1>7, <1>8, <1>9, <1>10 DEF ScriptSteps

LEMMA Settled ==
    ASSUME LoadInv, NEW f, NEW v, Settles(f, v)
    PROVE  /\ f \in Known /\ results'[f] = v
           /\ results' \in [Known -> Results \cup {"object"}]
           /\ \A g \in Known : g # f => results'[g] = results[g]
           /\ odd' \subseteq NewFeatures
  BY FeaturesOrdered DEF Settles, SetResult, LoadInv, LoadTypeOK

\* Every step but those of loading is one of the scripts, or the parser's.
LEMMA LoadStep ==
    ASSUME LoadInv, CallsInv, overflow \in {"visible", "hidden"}, [Next]_vars
    PROVE  LoadInv' /\ CallsInv'
  <1>1. CASE UNCHANGED vars
    BY <1>1 DEF vars, modernizrVars, loading, LoadInv, LoadTypeOK, TestsRun, Phases, CallsInv
  <1>2. ASSUME phase # "loaded", UNCHANGED stack PROVE CallsInv'
    <2>1. stack = <<>>
      BY <1>2 DEF LoadInv, Phases
    <2> QED
      BY SMTT(30), Z3T(30), <1>2, <2>1 DEF CallsInv
  <1>3. CASE RunTest
    BY <1>2, <1>3, RunTestStep DEF RunTest
  <1>4. CASE Webforms
    BY <1>2, <1>4, WebformsStep DEF Webforms
  <1>5. CASE ShivMain
    BY <1>2, <1>5 DEF ShivMain, LoadInv, LoadTypeOK, TestsRun, Phases
  <1>6. CASE WriteClasses
    BY <1>2, <1>6 DEF WriteClasses, LoadInv, LoadTypeOK, TestsRun, Phases
  <1>7. CASE ParseBody
    BY <1>7 DEF ParseBody, loading, LoadInv, LoadTypeOK, TestsRun, Phases, CallsInv
  <1>8. CASE ScriptSteps
    <2>1. /\ phase = "loaded" /\ UNCHANGED <<loading, inputs, hasBody>> /\ threw' \in BOOLEAN
          /\ Silent \/ \E f, v : Settles(f, v)
          /\ CallsInv' /\ hasBody \in BOOLEAN
          /\ results \in [Known -> Results \cup {"object"}]
      BY <1>8, ScriptStep DEF LoadInv, LoadTypeOK
    <2>2. CASE Silent
      BY <2>1, <2>2, LoadedKeeps DEF Silent
    <2>3. ASSUME NEW f, NEW v, Settles(f, v) PROVE LoadInv'
      <3>1. /\ results' \in [Known -> Results \cup {"object"}] /\ odd' \subseteq NewFeatures
            /\ \A g \in Known : g \notin NewFeatures \ Features => results'[g] = results[g]
        BY <2>3, Settled DEF Settles
      <3> QED
        BY <2>1, <3>1, LoadedKeeps
    <2> QED
      BY <2>1, <2>2, <2>3
  <1> QED
    BY <1>1, <1>3, <1>4, <1>5, <1>6, <1>7, <1>8 DEF Next, ScriptSteps, Returns, Throwing

-----------------------------------------------------------------------------
(***************************************************************************)
(* The invariant of results and calls, and what follows from it.           *)
(***************************************************************************)
OverflowTyped == overflow \in {"visible", "hidden"}
CallsAndResults == LoadInv /\ CallsInv /\ OverflowTyped

LEMMA CallsAndResultsInit == Init => CallsAndResults
  <1> SUFFICES ASSUME Init PROVE CallsAndResults
    OBVIOUS
  <1>1. stack = <<>> /\ overflow = "visible" /\ stack \in Seq(CallType) /\ Len(stack) = 0
    BY SMTT(30), Z3T(30) DEF Init, ModernizrInit
  <1>2. CallsInv
    BY SMTT(30), Z3T(30), <1>1, ModernizrAssumption DEF CallsInv
  <1> QED
    BY <1>1, <1>2, LoadStart DEF CallsAndResults, OverflowTyped

\* Returning from the call that hid the overflow puts a value back that was there.
LEMMA CallsAndResultsStep == CallsAndResults /\ [Next]_vars => CallsAndResults'
  <1> SUFFICES ASSUME CallsAndResults, [Next]_vars PROVE CallsAndResults'
    OBVIOUS
  <1>1. LoadInv' /\ CallsInv'
    BY LoadStep DEF CallsAndResults, OverflowTyped
  <1>2. CASE UNCHANGED overflow
    BY <1>1, <1>2 DEF CallsAndResults, OverflowTyped
  <1>3. CASE Inject
    BY <1>1, <1>3 DEF CallsAndResults, OverflowTyped, Inject
  <1>4. ASSUME NEW v, Return(v) PROVE CallsAndResults'
    <2>1. Top \in CallType
      BY <1>4, PoppedCall DEF CallsAndResults, CallsInv, Return, Running
    <2>2. OverflowTyped'
      BY <1>4, <2>1 DEF CallsAndResults, OverflowTyped, Return, RemoveInjected, document,
                        CallType
    <2> QED
      BY <1>1, <2>2 DEF CallsAndResults
  <1> QED
    BY <1>2, <1>3, <1>4
    DEF Next, RunTest, Webforms, ShivMain, WriteClasses, ParseBody, CallAddTest,
        CallAddTests, NextKey, TestStyles, Throw, UseShiv, vars, modernizrVars, document

LEMMA CallsAndResultsHold == Spec => []CallsAndResults
  BY CallsAndResultsInit, CallsAndResultsStep, PTL DEF Spec

\* The html element has the class no-js until the classes are written; then no feature has
\* the class of anything but its result, odd ones aside.
LEMMA ClassesStep ==
    ASSUME CallsAndResults, ClassesAgree, [Next]_vars PROVE ClassesAgree'
  <1> DEFINE Agrees(f) ==
        /\ results[f] # Undefined => <<f, Truthy(results[f])>> \in html
        /\ f \notin odd => ~({<<f, TRUE>>, <<f, FALSE>>} \subseteq html)
        /\ {<<f, TRUE>>, <<f, FALSE>>} \cap html # {} => results[f] # Undefined \/ f \in odd
  <1>1. CASE UNCHANGED <<html, phase, results, odd>>
    BY <1>1 DEF ClassesAgree
  <1>2. CASE UNCHANGED vars \/ ParseBody \/ UseShiv \/ CallAddTests \/ TestStyles
    BY <1>1, <1>2 DEF vars, modernizrVars, loading, ParseBody, UseShiv, CallAddTests, TestStyles
  <1>3. CASE RunTest \/ Webforms \/ ShivMain
    <2>1. phase # "loaded" /\ phase' # "loaded" /\ UNCHANGED html
      <3>1. CASE RunTest
        BY <3>1, RunTestStep DEF CallsAndResults
      <3>2. CASE Webforms \/ ShivMain
        BY <3>2 DEF Webforms, ShivMain
      <3> QED
        BY <1>3, <3>1, <3>2
    <2> QED
      BY <2>1 DEF ClassesAgree
  <1>4. CASE WriteClasses
    <2>1. /\ phase = "classes" /\ phase' = "loaded" /\ html = {<<"js", FALSE>>}
          /\ html' = {<<"js", TRUE>>} \cup {<<f, Truthy(results[f])>> : f \in Features}
          /\ UNCHANGED <<results, odd>>
      BY <1>4 DEF WriteClasses, ClassesAgree
    <2>2. ASSUME NEW f \in Features \cup NewFeatures PROVE Agrees(f)'
      <3>1. f # "js"
        BY FeaturesOrdered, ModernizrAssumption
      <3>2. \A b : <<f, b>> \in html' <=> f \in Features /\ b = Truthy(results[f])
        BY <2>1, <3>1
      <3>3. f \in Features => results[f] # Undefined
        <4>1. at = 42 /\ \A i \in 1 .. 42 : results[TestOrder[i]] # Undefined
          BY SMTT(30), Z3T(30), <2>1 DEF CallsAndResults, LoadInv, TestsRun, Phases
        <4> QED
          BY <4>1, FeaturesOrdered
      <3>4. f \notin Features => results[f] = Undefined
        BY <2>1 DEF CallsAndResults, LoadInv, Phases
      <3> QED
        BY <2>1, <3>2, <3>3, <3>4
    <2> QED
      BY <2>1, <2>2 DEF ClassesAgree
  <1>5. CASE ScriptSteps
    <2>1. /\ phase = "loaded" /\ phase' = "loaded"
          /\ Silent \/ \E f, v : Settles(f, v)
      BY <1>5, ScriptStep DEF CallsAndResults, OverflowTyped, loading
    <2>2. \A f \in Features \cup NewFeatures : Agrees(f)
      BY <2>1 DEF ClassesAgree
    <2>3. CASE Silent
      <3>1. \A f \in Features \cup NewFeatures : Agrees(f)'
        BY <2>2, <2>3 DEF Silent
      <3> QED
        BY <2>1, <3>1 DEF ClassesAgree
    <2>4. ASSUME NEW f, NEW v, Settles(f, v) PROVE ClassesAgree'
      <3>1. /\ f \in Known /\ results'[f] = v /\ html' = html \cup {<<f, Truthy(v)>>}
            /\ \A g \in Known : g # f => results'[g] = results[g]
            /\ odd \subseteq odd' /\ f \in NewFeatures
            /\ results[f] = Undefined \/ f \in odd
            /\ v = Undefined => f \in odd'
        BY <2>4, Settled DEF CallsAndResults, Settles, SetResult
      <3>2. ASSUME NEW g \in Features \cup NewFeatures, g # f PROVE Agrees(g)'
        <4>1. g \in Known
          BY FeaturesOrdered
        <4>2. \A b : <<g, b>> \in html' <=> <<g, b>> \in html
          BY <3>1, <3>2
        <4> QED
          BY <2>2, <3>1, <3>2, <4>1, <4>2
      <3>3. Agrees(f)'
        <4>1. <<f, Truthy(v)>> \in html'
          BY <3>1
        <4>2. f \notin odd' => <<f, TRUE>> \notin html /\ <<f, FALSE>> \notin html
          BY <2>2, <3>1
        <4>3. f \notin odd' => ~({<<f, TRUE>>, <<f, FALSE>>} \subseteq html')
          BY <3>1, <4>2
        <4> QED
          BY <3>1, <4>1, <4>3
      <3> QED
        BY <2>1, <3>2, <3>3 DEF ClassesAgree
    <2> QED
      BY <2>1, <2>3, <2>4
  <1> QED
    BY <1>2, <1>3, <1>4, <1>5 DEF Next, ScriptSteps, Returns, Throwing

\* The classes of the html element agree with the properties of the Modernizr
\* object (the end of modernizr-latest.js and addTest), for any features, however
\* calls of addTest nest.
THEOREM ClassesAlwaysAgree == Spec => []ClassesAgree
  <1>1. Init => ClassesAgree
    BY DEF Init, ModernizrInit, ClassesAgree
  <1>2. CallsAndResults /\ ClassesAgree /\ [Next]_vars => ClassesAgree'
    BY ClassesStep
  <1> QED
    BY <1>1, <1>2, CallsAndResultsHold, PTL DEF Spec

\* Once no call of addTest for a feature is in progress, its result and its classes
\* are final, whatever tests and calls come after: the tests of the loop have no
\* result before they run, and addTest quits if there is one.
THEOREM ResultsKept == Spec => KeptResults
  <1> DEFINE Kept == \A f \in Known : results[f] # Undefined /\ ~Entered(f) =>
               /\ results'[f] = results[f]
               /\ phase = "loaded" =>
                    \A c \in BOOLEAN : <<f, c>> \in html' <=> <<f, c>> \in html
  <1>1. ASSUME CallsAndResults, [Next]_vars PROVE Kept
    <2>1. CASE UNCHANGED results /\ (phase # "loaded" \/ UNCHANGED html)
      BY <2>1
    <2>2. CASE UNCHANGED vars \/ ParseBody \/ ShivMain \/ WriteClasses
      BY <2>1, <2>2 DEF vars, modernizrVars, ParseBody, ShivMain, WriteClasses
    <2>3. CASE RunTest
      <3>1. /\ at \in 0 .. 42 /\ at < 42
            /\ results \in [Known -> Results \cup {"object"}]
            /\ UNCHANGED results \/ \E v : results' = [results EXCEPT ![TestOrder[at + 1]] = v]
        BY <1>1, <2>3, RunTestStep DEF CallsAndResults, LoadInv, LoadTypeOK
      <3>2. results[TestOrder[at + 1]] = Undefined
        <4>1. at + 1 \in 1 .. 42 /\ at + 1 > at
          BY SMTT(30), Z3T(30), <3>1
        <4> QED
          BY <1>1, <4>1 DEF CallsAndResults, LoadInv, TestsRun
      <3>3. phase # "loaded"
        BY <2>3 DEF RunTest
      <3> QED
        BY <2>1, <3>1, <3>2, <3>3
    <2>4. CASE Webforms
      <3>1. /\ phase = "tests"
            /\ \A f \in Known : f \notin {"input", "inputtypes"} => results'[f] = results[f]
        BY <1>1, <2>4, WebformsStep DEF CallsAndResults, Webforms
      <3>2. results["input"] = Undefined /\ results["inputtypes"] = Undefined
        BY <1>1, <3>1 DEF CallsAndResults, LoadInv, TestsRun
      <3> QED
        BY <3>1, <3>2
    <2>5. CASE ScriptSteps
      <3>1. Silent \/ \E f, v : Settles(f, v)
        BY <1>1, <2>5, ScriptStep DEF CallsAndResults, OverflowTyped
      <3>2. CASE Silent
        BY <2>1, <3>2 DEF Silent
      <3>3. ASSUME NEW f, NEW v, Settles(f, v) PROVE Kept
        <4>1. /\ \A g \in Known : g # f => results'[g] = results[g]
              /\ html' = html \cup {<<f, Truthy(v)>>}
              /\ results[f] = Undefined \/ Entered(f)
          BY <1>1, <3>3, Settled DEF CallsAndResults, Settles, SetResult
        <4>2. \A g \in Known, c \in BOOLEAN : g # f => (<<g, c>> \in html' <=> <<g, c>> \in html)
          BY <4>1
        <4> QED
          BY <4>1, <4>2
      <3> QED
        BY <3>1, <3>2, <3>3
    <2> QED
      BY <1>1, <2>2, <2>3, <2>4, <2>5 DEF Next, ScriptSteps, Returns, Throwing
  <1>2. CallsAndResults /\ [Next]_vars => [Kept]_vars
    BY <1>1
  <1> QED
    BY <1>2, CallsAndResultsHold, PTL DEF Spec, KeptResults

-----------------------------------------------------------------------------
(***************************************************************************)
(* html5shiv.  Every document has a number of its own, and what is kept    *)
(* under it tells how often it was shived: its style sheet was added if    *)
(* hasCSS says so, and its createElement is replaced just if the saved one *)
(* is the browser's.                                                       *)
(***************************************************************************)
Methods == {Native(d) : d \in Docs} \cup {Replaced(d) : d \in Docs}
Data == [cached : BOOLEAN, cache : SUBSET CloneNames, hasCSS : BOOLEAN, createElem : Methods]
Numbered == {d \in Docs : expando[d] # 0}

NumbersOwn ==
    /\ expanID = Cardinality(Numbered)
    /\ expando \in [Docs -> 0 .. expanID]
    /\ \A d, e \in Docs : expando[d] = expando[e] /\ expando[d] # 0 => d = e

OwnData(d) ==
    IF expando[d] = 0 THEN method[d] = Native(d) /\ sheets[d] = 0
    ELSE /\ sheets[d] = IF expandoData[expando[d]].hasCSS THEN 1 ELSE 0
         /\ IF expandoData[expando[d]].cached
              THEN method[d] = Replaced(d) /\ expandoData[expando[d]].createElem = Native(d)
              ELSE method[d] = Native(d)

OutcomeOwn ==
    \/ outcome.by = Native(outcome.doc)
    \/ outcome.by = TypeError(outcome.doc) /\ ~supportsUnknownElements

ShivInv ==
    /\ supportsUnknownElements \in BOOLEAN /\ supportsHtml5Styles \in BOOLEAN
    /\ html5 \in [shivCSS : BOOLEAN, shivMethods : BOOLEAN]
    /\ NumbersOwn
    /\ expandoData \in [Ids -> Data]
    /\ \A i \in Ids : i > expanID => ~expandoData[i].cached /\ ~expandoData[i].hasCSS
    /\ method \in [Docs -> Methods] /\ sheets \in [Docs -> Nat]
    /\ \A d \in Docs : OwnData(d)
    /\ supportsUnknownElements => \A d \in Docs : method[d] = Native(d)
    /\ OutcomeOwn

LEMMA MethodsDiffer == \A d, e \in Docs : Native(d) # Replaced(e)
  BY DEF Native, Replaced

LEMMA NumbersBound ==
    ASSUME NumbersOwn
    PROVE  /\ Cardinality(Docs) \in Nat /\ expanID \in 0 .. Cardinality(Docs)
           /\ \A d \in Docs : expando[d] # 0 => expando[d] \in Ids
  <1>1. Cardinality(Docs) \in Nat
    BY ShivAssumption, FS_CardinalityType
  <1>2. IsFiniteSet(Numbered) /\ Cardinality(Numbered) =< Cardinality(Docs)
    BY ShivAssumption, FS_Subset DEF Numbered
  <1>3. Cardinality(Numbered) \in Nat
    BY <1>2, FS_CardinalityType
  <1> QED
    BY SMTT(30), Z3T(30), <1>1, <1>2, <1>3 DEF NumbersOwn, Ids

\* getExpandoData gives a document the next number, or finds the one it has.
LEMMA ExpandoDataStep ==
    ASSUME NumbersOwn, NEW d \in Docs, ExpandoData(d)
    PROVE  /\ NumbersOwn'
           /\ expando'[d] \in Ids /\ expando'[d] # 0
           /\ expanID' >= expanID /\ expanID \in Nat /\ expanID' \in Nat
           /\ \/ expando[d] # 0 /\ UNCHANGED <<expanID, expando>>
              \/ expando[d] = 0 /\ expando'[d] = expanID + 1 /\ expanID' = expanID + 1
           /\ \A e \in Docs \ {d} : expando'[e] = expando[e] /\ expando'[e] # expando'[d]
  <1>1. Cardinality(Docs) \in Nat /\ expanID \in 0 .. Cardinality(Docs)
    BY NumbersBound
  <1>2. CASE expando[d] # 0
    <2>1. UNCHANGED <<expanID, expando>>
      BY <1>2 DEF ExpandoData
    <2>2. NumbersOwn'
      BY <2>1 DEF NumbersOwn, Numbered
    <2> QED
      BY SMTT(30), Z3T(30), <1>1, <1>2, <2>1, <2>2, NumbersBound DEF NumbersOwn
  <1>3. CASE expando[d] = 0
    <2>1. expanID' = expanID + 1 /\ expando' = [expando EXCEPT ![d] = expanID + 1]
      BY <1>3 DEF ExpandoData
    <2>2. Numbered' = Numbered \cup {d} /\ d \notin Numbered
      BY SMTT(30), Z3T(30), <1>1, <1>3, <2>1 DEF Numbered, NumbersOwn
    <2>3. IsFiniteSet(Numbered)
      BY ShivAssumption, FS_Subset DEF Numbered
    <2>4. Cardinality(Numbered') = expanID + 1
      BY <2>2, <2>3, FS_AddElement DEF NumbersOwn
    <2>5. /\ expando'[d] = expanID + 1
          /\ \A e \in Docs \ {d} : expando'[e] = expando[e] /\ expando[e] \in 0 .. expanID
      BY <2>1 DEF NumbersOwn
    <2>6. NumbersOwn'
      BY SMTT(30), Z3T(30), <1>1, <2>1, <2>4, <2>5 DEF NumbersOwn
    <2>7. expando'[d] \in Ids
      <3>1. Cardinality(Numbered') =< Cardinality(Docs)
        <4>1. Numbered' \in SUBSET Docs /\ IsFiniteSet(Docs)
          BY ShivAssumption DEF Numbered
        <4> QED
          BY <4>1, FS_Subset
      <3> QED
        BY SMTT(30), Z3T(30), <1>1, <2>4, <2>5, <3>1 DEF Ids
    <2> QED
      BY SMTT(30), Z3T(30), <1>1, <1>3, <2>1, <2>5, <2>6, <2>7
  <1> QED
    BY <1>2, <1>3

\* shivDocument saves the method of the document the first time only, and adds the
\* style sheet the first time it may.
LEMMA ShivDocumentStep ==
    ASSUME ShivInv, NEW d \in Docs, ShivDocument(d) PROVE ShivInv'
  <1>1. PICK id : id = expando'[d]
    OBVIOUS
  <1>2. PICK styles \in BOOLEAN :
          styles <=> html5.shivCSS /\ ~supportsHtml5Styles /\ ~expandoData[id].hasCSS
    OBVIOUS
  <1>3. /\ NumbersOwn' /\ id \in Ids /\ id # 0
        /\ expanID' >= expanID /\ expanID \in Nat /\ expanID' \in Nat
        /\ \/ expando[d] = id /\ UNCHANGED <<expanID, expando>>
           \/ expando[d] = 0 /\ id = expanID + 1 /\ expanID' = expanID + 1
        /\ \A e \in Docs \ {d} : expando'[e] = expando[e] /\ expando'[e] # id
    BY <1>1, ExpandoDataStep DEF ShivDocument, ShivInv
  <1>4. PICK new : new = expandoData'[id]
    OBVIOUS
  <1>5. /\ expandoData' = [expandoData EXCEPT ![id] = new] /\ new \in Data
        /\ new.hasCSS <=> expandoData[id].hasCSS \/ styles
        /\ new.cached <=> expandoData[id].cached \/ ~supportsUnknownElements
        /\ new.createElem = IF expandoData[id].cached \/ supportsUnknownElements
                              THEN expandoData[id].createElem ELSE method[d]
    <2> DEFINE old == expandoData[id]
               data == IF styles THEN AddStyleSheet(d, old) ELSE old
               saved == IF supportsUnknownElements THEN data ELSE SaveMethods(d, data)
    <2>1. expandoData' = [expandoData EXCEPT ![id] = saved]
      BY <1>1, <1>2 DEF ShivDocument
    <2>2. old \in Data /\ method[d] \in Methods
      BY <1>3 DEF ShivInv
    <2>3. /\ data \in Data /\ data.cached = old.cached /\ data.createElem = old.createElem
          /\ data.hasCSS <=> old.hasCSS \/ styles
      BY <2>2 DEF AddStyleSheet, Data
    <2>4. /\ saved \in Data
          /\ saved.hasCSS = data.hasCSS
          /\ saved.cached <=> data.cached \/ ~supportsUnknownElements
          /\ saved.createElem = IF data.cached \/ supportsUnknownElements
                                  THEN data.createElem ELSE method[d]
      BY <2>2, <2>3 DEF SaveMethods, Data
    <2>5. new = saved
      BY SMTT(30), Z3T(30), <1>3, <1>4, <2>1 DEF ShivInv
    <2> QED
      BY <2>1, <2>3, <2>4, <2>5
  <1>6. /\ sheets' = [sheets EXCEPT ![d] = IF styles THEN @ + 1 ELSE @]
        /\ method' = [method EXCEPT ![d] = IF supportsUnknownElements THEN @ ELSE Replaced(d)]
        /\ UNCHANGED <<supportsUnknownElements, supportsHtml5Styles, html5, outcome>>
    BY <1>1, <1>2 DEF ShivDocument
  <1>7. /\ expandoData' \in [Ids -> Data] /\ expandoData'[id] = new
        /\ \A i \in Ids : i # id => expandoData'[i] = expandoData[i]
        /\ method' \in [Docs -> Methods] /\ sheets' \in [Docs -> Nat]
    BY SMTT(30), Z3T(30), <1>3, <1>5, <1>6 DEF ShivInv, Methods
  <1>8. ASSUME NEW e \in Docs \ {d} PROVE OwnData(e)'
    <2>1. expando'[e] = expando[e] /\ expando[e] # id
      BY <1>3
    <2>2. expando[e] # 0 => expandoData'[expando[e]] = expandoData[expando[e]]
      BY <1>7, <2>1, NumbersBound DEF ShivInv
    <2>3. method'[e] = method[e] /\ sheets'[e] = sheets[e] /\ OwnData(e)
      BY <1>6 DEF ShivInv
    <2> QED
      BY <2>1, <2>2, <2>3 DEF OwnData
  <1>9. OwnData(d)'
    <2>1. /\ method'[d] = IF supportsUnknownElements THEN method[d] ELSE Replaced(d)
          /\ sheets'[d] = IF styles THEN sheets[d] + 1 ELSE sheets[d]
      BY <1>6 DEF ShivInv
    <2>2. CASE expando[d] = id
      BY SMTT(30), Z3T(30), <1>1, <1>2, <1>3, <1>5, <1>7, <2>1, <2>2 DEF ShivInv, OwnData
    <2>3. CASE expando[d] = 0
      <3>1. ~expandoData[id].cached /\ ~expandoData[id].hasCSS
        BY SMTT(30), Z3T(30), <1>3, <2>3 DEF ShivInv
      <3> QED
        BY SMTT(30), Z3T(30), <1>1, <1>2, <1>3, <1>5, <1>7, <2>1, <2>3, <3>1 DEF ShivInv, OwnData
    <2> QED
      BY <1>3, <2>2, <2>3
  <1>10. \A i \in Ids : i > expanID' => ~expandoData'[i].cached /\ ~expandoData'[i].hasCSS
    <2>1. id =< expanID'
      BY SMTT(30), Z3T(30), <1>1, <1>3 DEF NumbersOwn
    <2> QED
      BY SMTT(30), Z3T(30), <1>3, <1>7, <2>1, NumbersBound DEF ShivInv, Ids
  <1>11. supportsUnknownElements' => \A e \in Docs : method'[e] = Native(e)
    BY <1>6 DEF ShivInv
  <1> QED
    BY SMTT(30), Z3T(30), <1>3, <1>6, <1>7, <1>8, <1>9, <1>10, <1>11 DEF ShivInv, OutcomeOwn

\* Making elements may number a document and keep clones, and changes nothing else.
LEMMA CloningKeepsShiv ==
    ASSUME ShivInv, NEW d \in Docs, ExpandoData(d) \/ UNCHANGED <<expanID, expando>>,
           expandoData' \in [Ids -> Data],
           \A i \in Ids : /\ expandoData'[i].cached = expandoData[i].cached
                          /\ expandoData'[i].hasCSS = expandoData[i].hasCSS
                          /\ expandoData'[i].createElem = expandoData[i].createElem,
           UNCHANGED <<supportsUnknownElements, supportsHtml5Styles, html5, method, sheets>>,
           OutcomeOwn'
    PROVE  ShivInv'
  <1>1. /\ NumbersOwn' /\ expanID' >= expanID /\ expanID \in Nat /\ expanID' \in Nat
        /\ \/ UNCHANGED <<expanID, expando>>
           \/ /\ expando[d] = 0 /\ expando'[d] = expanID + 1 /\ expanID' = expanID + 1
              /\ expando'[d] \in Ids
        /\ \A e \in Docs \ {d} : expando'[e] = expando[e]
    <2>1. CASE UNCHANGED <<expanID, expando>>
      BY SMTT(30), Z3T(30), <2>1, NumbersBound DEF ShivInv, NumbersOwn, Numbered
    <2>2. CASE ExpandoData(d)
      BY <2>2, ExpandoDataStep DEF ShivInv
    <2> QED
      BY <2>1, <2>2
  <1>2. ASSUME NEW e \in Docs PROVE OwnData(e)'
    <2>1. OwnData(e) /\ method'[e] = method[e] /\ sheets'[e] = sheets[e]
      BY DEF ShivInv
    <2>2. CASE expando'[e] = expando[e]
      BY SMTT(30), Z3T(30), <2>1, <2>2, NumbersBound DEF ShivInv, OwnData
    <2>3. CASE expando'[e] # expando[e]
      <3>1. /\ expando[e] = 0 /\ expando'[e] = expanID + 1 /\ expanID + 1 \in Ids
            /\ expando'[e] # 0
        BY SMTT(30), Z3T(30), <1>1, <2>3
      <3>2. ~expandoData[expanID + 1].cached /\ ~expandoData[expanID + 1].hasCSS
        BY SMTT(30), Z3T(30), <1>1, <3>1 DEF ShivInv
      <3> QED
        BY SMTT(30), Z3T(30), <2>1, <3>1, <3>2 DEF OwnData
    <2> QED
      BY <2>2, <2>3
  <1>3. ASSUME NEW i \in Ids, i > expanID'
        PROVE  ~expandoData'[i].cached /\ ~expandoData'[i].hasCSS
    <2>1. i > expanID
      BY SMTT(30), Z3T(30), <1>1, <1>3, NumbersBound DEF ShivInv, Ids
    <2> QED
      BY <2>1 DEF ShivInv
  <1> QED
    BY <1>1, <1>2, <1>3 DEF ShivInv

\* The data of a number is used for elements of the document that has the number.
LEMMA FromDataOwn ==
    ASSUME ShivInv, NEW d \in Docs, NEW id \in Ids, NEW name, FromData(d, name, id),
           expandoData[id].createElem = Native(d)
    PROVE  /\ OutcomeOwn'
           /\ expandoData' \in [Ids -> Data]
           /\ \A i \in Ids : /\ expandoData'[i].cached = expandoData[i].cached
                             /\ expandoData'[i].hasCSS = expandoData[i].hasCSS
                             /\ expandoData'[i].createElem = expandoData[i].createElem
  <1>1. OutcomeOwn'
    BY DEF FromData, OutcomeOwn
  <1>2. PICK new : /\ new = [expandoData[id] EXCEPT !.cache = @ \cup ({name} \cap CloneNames)]
                   /\ expandoData' = [expandoData EXCEPT ![id] = new]
    BY DEF FromData
  <1>3. /\ new \in Data /\ new.cached = expandoData[id].cached
        /\ new.hasCSS = expandoData[id].hasCSS /\ new.createElem = expandoData[id].createElem
    BY SMTT(30), Z3T(30), <1>2 DEF ShivInv, Data
  <1> QED
    BY <1>1, <1>2, <1>3 DEF ShivInv

\* A document with a number and saved methods has the browser's own saved.
LEMMA CachedOwn ==
    ASSUME ShivInv, NEW d \in Docs, ExpandoData(d), expandoData[expando'[d]].cached
    PROVE  expandoData[expando'[d]].createElem = Native(d)
  <1>1. /\ expando'[d] \in Ids
        /\ expando'[d] = expando[d] \/ expando'[d] > expanID
        /\ expando'[d] # 0
    BY SMTT(30), Z3T(30), ExpandoDataStep DEF ShivInv
  <1>2. expando'[d] = expando[d]
    BY <1>1 DEF ShivInv
  <1> QED
    BY <1>1, <1>2 DEF ShivInv, OwnData

LEMMA ReplacedOwn ==
    ASSUME ShivInv, NEW d \in Docs, method[d] # Native(d)
    PROVE  /\ expando[d] \in Ids
           /\ expandoData[expando[d]].cached /\ expandoData[expando[d]].createElem = Native(d)
  BY NumbersBound DEF ShivInv, OwnData

LEMMA ShivUseStep == ShivInv /\ (ShivUse \/ UNCHANGED shivVars) => ShivInv'
  <1> SUFFICES ASSUME ShivInv, ShivUse \/ UNCHANGED shivVars PROVE ShivInv'
    OBVIOUS
  <1> DEFINE Rest == UNCHANGED <<supportsUnknownElements, supportsHtml5Styles, html5, method,
                                sheets>>
  <1>1. CASE UNCHANGED shivVars
    BY <1>1 DEF shivVars, ShivInv, NumbersOwn, Numbered, OwnData, OutcomeOwn
  <1>2. ASSUME NEW options \in [shivCSS : BOOLEAN, shivMethods : BOOLEAN], SetOption(options)
        PROVE  ShivInv'
    BY <1>2 DEF SetOption, ShivInv, NumbersOwn, Numbered, OwnData, OutcomeOwn
  <1>3. ASSUME NEW d \in Docs, NEW name, CreateElement(d, name), Rest PROVE ShivInv'
    <2>1. CASE supportsUnknownElements
      <3>1. OutcomeOwn'
        <4>1. outcome' = [doc |-> d, by |-> method[d]] /\ method[d] = Native(d)
          BY <1>3, <2>1 DEF CreateElement, ShivInv
        <4>2. outcome'.doc = d /\ outcome'.by = Native(d)
          BY <4>1
        <4> QED
          BY <4>2 DEF OutcomeOwn
      <3> QED
        BY <1>3, <2>1, <3>1, CloningKeepsShiv DEF CreateElement, ShivInv
    <2>2. CASE ~supportsUnknownElements /\ expandoData[expando'[d]].cached
      <3>1. ExpandoData(d) /\ FromData(d, name, expando'[d])
        BY <1>3, <2>2 DEF CreateElement
      <3>2. expando'[d] \in Ids /\ expandoData[expando'[d]].createElem = Native(d)
        BY SMTT(30), Z3T(30), <2>2, <3>1, CachedOwn, ExpandoDataStep DEF ShivInv
      <3>3. PICK id \in Ids : id = expando'[d]
        BY <3>2
      <3> QED
        BY <1>3, <3>1, <3>2, <3>3, FromDataOwn, CloningKeepsShiv
    <2>3. CASE ~supportsUnknownElements /\ ~expandoData[expando'[d]].cached
      <3>1. OutcomeOwn' /\ ExpandoData(d) /\ UNCHANGED expandoData
        <4>1. /\ outcome' = [doc |-> d, by |-> TypeError(d)]
              /\ ExpandoData(d) /\ UNCHANGED expandoData
          BY <1>3, <2>3 DEF CreateElement
        <4>2. outcome'.doc = d /\ outcome'.by = TypeError(d)
          BY <4>1
        <4> QED
          BY <1>3, <2>3, <4>1, <4>2 DEF OutcomeOwn
      <3> QED
        BY <1>3, <3>1, CloningKeepsShiv DEF ShivInv
    <2> QED
      BY <2>1, <2>2, <2>3
  <1>4. ASSUME NEW d \in Docs, NEW name, DocCreateElement(d, name), Rest PROVE ShivInv'
    <2>1. CASE method[d] = Native(d)
      <3>1. OutcomeOwn' /\ UNCHANGED <<expanID, expando, expandoData>>
        <4>1. /\ outcome' = [doc |-> d, by |-> Native(d)]
              /\ UNCHANGED <<expanID, expando, expandoData>>
          BY <1>4, <2>1 DEF DocCreateElement
        <4>2. outcome'.doc = d /\ outcome'.by = Native(d)
          BY <4>1
        <4> QED
          BY <4>1, <4>2 DEF OutcomeOwn
      <3> QED
        BY <1>4, <3>1, CloningKeepsShiv DEF ShivInv
    <2>2. CASE method[d] # Native(d) /\ ~html5.shivMethods
      <3>1. OutcomeOwn' /\ UNCHANGED <<expanID, expando, expandoData>>
        <4>1. /\ outcome' = [doc |-> d, by |-> expandoData[expando[d]].createElem]
              /\ UNCHANGED <<expanID, expando, expandoData>>
              /\ expandoData[expando[d]].createElem = Native(d)
          BY <1>4, <2>2, ReplacedOwn DEF DocCreateElement
        <4>2. outcome'.doc = d /\ outcome'.by = Native(d)
          BY <4>1
        <4> QED
          BY <4>1, <4>2 DEF OutcomeOwn
      <3> QED
        BY <1>4, <3>1, CloningKeepsShiv DEF ShivInv
    <2>3. CASE method[d] # Native(d) /\ html5.shivMethods
      <3>1. FromData(d, name, expando[d]) /\ UNCHANGED <<expanID, expando>>
        BY <1>4, <2>3 DEF DocCreateElement
      <3>2. PICK id \in Ids : id = expando[d] /\ expandoData[id].createElem = Native(d)
        BY <2>3, ReplacedOwn
      <3> QED
        BY <1>4, <3>1, <3>2, FromDataOwn, CloningKeepsShiv
    <2> QED
      BY <2>1, <2>2, <2>3
  <1>5. ASSUME NEW d \in Docs, CreateDocumentFragment(d) \/ DocCreateDocumentFragment(d), Rest
        PROVE  ShivInv'
    <2>1. OutcomeOwn'
      <3>1. CASE CreateDocumentFragment(d)
        <4>1. /\ outcome'.doc = d
              /\ outcome'.by = IF supportsUnknownElements THEN Native(d)
                               ELSE IF expandoData[expando'[d]].cached
                               THEN expandoData[expando'[d]].createElem ELSE TypeError(d)
              /\ supportsUnknownElements \/ ExpandoData(d)
          BY SMTT(30), Z3T(30), <3>1 DEF CreateDocumentFragment
        <4> QED
          BY <1>5, <4>1, CachedOwn DEF OutcomeOwn
      <3>2. CASE DocCreateDocumentFragment(d)
        <4>1. /\ outcome'.doc = d
              /\ outcome'.by = IF method[d] = Native(d) THEN Native(d)
                               ELSE expandoData[expando[d]].createElem
          BY <3>2 DEF DocCreateDocumentFragment
        <4> QED
          BY <4>1, ReplacedOwn DEF OutcomeOwn
      <3> QED
        BY <1>5, <3>1, <3>2
    <2>2. UNCHANGED expandoData /\ (ExpandoData(d) \/ UNCHANGED <<expanID, expando>>)
      BY <1>5 DEF CreateDocumentFragment, DocCreateDocumentFragment
    <2> QED
      BY <1>5, <2>1, <2>2, CloningKeepsShiv DEF ShivInv
  <1> QED
    BY <1>1, <1>2, <1>3, <1>4, <1>5, ShivDocumentStep DEF ShivUse

LEMMA ShivStart == ASSUME NEW b, ShivInit(b) PROVE ShivInv
  <1>1. Fresh \in Data /\ ~Fresh.cached /\ ~Fresh.hasCSS
    BY ShivAssumption DEF Fresh, Data, Methods
  <1>2. Numbered = {} /\ Cardinality(Numbered) = 0
    BY FS_EmptySet DEF ShivInit, Numbered
  <1>3. NumbersOwn
    BY SMTT(30), Z3T(30), <1>2 DEF ShivInit, NumbersOwn
  <1>4. method \in [Docs -> Methods] /\ expandoData \in [Ids -> Data]
    BY <1>1 DEF ShivInit, Methods
  <1>5. SupportsUnknown(b) \in BOOLEAN /\ SupportsStyles(b) \in BOOLEAN
    BY DEF SupportsUnknown, SupportsStyles
  <1> QED
    BY <1>1, <1>3, <1>4, <1>5
    DEF ShivInit, ShivInv, OwnData, OutcomeOwn, NoOutcome

LEMMA ShivStep == ShivInv /\ [Next]_vars => ShivInv'
  <1> SUFFICES ASSUME ShivInv, [Next]_vars PROVE ShivInv'
    OBVIOUS
  <1>1. CASE ShivMain
    BY <1>1, ShivDocumentStep, ShivAssumption DEF ShivMain
  <1>2. CASE ~ShivMain
    <2>1. ShivUse \/ UNCHANGED shivVars
      BY <1>2 DEF Next, RunTest, Webforms, WriteClasses, ParseBody, CallAddTest, CallAddTests,
                  NextKey, TestStyles, Return, Throw, UseShiv, vars
    <2> QED
      BY <2>1, ShivUseStep
  <1> QED
    BY <1>1, <1>2

\* Every element comes from the browser's own method of its document, and a style
\* sheet is added once (html5shiv of modernizr-latest.js: getExpandoData,
\* shivMethods, shivDocument), for any documents, shived in any order.
THEOREM ElementsMadeByOwnDocument == Spec => []MadeByOwnDocument
  <1>1. Init => ShivInv
    BY ShivStart DEF Init, ModernizrInit
  <1>2. ShivInv => MadeByOwnDocument
    <2> SUFFICES ASSUME ShivInv PROVE MadeByOwnDocument
      OBVIOUS
    <2>1. \A d \in Docs : sheets[d] =< 1
      BY SMTT(30), Z3T(30) DEF ShivInv, OwnData
    <2>2. \A d \in Docs : method[d] = Replaced(d) =>
            expandoData[expando[d]].cached /\ expandoData[expando[d]].createElem = Native(d)
      BY MethodsDiffer, ReplacedOwn
    <2> QED
      BY <2>1, <2>2 DEF ShivInv, OutcomeOwn, MadeByOwnDocument
  <1> QED
    BY <1>1, <1>2, ShivStep, PTL DEF Spec

-----------------------------------------------------------------------------
(***************************************************************************)
(* The document.  Calls of testStyles in progress have put divs into the   *)
(* body of the document or into one of the script's, the first of which    *)
(* put that body in and will take it away.  Calls that were left by a      *)
(* throw leave their divs, and no more, behind.                            *)
(***************************************************************************)
StylesAt(s) == {i \in 1 .. Len(s) : s[i].kind = "styles"}
Own(s) == {i \in StylesAt(s) : s[i].body = "own"}
Faked(s) == {i \in StylesAt(s) : s[i].body # "own"}

DocTypeOK ==
    /\ fakeBody \in BOOLEAN /\ overflow \in {"visible", "hidden"} /\ calls \in 0 .. MaxCalls
    /\ divs \in [own : 0 .. calls, fake : 0 .. calls + 1]

DivsCounted ==
    /\ Cardinality(Own(stack)) =< divs.own /\ Cardinality(Faked(stack)) =< divs.fake
    /\ ~threw => divs.own = Cardinality(Own(stack)) /\ divs.fake = Cardinality(Faked(stack))

BodyHeld ==
    /\ ~threw /\ fakeBody => \E i \in Faked(stack) : stack[i].body = "none"
    /\ Faked(stack) # {} => fakeBody
    /\ ~fakeBody => overflow = "visible" /\ divs.fake = 0
    /\ \A i \in Faked(stack) : stack[i].body = "none" =>
         stack[i].saved = "visible" /\ \A j \in Faked(stack) : i =< j

DocInv == DocTypeOK /\ DivsCounted /\ BodyHeld

LEMMA StylesCounted ==
    ASSUME NEW s \in Seq(CallType)
    PROVE  /\ IsFiniteSet(StylesAt(s)) /\ IsFiniteSet(Own(s)) /\ IsFiniteSet(Faked(s))
           /\ Cardinality(Own(s)) \in Nat /\ Cardinality(Faked(s)) \in Nat
           /\ Cardinality(StylesAt(s)) = Cardinality(Own(s)) + Cardinality(Faked(s))
           /\ StylesAt(s) \subseteq 1 .. Len(s) /\ Len(s) \in Nat
  <1>1. Len(s) \in Nat /\ StylesAt(s) \subseteq 1 .. Len(s)
    BY SMTT(30), Z3T(30) DEF StylesAt
  <1>2. IsFiniteSet(StylesAt(s))
    <2>1. IsFiniteSet(1 .. Len(s)) /\ StylesAt(s) \in SUBSET (1 .. Len(s))
      BY SMTT(30), Z3T(30), <1>1, FS_Interval
    <2> QED
      BY <2>1, FS_Subset
  <1>3. Own(s) \in SUBSET StylesAt(s) /\ Faked(s) \in SUBSET StylesAt(s)
    BY DEF Own, Faked
  <1>4. IsFiniteSet(Own(s)) /\ IsFiniteSet(Faked(s))
    BY SMTT(30), Z3T(30), <1>2, <1>3, FS_Subset
  <1>5. Cardinality(Own(s)) \in Nat /\ Cardinality(Faked(s)) \in Nat
    BY <1>4, FS_CardinalityType
  <1>6. Own(s) \cup Faked(s) = StylesAt(s) /\ Own(s) \cap Faked(s) = {}
    BY DEF Own, Faked
  <1>7. Cardinality(StylesAt(s)) = Cardinality(Own(s)) + Cardinality(Faked(s)) - 0
    BY SMTT(30), Z3T(30), <1>4, <1>6, FS_Union, FS_EmptySet
  <1> QED
    BY SMTT(30), Z3T(30), <1>1, <1>2, <1>4, <1>5, <1>7

\* A step that neither begins nor ends a call of testStyles.
LEMMA DocKept ==
    ASSUME DocInv, UNCHANGED document, threw' = threw,
           calls' \in {calls, calls + 1}, calls' =< MaxCalls, MaxCalls \in Nat,
           StylesAt(stack') = StylesAt(stack),
           \A i \in StylesAt(stack) :
              stack'[i].body = stack[i].body /\ stack'[i].saved = stack[i].saved
    PROVE  DocInv'
  <1>1. Own(stack') = Own(stack) /\ Faked(stack') = Faked(stack)
    BY DEF Own, Faked
  <1>2. UNCHANGED <<fakeBody, divs, overflow>>
    BY DEF document
  <1>3. calls' \in 0 .. MaxCalls /\ divs \in [own : 0 .. calls', fake : 0 .. calls' + 1]
    BY SMTT(30), Z3T(30) DEF DocInv, DocTypeOK, DivsCounted, BodyHeld
  <1>4. \A i \in Faked(stack) : i \in StylesAt(stack)
    BY DEF Faked
  <1>5. \A i \in Faked(stack) : stack'[i].body = stack[i].body /\ stack'[i].saved = stack[i].saved
    BY <1>4
  <1> QED
    BY <1>1, <1>2, <1>3, <1>5 DEF DocInv, DocTypeOK, DivsCounted, BodyHeld

\* The calls under a new one, and those under the one that ends.
LEMMA StylesPushed ==
    ASSUME NEW s \in Seq(CallType), NEW c \in CallType
    PROVE  LET t == Append(s, c) IN
           /\ \A i \in StylesAt(s) : t[i] = s[i]
           /\ t[Len(s) + 1] = c /\ Len(s) + 1 \notin StylesAt(s)
           /\ StylesAt(t) = IF c.kind = "styles" THEN StylesAt(s) \cup {Len(s) + 1}
                                                 ELSE StylesAt(s)
  <1> DEFINE t == Append(s, c)
  <1>1. /\ t \in Seq(CallType) /\ Len(t) = Len(s) + 1 /\ Len(s) \in Nat
        /\ \A i \in 1 .. Len(s) : t[i] = s[i]
        /\ t[Len(s) + 1] = c
    BY PushedCall
  <1> HIDE DEF t
  <1>2. 1 .. Len(t) = 1 .. Len(s) \cup {Len(s) + 1} /\ Len(s) + 1 \notin 1 .. Len(s)
    BY SMTT(30), Z3T(30), <1>1
  <1>3. /\ \A i \in StylesAt(s) : t[i] = s[i]
        /\ t[Len(s) + 1] = c /\ Len(s) + 1 \notin StylesAt(s)
        /\ StylesAt(t) = IF c.kind = "styles" THEN StylesAt(s) \cup {Len(s) + 1}
                                              ELSE StylesAt(s)
    BY SMTT(30), Z3T(30), <1>1, <1>2 DEF StylesAt
  <1> QED
    BY <1>3 DEF t

LEMMA StylesPopped ==
    ASSUME stack \in Seq(CallType), stack # <<>>
    PROVE  /\ \A i \in StylesAt(Below) : Below[i] = stack[i]
           /\ StylesAt(Below) = StylesAt(stack) \ {Len(stack)}
           /\ Len(stack) \in StylesAt(stack) <=> Top.kind = "styles"
           /\ \A i \in StylesAt(stack) : i =< Len(stack)
  <1>1. /\ Below \in Seq(CallType) /\ Len(Below) = Len(stack) - 1
        /\ Len(stack) \in Nat \ {0} /\ Top = stack[Len(stack)]
        /\ \A i \in 1 .. Len(stack) - 1 : Below[i] = stack[i]
    BY PoppedCall
  <1>2. 1 .. Len(stack) - 1 = (1 .. Len(stack)) \ {Len(stack)} /\ Len(stack) \in 1 .. Len(stack)
    BY SMTT(30), Z3T(30), <1>1
  <1> QED
    BY SMTT(30), Z3T(30), <1>1, <1>2 DEF StylesAt

\* testStyles adds a div to the body there is, or a body with a div.
LEMMA TestStylesDoc ==
    ASSUME DocInv, CallsInv, hasBody \in BOOLEAN, TestStyles PROVE DocInv'
  <1> DEFINE c == Call("styles", "", {})
             n == Len(stack)
  <1>1. /\ c \in CallType /\ c.kind = "styles" /\ c.body = Body /\ c.saved = overflow
    BY DEF DocInv, DocTypeOK, DivsCounted, BodyHeld, Call, CallType, Body
  <1>2. /\ stack \in Seq(CallType) /\ stack' = Append(stack, c)
        /\ UNCHANGED threw /\ calls' = calls + 1 /\ calls < MaxCalls /\ Inject
    BY DEF TestStyles, MayCall, CallsInv
  <1> HIDE DEF c
  <1>3. /\ \A i \in StylesAt(stack) : stack'[i] = stack[i]
        /\ stack'[n + 1] = c /\ n + 1 \notin StylesAt(stack)
        /\ StylesAt(stack') = StylesAt(stack) \cup {n + 1}
    BY <1>1, <1>2, StylesPushed
  <1>4. /\ IsFiniteSet(Own(stack)) /\ IsFiniteSet(Faked(stack))
        /\ Cardinality(Own(stack)) \in Nat /\ Cardinality(Faked(stack)) \in Nat
        /\ StylesAt(stack) \subseteq 1 .. n /\ n \in Nat
    BY <1>2, StylesCounted
  <1>5. /\ \A i \in Faked(stack) : stack'[i] = stack[i] /\ i \in Nat /\ i =< n
        /\ n + 1 \notin Own(stack) /\ n + 1 \notin Faked(stack)
    BY SMTT(30), Z3T(30), <1>3, <1>4 DEF Own, Faked
  <1>6. calls' \in 0 .. MaxCalls /\ calls \in Nat
    BY SMTT(30), Z3T(30), <1>2, ModernizrAssumption DEF DocInv, DocTypeOK, DivsCounted, BodyHeld
  <1>7. CASE Body = "own"
    <2>1. /\ Own(stack') = Own(stack) \cup {n + 1} /\ Faked(stack') = Faked(stack)
      BY SMTT(30), Z3T(30), <1>1, <1>3, <1>7 DEF Own, Faked
    <2>2. Cardinality(Own(stack')) = Cardinality(Own(stack)) + 1
      BY <1>4, <1>5, <2>1, FS_AddElement
    <2>3. /\ divs' = [divs EXCEPT !.own = @ + 1] /\ UNCHANGED <<fakeBody, overflow>>
      BY SMTT(30), Z3T(30), <1>2, <1>7 DEF Inject
    <2>4. /\ divs'.own = divs.own + 1 /\ divs'.fake = divs.fake
          /\ divs' \in [own : 0 .. calls', fake : 0 .. calls' + 1]
      BY SMTT(30), Z3T(30), <1>2, <1>6, <2>3 DEF DocInv, DocTypeOK, DivsCounted, BodyHeld
    <2>5. DocTypeOK'
      BY <1>6, <2>3, <2>4 DEF DocInv, DocTypeOK
    <2>6. DivsCounted'
      BY SMTT(30), Z3T(30), <1>2, <1>4, <2>1, <2>2, <2>4 DEF DocInv, DocTypeOK, DivsCounted
    <2>7. BodyHeld'
      <3>1. \A i \in Faked(stack) : stack'[i] = stack[i]
        BY <1>5
      <3>2. /\ ~threw' /\ fakeBody' => \E i \in Faked(stack') : stack'[i].body = "none"
            /\ Faked(stack') # {} => fakeBody'
            /\ ~fakeBody' => overflow' = "visible" /\ divs'.fake = 0
        BY <1>2, <2>1, <2>3, <2>4, <3>1 DEF DocInv, BodyHeld
      <3>3. \A i \in Faked(stack') : stack'[i].body = "none" =>
              stack'[i].saved = "visible" /\ \A j \in Faked(stack') : i =< j
        BY SMTT(30), Z3T(30), <2>1, <3>1 DEF DocInv, BodyHeld
      <3> QED
        BY <3>2, <3>3 DEF BodyHeld
    <2> QED
      BY <2>5, <2>6, <2>7 DEF DocInv
  <1>8. CASE Body = "fake"
    <2>1. /\ Own(stack') = Own(stack) /\ Faked(stack') = Faked(stack) \cup {n + 1}
      BY SMTT(30), Z3T(30), <1>1, <1>3, <1>8 DEF Own, Faked
    <2>2. Cardinality(Faked(stack')) = Cardinality(Faked(stack)) + 1
      BY <1>4, <1>5, <2>1, FS_AddElement
    <2>3. /\ divs' = [divs EXCEPT !.fake = @ + 1] /\ UNCHANGED <<fakeBody, overflow>>
          /\ fakeBody
      BY <1>2, <1>8 DEF Inject, Body
    <2>4. /\ divs'.own = divs.own /\ divs'.fake = divs.fake + 1
          /\ divs' \in [own : 0 .. calls', fake : 0 .. calls' + 1]
      BY SMTT(30), Z3T(30), <1>2, <1>6, <2>3 DEF DocInv, DocTypeOK, DivsCounted, BodyHeld
    <2>5. \A i \in Faked(stack') : stack'[i].body = "none" =>
            stack'[i].saved = "visible" /\ \A j \in Faked(stack') : i =< j
      <3>1. stack'[n + 1].body = "fake"
        BY <1>1, <1>3, <1>8
      <3> QED
        BY SMTT(30), Z3T(30), <1>4, <1>5, <2>1, <3>1 DEF DocInv, DocTypeOK, DivsCounted, BodyHeld
    <2>6. DocTypeOK'
      BY <1>6, <2>3, <2>4 DEF DocInv, DocTypeOK
    <2>7. DivsCounted'
      BY SMTT(30), Z3T(30), <1>2, <1>4, <2>1, <2>2, <2>4 DEF DocInv, DocTypeOK, DivsCounted
    <2>8. BodyHeld'
      BY <1>2, <1>5, <2>1, <2>3, <2>5 DEF DocInv, BodyHeld
    <2> QED
      BY <2>6, <2>7, <2>8 DEF DocInv
  <1>9. CASE Body = "none"
    <2>1. ~fakeBody /\ Faked(stack) = {} /\ divs.fake = 0 /\ overflow = "visible"
      BY <1>9 DEF Body, DocInv, BodyHeld
    <2>2. /\ Own(stack') = Own(stack) /\ Faked(stack') = {n + 1}
      BY SMTT(30), Z3T(30), <1>1, <1>3, <1>9, <2>1 DEF Own, Faked
    <2>3. Cardinality(Faked(stack')) = 1
      BY <2>2, FS_Singleton
    <2>4. /\ divs' = [divs EXCEPT !.fake = 1] /\ fakeBody' = TRUE /\ overflow' = "hidden"
      BY <1>2, <1>9 DEF Inject
    <2>5. /\ divs'.own = divs.own /\ divs'.fake = 1
          /\ divs' \in [own : 0 .. calls', fake : 0 .. calls' + 1]
      BY SMTT(30), Z3T(30), <1>2, <1>6, <2>4 DEF DocInv, DocTypeOK, DivsCounted, BodyHeld
    <2>6. stack'[n + 1].body = "none" /\ stack'[n + 1].saved = "visible"
      BY <1>1, <1>3, <1>9, <2>1
    <2>7. DocTypeOK'
      BY <1>6, <2>4, <2>5 DEF DocInv, DocTypeOK
    <2>8. DivsCounted'
      BY SMTT(30), Z3T(30), <1>2, <1>4, <2>1, <2>2, <2>3, <2>5 DEF DocInv, DocTypeOK, DivsCounted
    <2>9. BodyHeld'
      BY SMTT(30), Z3T(30), <2>2, <2>4, <2>6, <1>4 DEF DocInv, BodyHeld
    <2> QED
      BY <2>7, <2>8, <2>9 DEF DocInv
  <1> QED
    BY SMTT(30), Z3T(30), <1>7, <1>8, <1>9 DEF Body

\* When the call ends it takes its div away, or the body with all it holds.
LEMMA ReturnDoc ==
    ASSUME DocInv, CallsInv, NEW v, Return(v) PROVE DocInv'
  <1> DEFINE call == Top
             n == Len(stack)
  <1>1. /\ stack # <<>> /\ stack \in Seq(CallType) /\ stack' = Below
        /\ UNCHANGED <<threw, calls>>
        /\ IF call.kind = "styles" THEN RemoveInjected(call) ELSE UNCHANGED document
    BY DEF Return, Running, CallsInv
  <1>2. /\ \A i \in StylesAt(stack') : stack'[i] = stack[i]
        /\ StylesAt(stack') = StylesAt(stack) \ {n}
        /\ n \in StylesAt(stack) <=> call.kind = "styles"
        /\ \A i \in StylesAt(stack) : i =< n
        /\ call = stack[n] /\ call \in CallType
    BY <1>1, StylesPopped, PoppedCall
  <1>3. /\ IsFiniteSet(Own(stack)) /\ IsFiniteSet(Faked(stack))
        /\ Cardinality(Own(stack)) \in Nat /\ Cardinality(Faked(stack)) \in Nat
        /\ StylesAt(stack) \subseteq 1 .. n /\ n \in Nat
    BY <1>1, StylesCounted
  <1>4. calls \in 0 .. MaxCalls /\ MaxCalls \in Nat /\ calls \in Nat
    BY SMTT(30), Z3T(30), ModernizrAssumption DEF DocInv, DocTypeOK, DivsCounted, BodyHeld
  <1> HIDE DEF call, n
  <1>5. CASE call.kind # "styles"
    <2>1. StylesAt(stack') = StylesAt(stack)
      BY <1>2, <1>5
    <2> QED
      BY SMTT(30), Z3T(30), <1>1, <1>2, <1>4, <1>5, <2>1, DocKept
  <1>6. CASE call.kind = "styles" /\ call.body = "own"
    <2>1. /\ n \in Own(stack) /\ Own(stack') = Own(stack) \ {n}
          /\ Faked(stack') = Faked(stack)
      BY <1>2, <1>6 DEF Own, Faked
    <2>2. Cardinality(Own(stack')) = Cardinality(Own(stack)) - 1
      BY <1>3, <2>1, FS_RemoveElement
    <2>3. Cardinality(Own(stack')) \in Nat
      <3>1. stack' \in Seq(CallType)
        BY <1>1, PoppedCall
      <3> QED
        BY <3>1, StylesCounted
    <2>4. divs' = [divs EXCEPT !.own = @ - 1] /\ UNCHANGED <<fakeBody, overflow>>
      BY <1>1, <1>6 DEF RemoveInjected
    <2>5. /\ divs'.own = divs.own - 1 /\ divs'.fake = divs.fake
          /\ divs' \in [own : 0 .. calls, fake : 0 .. calls + 1]
      BY SMTT(30), Z3T(30), <1>3, <1>4, <2>2, <2>3, <2>4
      DEF DocInv, DocTypeOK, DivsCounted, BodyHeld
    <2>6. \A i \in Faked(stack) : stack'[i] = stack[i]
      BY <1>2, <2>1 DEF Faked
    <2>7. DocTypeOK'
      BY <1>1, <2>4, <2>5 DEF DocInv, DocTypeOK
    <2>8. DivsCounted'
      BY SMTT(30), Z3T(30), <1>1, <1>3, <2>1, <2>2, <2>5 DEF DocInv, DocTypeOK, DivsCounted
    <2>9. BodyHeld'
      BY SMTT(30), Z3T(30), <1>1, <2>1, <2>4, <2>5, <2>6 DEF DocInv, BodyHeld
    <2> QED
      BY <2>7, <2>8, <2>9 DEF DocInv
  <1>7. CASE call.kind = "styles" /\ call.body = "fake"
    <2>1. /\ n \in Faked(stack) /\ Faked(stack') = Faked(stack) \ {n}
          /\ Own(stack') = Own(stack)
      BY <1>2, <1>7 DEF Own, Faked
    <2>2. Cardinality(Faked(stack')) = Cardinality(Faked(stack)) - 1
      BY <1>3, <2>1, FS_RemoveElement
    <2>3. Cardinality(Faked(stack')) \in Nat
      <3>1. stack' \in Seq(CallType)
        BY <1>1, PoppedCall
      <3> QED
        BY <3>1, StylesCounted
    <2>4. divs' = [divs EXCEPT !.fake = @ - 1] /\ UNCHANGED <<fakeBody, overflow>>
      BY <1>1, <1>7 DEF RemoveInjected
    <2>5. /\ divs'.fake = divs.fake - 1 /\ divs'.own = divs.own
          /\ divs' \in [own : 0 .. calls, fake : 0 .. calls + 1]
      BY SMTT(30), Z3T(30), <1>3, <1>4, <2>2, <2>3, <2>4
      DEF DocInv, DocTypeOK, DivsCounted, BodyHeld
    <2>6. \A i \in Faked(stack') : stack'[i] = stack[i] /\ i \in Faked(stack)
      BY <1>2, <2>1 DEF Faked
    <2>7. fakeBody /\ \A i \in Faked(stack) : stack[i].body = "none" => i \in Faked(stack')
      BY <1>2, <1>7, <2>1 DEF DocInv, DocTypeOK, DivsCounted, BodyHeld
    <2>8. DocTypeOK'
      BY <1>1, <2>4, <2>5 DEF DocInv, DocTypeOK
    <2>9. DivsCounted'
      BY SMTT(30), Z3T(30), <1>1, <1>3, <2>1, <2>2, <2>5 DEF DocInv, DocTypeOK, DivsCounted
    <2>10. BodyHeld'
      BY <1>1, <2>4, <2>6, <2>7 DEF DocInv, BodyHeld
    <2> QED
      BY <2>8, <2>9, <2>10 DEF DocInv
  <1>8. CASE call.kind = "styles" /\ call.body = "none"
    <2>1. n \in Faked(stack) /\ Own(stack') = Own(stack) /\ Faked(stack') = Faked(stack) \ {n}
      BY <1>2, <1>8 DEF Own, Faked
    <2>2. \A j \in Faked(stack) : n =< j /\ j =< n /\ j \in Nat
      <3>1. \A i, j \in Faked(stack) : stack[i].body = "none" => i =< j
        BY DEF DocInv, BodyHeld
      <3>2. n \in Nat /\ \A j \in Faked(stack) : j \in 1 .. n
        BY <1>2, <1>3 DEF Faked, StylesAt
      <3>3. \A j \in Faked(stack) : n =< j
        BY <1>2, <1>8, <2>1, <3>1
      <3> QED
        BY SMTT(30), Z3T(30), <3>2, <3>3
    <2>3. Faked(stack') = {} /\ Cardinality(Faked(stack')) = 0
      <3>1. \A j \in Faked(stack) : j = n
        BY SMTT(30), Z3T(30), <1>3, <2>2
      <3> QED
        BY <2>1, <3>1, FS_EmptySet
    <2>4. /\ divs' = [divs EXCEPT !.fake = 0] /\ fakeBody' = FALSE /\ overflow' = call.saved
      BY <1>1, <1>8 DEF RemoveInjected
    <2>5. call.saved = "visible"
      BY <1>2, <1>8, <2>1 DEF DocInv, DocTypeOK, DivsCounted, BodyHeld
    <2>6. /\ divs'.fake = 0 /\ divs'.own = divs.own
          /\ divs' \in [own : 0 .. calls, fake : 0 .. calls + 1]
      BY SMTT(30), Z3T(30), <1>4, <2>4 DEF DocInv, DocTypeOK, DivsCounted, BodyHeld
    <2>7. DocTypeOK'
      BY <1>1, <2>4, <2>5, <2>6 DEF DocInv, DocTypeOK
    <2>8. DivsCounted'
      BY SMTT(30), Z3T(30), <1>1, <1>3, <2>1, <2>3, <2>6 DEF DocInv, DocTypeOK, DivsCounted
    <2>9. BodyHeld'
      BY <2>3, <2>4, <2>5, <2>6 DEF DocInv, BodyHeld
    <2> QED
      BY <2>7, <2>8, <2>9 DEF DocInv
  <1> QED
    BY <1>2, <1>5, <1>6, <1>7, <1>8 DEF CallType

\* A throw leaves divs behind, and is remembered if it does.
LEMMA ThrowDoc ==
    ASSUME DocInv, LoadInv, CallsInv, NEW depth \in 0 .. Len(stack) - 1, Throw(depth)
    PROVE  DocInv'
  <1>1. /\ stack \in Seq(CallType) /\ stack' \in Seq(CallType) /\ Len(stack') = depth
        /\ Len(stack) \in Nat
        /\ \A i \in 1 .. depth : stack'[i] = stack[i]
    BY ThrowStep DEF CallsInv
  <1>2. /\ UNCHANGED <<fakeBody, divs, overflow, calls>>
        /\ threw' = (threw \/ \E i \in depth + 1 .. Len(stack) : stack[i].kind = "styles")
    BY DEF Throw, document
  <1>3. /\ StylesAt(stack') \subseteq StylesAt(stack)
        /\ \A i \in StylesAt(stack') : stack'[i] = stack[i]
        /\ \A i \in StylesAt(stack) : i \in StylesAt(stack') \/ i \in depth + 1 .. Len(stack)
    BY SMTT(30), Z3T(30), <1>1 DEF StylesAt
  <1>4. CASE ~threw'
    <2>1. threw' = threw /\ StylesAt(stack') = StylesAt(stack)
      <3>1. \A i \in StylesAt(stack) : stack[i].kind = "styles"
        BY DEF StylesAt
      <3>2. ~threw /\ StylesAt(stack') = StylesAt(stack)
        BY <1>2, <1>3, <1>4, <3>1
      <3> QED
        <4>1. threw = FALSE /\ threw' \in BOOLEAN
          BY <1>2, <3>2 DEF LoadInv, LoadTypeOK
        <4> QED
          BY <1>4, <3>2, <4>1
    <2> QED
      BY SMTT(30), Z3T(30), <1>2, <1>3, <2>1, DocKept, ModernizrAssumption
      DEF document, DocInv, DocTypeOK
  <1>5. CASE threw'
    <2>1. Own(stack') \in SUBSET Own(stack) /\ Faked(stack') \in SUBSET Faked(stack)
      BY <1>3 DEF Own, Faked
    <2>2. /\ IsFiniteSet(Own(stack)) /\ IsFiniteSet(Faked(stack))
          /\ Cardinality(Own(stack)) \in Nat /\ Cardinality(Faked(stack)) \in Nat
          /\ Cardinality(Own(stack')) \in Nat /\ Cardinality(Faked(stack')) \in Nat
      BY <1>1, StylesCounted
    <2>3. /\ Cardinality(Own(stack')) =< Cardinality(Own(stack))
          /\ Cardinality(Faked(stack')) =< Cardinality(Faked(stack))
      BY <2>1, <2>2, FS_Subset
    <2>4. DocTypeOK'
      BY <1>2 DEF DocInv, DocTypeOK
    <2>5. DivsCounted'
      BY SMTT(30), Z3T(30), <1>2, <1>5, <2>2, <2>3 DEF DocInv, DocTypeOK, DivsCounted
    <2>6. \A i \in Faked(stack') : stack'[i] = stack[i] /\ i \in Faked(stack)
      BY <1>3, <2>1 DEF Faked
    <2>7. BodyHeld'
      BY <1>2, <1>5, <2>6 DEF DocInv, BodyHeld
    <2> QED
      BY SMTT(30), Z3T(30), <2>4, <2>5, <2>7 DEF DocInv
  <1> QED
    BY <1>4, <1>5

\* fontface throws while the script is loaded: the body it has put in stays.
LEMMA RunTestDoc ==
    ASSUME DocInv, LoadInv, RunTest PROVE DocInv'
  <1>1. /\ stack = <<>> /\ ~threw /\ ~hasBody /\ UNCHANGED <<stack, calls>>
        /\ \/ threw' /\ Inject
           \/ UNCHANGED <<threw, document>>
    BY RunTestStep DEF LoadInv, Phases
  <1>2. StylesAt(stack) = {} /\ Own(stack) = {} /\ Faked(stack) = {}
    BY SMTT(30), Z3T(30), <1>1 DEF StylesAt, Own, Faked
  <1>3. calls \in 0 .. MaxCalls /\ MaxCalls \in Nat /\ calls \in Nat
    BY SMTT(30), Z3T(30), ModernizrAssumption DEF DocInv, DocTypeOK
  <1>4. CASE UNCHANGED <<threw, document>>
    BY SMTT(30), Z3T(30), <1>1, <1>3, <1>4, DocKept
  <1>5. CASE threw' /\ Inject
    <2>1. ~fakeBody /\ Body = "none"
      BY <1>1, <1>2 DEF DocInv, BodyHeld, Body
    <2>2. divs' = [divs EXCEPT !.fake = 1] /\ fakeBody' = TRUE /\ overflow' = "hidden"
      BY <1>5, <2>1 DEF Inject
    <2>3. /\ divs'.own = divs.own /\ divs'.fake = 1
          /\ divs' \in [own : 0 .. calls', fake : 0 .. calls' + 1]
      BY SMTT(30), Z3T(30), <1>1, <1>3, <2>2 DEF DocInv, DocTypeOK
    <2>4. DocTypeOK'
      BY <1>1, <2>2, <2>3 DEF DocInv, DocTypeOK
    <2>5. DivsCounted'
      <3>1. Cardinality(Own(stack)) = 0 /\ Cardinality(Faked(stack)) = 0
        BY <1>2, FS_EmptySet
      <3>2. 0 =< divs'.own /\ 0 =< divs'.fake
        BY SMTT(30), Z3T(30), <1>1, <1>3, <2>3
      <3> QED
        BY <1>1, <1>5, <3>1, <3>2 DEF DivsCounted
    <2>6. BodyHeld'
      BY <1>1, <1>2, <1>5, <2>2 DEF BodyHeld
    <2> QED
      BY <2>4, <2>5, <2>6 DEF DocInv
  <1> QED
    BY <1>1, <1>4, <1>5

\* addTest does not touch the document.
LEMMA AddTestDoc ==
    ASSUME DocInv, LoadInv, CallsInv, phase = "loaded",
           NEW f \in NewFeatures \cup {"canvas", "input"},
           NEW base, Alike(stack, base), AddTest(f, base), UNCHANGED <<document, threw>>,
           calls' \in {calls, calls + 1}, calls' =< MaxCalls
    PROVE  DocInv'
  <1>1. stack' = base \/ stack' = Append(base, Call("test", f, {}))
    BY AddTestStep DEF DocInv, DocTypeOK
  <1>2. /\ StylesAt(base) = StylesAt(stack)
        /\ \A i \in StylesAt(stack) : base[i].body = stack[i].body /\ base[i].saved = stack[i].saved
    BY DEF Alike, StylesAt
  <1>3. CASE stack' = base
    BY <1>2, <1>3, DocKept, ModernizrAssumption
  <1>4. CASE stack' = Append(base, Call("test", f, {}))
    <2>1. PICK c : c = Call("test", f, {})
      OBVIOUS
    <2>2. c \in CallType /\ c.kind = "test" /\ base \in Seq(CallType)
      BY <2>1, FeaturesOrdered DEF DocInv, DocTypeOK, Call, CallType, Body, Alike
    <2>3. /\ \A i \in StylesAt(base) : stack'[i] = base[i]
          /\ StylesAt(stack') = StylesAt(base)
      BY <1>4, <2>1, <2>2, StylesPushed
    <2> QED
      BY <1>2, <2>3, DocKept, ModernizrAssumption
  <1> QED
    BY <1>1, <1>3, <1>4

LEMMA DocStep ==
    ASSUME DocInv, LoadInv, CallsInv, [Next]_vars PROVE DocInv'
  <1>1. /\ calls \in 0 .. MaxCalls /\ MaxCalls \in Nat /\ hasBody \in BOOLEAN
        /\ stack \in Seq(CallType) /\ overflow \in {"visible", "hidden"}
        /\ stack # <<>> => phase = "loaded"
    BY ModernizrAssumption DEF DocInv, DocTypeOK, LoadInv, LoadTypeOK, Phases, CallsInv
  <1>2. CASE UNCHANGED <<stack, document, threw>> /\ calls' \in {calls, calls + 1}
             /\ calls' =< MaxCalls
    BY SMTT(30), Z3T(30), <1>1, <1>2, DocKept
  <1>3. CASE UNCHANGED vars \/ Webforms \/ ShivMain \/ WriteClasses \/ ParseBody
    <2>1. UNCHANGED <<stack, document, threw, calls>>
      BY <1>3 DEF vars, modernizrVars, Webforms, ShivMain, WriteClasses, ParseBody
    <2> QED
      BY SMTT(30), Z3T(30), <1>1, <1>2, <2>1
  <1>4. CASE UseShiv
    BY SMTT(30), Z3T(30), <1>1, <1>2, <1>4 DEF UseShiv, MayCall
  <1>5. CASE CallAddTest
    <2>1. Alike(stack, stack)
      BY <1>1 DEF Alike
    <2>2. /\ phase = "loaded" /\ UNCHANGED <<document, threw>>
          /\ calls' \in {calls, calls + 1} /\ calls' =< MaxCalls
          /\ \E f \in NewFeatures \cup {"canvas", "input"} : AddTest(f, stack)
      BY SMTT(30), Z3T(30), <1>1, <1>5 DEF CallAddTest, MayCall
    <2> QED
      BY SMTT(30), Z3T(30), <2>1, <2>2, AddTestDoc
  <1>6. CASE CallAddTests
    <2>1. PICK c : c = Call("object", "", NewFeatures)
      OBVIOUS
    <2>2. c \in CallType /\ c.kind = "object"
      BY <1>1, <2>1 DEF Call, CallType, Body
    <2>3. /\ stack' = Append(stack, c) /\ UNCHANGED <<document, threw>>
          /\ calls' = calls + 1 /\ calls' =< MaxCalls
      <3>1. /\ stack' = Append(stack, c) /\ UNCHANGED <<document, threw>>
            /\ calls' = calls + 1 /\ calls < MaxCalls
        BY <1>6, <2>1 DEF CallAddTests, MayCall
      <3> QED
        BY SMTT(30), Z3T(30), <1>1, <3>1
    <2>4. /\ \A i \in StylesAt(stack) : stack'[i] = stack[i]
          /\ StylesAt(stack') = StylesAt(stack)
      BY <1>1, <2>2, <2>3, StylesPushed
    <2> QED
      BY <1>1, <2>3, <2>4, DocKept
  <1>7. CASE NextKey
    <2>1. /\ stack # <<>> /\ UNCHANGED <<document, threw, calls>>
          /\ calls' \in {calls, calls + 1} /\ calls' =< MaxCalls
          /\ Top.kind = "object"
      BY SMTT(30), Z3T(30), <1>1, <1>7 DEF NextKey
    <2>2. CASE Top.keys = {}
      <3>1. stack' = Below
        BY SMTT(30), Z3T(30), <1>7, <2>2 DEF NextKey
      <3>2. /\ \A i \in StylesAt(stack') : stack'[i] = stack[i]
            /\ StylesAt(stack') = StylesAt(stack)
        BY <1>1, <2>1, <3>1, StylesPopped
      <3> QED
        BY SMTT(30), Z3T(30), <1>1, <2>1, <3>2, DocKept
    <2>3. CASE Top.keys # {}
      <3>1. PICK f \in Top.keys :
              AddTest(f, Append(Below, [Top EXCEPT !.keys = @ \ {f}]))
        BY <1>7, <2>3 DEF NextKey
      <3>2. f \in NewFeatures
        BY <1>1, <2>1, PoppedCall DEF CallType
      <3> QED
        BY <1>1, <2>1, <3>1, <3>2, ChangedKeys, AddTestDoc
    <2> QED
      BY <2>2, <2>3
  <1> QED
    BY SMTT(30), Z3T(30), <1>1, <1>3, <1>4, <1>5, <1>6, <1>7, RunTestDoc, TestStylesDoc, ReturnDoc, ThrowDoc
    DEF Next

-----------------------------------------------------------------------------
(***************************************************************************)
(* The invariant of the document, and what follows from it.                *)
(***************************************************************************)
IInv == CallsAndResults /\ DocInv /\ ShivInv

LEMMA IInvInit == Init => IInv
  <1> SUFFICES ASSUME Init PROVE IInv
    OBVIOUS
  <1>1. ShivInv /\ CallsAndResults
    BY SMTT(30), Z3T(30), ShivStart, CallsAndResultsInit DEF Init, ModernizrInit
  <1>2. /\ stack = <<>> /\ threw = FALSE /\ fakeBody = FALSE /\ overflow = "visible"
        /\ calls = 0 /\ divs = [own |-> 0, fake |-> 0]
        /\ Len(stack) = 0
    BY DEF Init, ModernizrInit
  <1>4. Own(stack) = {} /\ Faked(stack) = {}
    BY SMTT(30), Z3T(30), <1>2 DEF StylesAt, Own, Faked
  <1>5. DocTypeOK
    <2>1. calls \in 0 .. MaxCalls /\ divs \in [own : 0 .. calls, fake : 0 .. calls + 1]
      BY SMTT(30), Z3T(30), <1>2, ModernizrAssumption
    <2> QED
      BY <1>2, <2>1 DEF DocTypeOK
  <1>6. DivsCounted
    BY SMTT(30), Z3T(30), <1>2, <1>4, FS_EmptySet DEF DivsCounted
  <1>7. BodyHeld
    BY <1>2, <1>4 DEF BodyHeld
  <1> QED
    BY SMTT(30), Z3T(30), <1>1, <1>5, <1>6, <1>7 DEF IInv, DocInv

LEMMA IInvStep == IInv /\ [Next]_vars => IInv'
  <1> SUFFICES ASSUME IInv, [Next]_vars PROVE IInv'
    OBVIOUS
  <1>1. CallsAndResults'
    BY CallsAndResultsStep DEF IInv
  <1>2. DocInv'
    BY DocStep DEF IInv, CallsAndResults
  <1> QED
    BY <1>1, <1>2, ShivStep DEF IInv

LEMMA IInvHolds == Spec => []IInv
  BY IInvInit, IInvStep, PTL DEF Spec

HtmlTyped == html \subseteq (Known \cup {"js"}) \X BOOLEAN

\* What testStyles puts into the document (injectElementWithStyles of
\* modernizr-latest.js) leaves it again, for any features and any depth of calls.
THEOREM DocumentAlwaysRestored == Spec => []DocumentRestored
  <1>1. ASSUME IInv, HtmlTyped PROVE DocumentRestored
    <2>1. stack \in Seq(CallType) /\ DOMAIN stack = 1 .. Len(stack)
      BY SMTT(30), Z3T(30), <1>1 DEF IInv, CallsAndResults, CallsInv
    <2>2. {i \in DOMAIN stack : stack[i].kind = "styles"} = StylesAt(stack)
      BY <2>1 DEF StylesAt
    <2>3. ShivTypeOK
      BY <1>1, NumbersBound DEF IInv, ShivInv, NumbersOwn, ShivTypeOK, Data, Methods
    <2>4. divs \in [own : 0 .. MaxCalls, fake : 0 .. MaxCalls + 1]
      BY SMTT(30), Z3T(30), <1>1, ModernizrAssumption DEF IInv, DocInv, DocTypeOK
    <2>5. \A i \in DOMAIN stack : stack[i].kind \in {"test", "object", "styles"}
      <3>1. \A i \in DOMAIN stack : stack[i] \in CallType
        BY SMTT(30), Z3T(30), <2>1
      <3> QED
        BY <3>1 DEF CallType
    <2>6. TypeOK
      BY <1>1, <2>3, <2>4, <2>5, OrderOfTests
      DEF HtmlTyped, IInv, CallsAndResults, LoadInv, LoadTypeOK, CallsInv, DocInv,
          DocTypeOK, TypeOK, Styles
    <2>7. ~fakeBody => overflow = "visible" /\ divs.fake = 0
      BY <1>1 DEF IInv, DocInv, BodyHeld
    <2>8. ~threw => divs.own + divs.fake = Cardinality(StylesAt(stack))
      BY <1>1, <2>1, StylesCounted DEF IInv, DocInv, DivsCounted
    <2>9. ~threw => (fakeBody <=> \E i \in StylesAt(stack) : stack[i].body = "none")
      BY <1>1 DEF IInv, DocInv, BodyHeld, Faked
    <2> QED
      BY <2>2, <2>6, <2>7, <2>8, <2>9 DEF DocumentRestored
  <1>2. Init => HtmlTyped
    <2> SUFFICES ASSUME Init PROVE HtmlTyped
      OBVIOUS
    <2>1. html = {<<"js", FALSE>>} /\ <<"js", FALSE>> \in (Known \cup {"js"}) \X BOOLEAN
      BY DEF Init, ModernizrInit
    <2> QED
      BY <2>1 DEF HtmlTyped
  <1>3. ASSUME IInv, HtmlTyped, [Next]_vars PROVE HtmlTyped'
    <2>1. \A v : Truthy(v) \in BOOLEAN
      BY DEF Truthy
    <2>2. CASE UNCHANGED vars \/ RunTest \/ Webforms \/ ShivMain \/ ParseBody
      <3>1. UNCHANGED html
        BY <2>2 DEF vars, modernizrVars, RunTest, Webforms, ShivMain, ParseBody
      <3> QED
        BY SMTT(30), Z3T(30), <1>3, <3>1 DEF HtmlTyped
    <2>3. CASE WriteClasses
      <3>1. html' = (html \ {<<"js", FALSE>>}) \cup {<<"js", TRUE>>}
                    \cup {<<f, Truthy(results[f])>> : f \in Features}
        BY <2>3 DEF WriteClasses
      <3> QED
        <4>1. ASSUME NEW c \in html' PROVE c \in (Known \cup {"js"}) \X BOOLEAN
          <5>1. CASE c \in html
            BY <1>3, <5>1 DEF HtmlTyped
          <5>2. CASE c = <<"js", TRUE>>
            BY <5>2
          <5>3. ASSUME NEW f \in Features, c = <<f, Truthy(results[f])>>
                PROVE  c \in (Known \cup {"js"}) \X BOOLEAN
            <6>1. f \in Known /\ Truthy(results[f]) \in BOOLEAN
              BY <2>1, <5>3, FeaturesOrdered
            <6> QED
              BY <5>3, <6>1
          <5> QED
            BY <3>1, <4>1, <5>1, <5>2, <5>3
        <4> QED
          BY <4>1 DEF HtmlTyped
    <2>4. CASE ScriptSteps
      <3>1. Silent \/ \E f, v : Settles(f, v)
        BY <1>3, <2>4, ScriptStep DEF IInv, CallsAndResults, OverflowTyped
      <3>2. ASSUME NEW f, NEW v, Settles(f, v)
            PROVE  HtmlTyped'
        <4>1. f \in Known /\ html' = html \cup {<<f, Truthy(v)>>}
          BY <1>3, <3>2, Settled DEF IInv, CallsAndResults, Settles, SetResult
        <4> QED
          BY SMTT(30), Z3T(30), <1>3, <2>1, <4>1 DEF HtmlTyped
      <3> QED
        BY SMTT(30), Z3T(30), <1>3, <3>1, <3>2 DEF Silent, HtmlTyped
    <2> QED
      BY SMTT(30), Z3T(30), <1>3, <2>2, <2>3, <2>4 DEF Next, ScriptSteps, Returns, Throwing
  <1> QED
    <2>1. IInv /\ HtmlTyped => DocumentRestored
      BY <1>1
    <2>2. IInv /\ HtmlTyped /\ [Next]_vars => HtmlTyped'
      BY <1>3
    <2> QED
      BY <1>2, <2>1, <2>2, IInvHolds, PTL DEF Spec

============================================================================
