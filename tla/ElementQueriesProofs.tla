------------------------ MODULE ElementQueriesProofs ------------------------
(***************************************************************************)
(* Proofs about the two parts of ElementQueries.js: ElementQueries, for    *)
(* any elements, selectors and sheets, and ResponsiveImages, for any       *)
(* children, widths and number of attachments.                             *)
(***************************************************************************)
EXTENDS ElementQueries, ResponsiveImages, FiniteSetTheorems, WellFoundedInduction, TLAPS

\* The provers are tried in turn: those a leaf cites, or else Zenon before SMT.
USE ZenonT(30), SMTT(30)

\* A set of natural numbers has a least element.  This is what induction over
\* numbers rests on here.
LEMMA LeastNatural ==
    ASSUME NEW S, S \subseteq Nat, S # {}
    PROVE  \E m \in S : \A k \in S : m =< k
  <1>1. IsWellFoundedOn(OpToRel(<, Nat), Nat)
    BY NatLessThanWellFounded
  <1>2. PICK m \in S : \A k \in S : ~(<<k, m>> \in OpToRel(<, Nat))
    BY ONLY Zenon, <1>1, S \subseteq Nat, S # {}, WFMin
  <1>3. \A k \in S : ~(k < m)
    BY <1>2 DEF OpToRel
  <1> QED
    BY SMTT(30), Z3T(30), <1>3

\* What holds of the first value of a function, and of each if of the one before,
\* holds of all.
LEMMA Inductively ==
    ASSUME NEW n \in Nat, NEW f, NEW Good, f[0] \in Good,
           \A k \in 1 .. n : f[k - 1] \in Good => f[k] \in Good
    PROVE  \A k \in 0 .. n : f[k] \in Good
  <1> DEFINE S == {k \in 0 .. n : f[k] \notin Good}
  <1> SUFFICES ASSUME S # {} PROVE FALSE
    OBVIOUS
  <1>1. S \subseteq Nat
    BY SMTT(30), Z3T(30)
  <1> HIDE DEF S
  <1>2. PICK m \in S : \A k \in S : m =< k
    BY <1>1, LeastNatural
  <1>3. m \in 0 .. n /\ f[m] \notin Good
    BY <1>2 DEF S
  <1>4. m \in 1 .. n /\ m - 1 \in 0 .. n /\ ~(m =< m - 1)
    BY SMTT(30), Z3T(30), <1>3
  <1>5. f[m - 1] \in Good
    BY <1>2, <1>4 DEF S
  <1> QED
    BY <1>3, <1>4, <1>5

\* A function may be defined by recursion from its first value.
StepsOn(n, D) == [1 .. n -> [D -> D]]
RunOf(g, n, D, start, step) ==
    g \in [0 .. n -> D] /\ g[0] = start /\ \A k \in 1 .. n : g[k] = step[k][g[k - 1]]

LEMMA Recursively ==
    ASSUME NEW n \in Nat, NEW D, NEW start \in D, NEW step \in StepsOn(n, D)
    PROVE  \E g : RunOf(g, n, D, start, step)
  <1> DEFINE To(m, g) == /\ g \in [0 .. m -> D] /\ g[0] = start
                         /\ \A k \in 1 .. m : g[k] = step[k][g[k - 1]]
             S == {m \in 0 .. n : ~\E g : To(m, g)}
  <1>0. step \in [1 .. n -> [D -> D]]
    BY DEF StepsOn
  <1> SUFFICES ASSUME S # {} PROVE FALSE
    <2>1. n \in 0 .. n
      BY SMTT(30), Z3T(30)
    <2> QED
      BY <2>1 DEF RunOf
  <1>1. S \subseteq Nat
    BY SMTT(30), Z3T(30)
  <1> HIDE DEF S
  <1>2. PICK m \in S : \A k \in S : m =< k
    BY <1>1, LeastNatural
  <1>3. m \in 0 .. n /\ ~\E g : To(m, g)
    BY <1>2 DEF S
  <1>4. CASE m = 0
    <2>1. To(0, [k \in 0 .. 0 |-> start])
      BY SMTT(30), Z3T(30)
    <2> QED
      BY <1>3, <1>4, <2>1
  <1>5. CASE m # 0
    <2>1. m \in 1 .. n /\ m - 1 \in 0 .. n /\ ~(m =< m - 1) /\ m \in Nat
      BY SMTT(30), Z3T(30), <1>3, <1>5
    <2>2. PICK g : To(m - 1, g)
      BY <1>2, <2>1 DEF S
    <2> DEFINE h == [k \in 0 .. m |-> IF k = m THEN step[m][g[m - 1]] ELSE g[k]]
    <2>3. g[m - 1] \in D /\ step[m][g[m - 1]] \in D
      BY SMTT(30), Z3T(30), <1>0, <2>1, <2>2
    <2>4. h \in [0 .. m -> D] /\ h[0] = start
      BY SMTT(30), Z3T(30), <2>1, <2>2, <2>3, <1>5
    <2>5. ASSUME NEW k \in 1 .. m PROVE h[k] = step[k][h[k - 1]]
      BY SMTT(30), Z3T(30), <2>1, <2>2
    <2>6. To(m, h)
      BY <2>4, <2>5
    <2> QED
      BY <1>3, <2>6
  <1> QED
    BY <1>4, <1>5
-----------------------------------------------------------------------------
(***************************************************************************)
(* Reading sheets.  A state of the reading is in order when each selector  *)
(* with queries has one id; what has been read stays.                      *)
(***************************************************************************)
SheetType == [kind : {"rules", "text", "denied"}, rules : Seq(Rules)]
States == [queries : [Selectors -> Seq(Queries)], mapping : Seq(Selectors)]

Consistent(st) ==
    /\ IsInjective(st.mapping)
    /\ Range(st.mapping) = {s \in Selectors : st.queries[s] # <<>>}

Grown(a, b) == \A s \in Selectors : Range(a.queries[s]) \subseteq Range(b.queries[s])

From(start) == {st \in States : Consistent(st) /\ Grown(start, st)}

LEMMA Appended ==
    ASSUME NEW T, NEW s \in Seq(T), NEW x \in T
    PROVE  /\ Append(s, x) \in Seq(T) /\ Append(s, x) # <<>>
           /\ Range(Append(s, x)) = Range(s) \cup {x}
           /\ IsInjective(s) /\ x \notin Range(s) => IsInjective(Append(s, x))
  <1>1. /\ Append(s, x) \in Seq(T) /\ Append(s, x) # <<>> /\ Len(s) \in Nat
        /\ DOMAIN s = 1 .. Len(s) /\ DOMAIN Append(s, x) = 1 .. (Len(s) + 1)
        /\ Append(s, x)[Len(s) + 1] = x
        /\ \A i \in 1 .. Len(s) : Append(s, x)[i] = s[i]
    BY SMTT(30), Z3T(30)
  <1>2. 1 .. (Len(s) + 1) = (1 .. Len(s)) \cup {Len(s) + 1}
    BY SMTT(30), Z3T(30), <1>1
  <1> DEFINE a == Append(s, x)
             n == Len(s)
  <1>3. /\ DOMAIN a = (1 .. n) \cup {n + 1} /\ a[n + 1] = x /\ DOMAIN s = 1 .. n
        /\ \A i \in 1 .. n : a[i] = s[i]
    BY <1>1, <1>2
  <1> HIDE DEF a, n
  <1>4. Range(a) = Range(s) \cup {x}
    BY SMTT(30), Z3T(30), <1>3 DEF Range
  <1>5. IsInjective(s) /\ x \notin Range(s) => IsInjective(a)
    BY SMTT(30), Z3T(30), <1>3 DEF IsInjective, Range
  <1> QED
    BY <1>1, <1>4, <1>5 DEF a

\* queueQuery gives a selector an id with its first query.
LEMMA QueueQueryKeeps ==
    ASSUME NEW start, NEW st \in From(start), NEW rule \in Rules
    PROVE  QueueQuery(st, rule) \in From(start)
  <1> DEFINE s == rule.sel
             new == QueueQuery(st, rule)
  <1>1. s \in Selectors /\ rule.query \in Queries
    BY DEF Rules
  <1>2. /\ st.queries \in [Selectors -> Seq(Queries)] /\ st.mapping \in Seq(Selectors)
        /\ Consistent(st) /\ Grown(start, st)
    BY DEF From, States
  <1>3. PICK q \in Seq(Queries) : q = st.queries[s]
    BY <1>1, <1>2
  <1>4. /\ Append(q, rule.query) \in Seq(Queries) /\ Append(q, rule.query) # <<>>
        /\ Range(q) \subseteq Range(Append(q, rule.query))
    BY SMTT(30), Z3T(30), <1>1, <1>3, Appended
  <1>5. /\ new.queries = [st.queries EXCEPT ![s] = Append(q, rule.query)]
        /\ new.mapping = IF q = <<>> THEN Append(st.mapping, s) ELSE st.mapping
        /\ new = [queries |-> new.queries, mapping |-> new.mapping]
    BY <1>3 DEF QueueQuery
  <1>6. /\ new.queries \in [Selectors -> Seq(Queries)]
        /\ new.queries[s] = Append(q, rule.query)
        /\ \A t \in Selectors : t # s => new.queries[t] = st.queries[t]
    BY <1>1, <1>2, <1>4, <1>5
  <1>7. Grown(start, new)
    BY <1>2, <1>3, <1>4, <1>6 DEF Grown
  <1>8. {t \in Selectors : new.queries[t] # <<>>} = {t \in Selectors : st.queries[t] # <<>>} \cup {s}
    BY <1>1, <1>4, <1>6
  <1>9. new.mapping \in Seq(Selectors) /\ Consistent(new)
    <2>1. CASE q = <<>>
      <3>1. s \notin Range(st.mapping)
        BY <1>2, <1>3, <2>1 DEF Consistent
      <3>2. new.mapping = Append(st.mapping, s)
        BY <1>5, <2>1
      <3> HIDE DEF new
      <3>3. /\ Append(st.mapping, s) \in Seq(Selectors) /\ IsInjective(Append(st.mapping, s))
            /\ Range(Append(st.mapping, s)) = Range(st.mapping) \cup {s}
        BY SMTT(30), Z3T(30), <1>1, <1>2, <3>1, Appended DEF Consistent
      <3> QED
        BY <1>2, <1>8, <3>2, <3>3 DEF Consistent
    <2>2. CASE q # <<>>
      <3>1. new.mapping = st.mapping
        BY <1>5, <2>2
      <3>2. s \in {t \in Selectors : st.queries[t] # <<>>}
        BY <1>1, <1>3, <2>2
      <3> HIDE DEF new
      <3> QED
        BY <1>2, <1>8, <3>1, <3>2 DEF Consistent
    <2> QED
      BY <2>1, <2>2
  <1>10. new \in States
    BY <1>5, <1>6, <1>9 DEF States
  <1> QED
    BY <1>7, <1>9, <1>10 DEF From

\* readRules, for a whole sheet.
LEMMA ReadSheetKeeps ==
    ASSUME NEW start, NEW st \in From(start), NEW sheet \in SheetType
    PROVE  ReadSheet(st, sheet) \in From(start)
  <1> DEFINE n == Len(sheet.rules)
             D == From(start)
             Def(g) == [k \in 0 .. n |->
                 IF k = 0 THEN st
                 ELSE IF IsRead(sheet, k) THEN QueueQuery(g[k - 1], sheet.rules[k])
                 ELSE g[k - 1]]
             step == [k \in 1 .. n |-> [x \in D |->
                 IF IsRead(sheet, k) THEN QueueQuery(x, sheet.rules[k]) ELSE x]]
  <1>1. n \in Nat /\ \A k \in 1 .. n : sheet.rules[k] \in Rules
    <2>1. sheet.rules \in Seq(Rules)
      BY DEF SheetType
    <2> QED
      BY SMTT(30), Z3T(30), <2>1
  <1>2. \A k \in 1 .. n, x \in D : QueueQuery(x, sheet.rules[k]) \in D
    BY <1>1, QueueQueryKeeps
  <1>3. step \in [1 .. n -> [D -> D]]
    BY <1>2
  <1> HIDE DEF n, D
  <1>4. PICK g \in [0 .. n -> D] : g[0] = st /\ \A k \in 1 .. n : g[k] = step[k][g[k - 1]]
    <2>1. st \in D
      BY DEF D
    <2>2. step \in StepsOn(n, D)
      BY <1>3 DEF StepsOn
    <2> HIDE DEF step
    <2>3. \E g : RunOf(g, n, D, st, step)
      BY <1>1, <2>1, <2>2, Recursively
    <2> QED
      BY <2>3 DEF RunOf
  <1>5. g = Def(g)
    <2>1. \A k \in 0 .. n : k = 0 \/ (k \in 1 .. n /\ k - 1 \in 0 .. n)
      BY SMTT(30), Z3T(30), <1>1
    <2>2. ASSUME NEW k \in 0 .. n PROVE g[k] = Def(g)[k]
      <3>1. CASE k = 0
        BY <1>4, <3>1
      <3>2. CASE k # 0
        <4>1. k \in 1 .. n /\ k - 1 \in 0 .. n /\ g[k - 1] \in D
          BY <1>4, <2>1, <2>2, <3>2
        <4> QED
          BY <1>4, <3>2, <4>1
      <3> QED
        BY <3>1, <3>2
    <2> QED
      BY <1>4, <2>2
  <1>6. PICK f : f = Def(f) /\ ReadSheet(st, sheet) = f[n]
    BY <1>5 DEF ReadSheet, n
  <1>7. f[0] \in D /\ \A k \in 1 .. n : f[k - 1] \in D => f[k] \in D
    <2>1. 0 \in 0 .. n /\ \A k \in 1 .. n : k \in 0 .. n /\ k # 0
      BY SMTT(30), Z3T(30), <1>1
    <2>2. f[0] = st
      BY <1>6, <2>1
    <2>3. ASSUME NEW k \in 1 .. n, f[k - 1] \in D PROVE f[k] \in D
      <3>1. f[k] = IF IsRead(sheet, k) THEN QueueQuery(f[k - 1], sheet.rules[k])
                   ELSE f[k - 1]
        BY <1>6, <2>1, <2>3
      <3> QED
        BY <1>2, <2>3, <3>1
    <2> QED
      BY <2>2, <2>3 DEF D
  <1>8. n \in 0 .. n /\ \A k \in 0 .. n : f[k] \in D
    <2>1. n \in 0 .. n
      BY SMTT(30), Z3T(30), <1>1
    <2> QED
      BY <1>1, <1>7, <2>1, Inductively
  <1> QED
    BY <1>6, <1>8 DEF D

\* init reads the sheets that are in the document, one after the other.
LEMMA ReadSheetsKeeps ==
    ASSUME NEW start, NEW st \in From(start), NEW n \in 0 .. Len(Sheets)
    PROVE  ReadSheets(st, n) \in From(start)
  <1> DEFINE D == From(start)
             Def(g) == [i \in 0 .. n |-> IF i = 0 THEN st ELSE ReadSheet(g[i - 1], Sheets[i])]
             step == [i \in 1 .. n |-> [x \in D |-> ReadSheet(x, Sheets[i])]]
  <1>1. n \in Nat /\ \A i \in 1 .. n : Sheets[i] \in SheetType
    <2>1. Sheets \in Seq(SheetType)
      BY SheetsAssumption DEF SheetType
    <2> QED
      BY SMTT(30), Z3T(30), <2>1
  <1>2. \A i \in 1 .. n, x \in D : ReadSheet(x, Sheets[i]) \in D
    BY <1>1, ReadSheetKeeps
  <1>3. step \in [1 .. n -> [D -> D]]
    BY <1>2
  <1> HIDE DEF D
  <1>4. PICK g \in [0 .. n -> D] : g[0] = st /\ \A i \in 1 .. n : g[i] = step[i][g[i - 1]]
    <2>1. st \in D
      BY DEF D
    <2>2. step \in StepsOn(n, D)
      BY <1>3 DEF StepsOn
    <2> HIDE DEF step
    <2>3. \E g : RunOf(g, n, D, st, step)
      BY <1>1, <2>1, <2>2, Recursively
    <2> QED
      BY <2>3 DEF RunOf
  <1>5. g = Def(g)
    <2>1. \A i \in 0 .. n : i = 0 \/ (i \in 1 .. n /\ i - 1 \in 0 .. n)
      BY SMTT(30), Z3T(30), <1>1
    <2>2. ASSUME NEW i \in 0 .. n PROVE g[i] = Def(g)[i]
      <3>1. CASE i = 0
        BY <1>4, <3>1
      <3>2. CASE i # 0
        <4>1. i \in 1 .. n /\ i - 1 \in 0 .. n /\ g[i - 1] \in D
          BY <1>4, <2>1, <2>2, <3>2
        <4> QED
          BY <1>4, <3>2, <4>1
      <3> QED
        BY <3>1, <3>2
    <2> QED
      BY <1>4, <2>2
  <1>6. PICK f : f = Def(f) /\ ReadSheets(st, n) = f[n]
    BY <1>5 DEF ReadSheets
  <1>7. f[0] \in D /\ \A i \in 1 .. n : f[i - 1] \in D => f[i] \in D
    <2>1. 0 \in 0 .. n /\ \A i \in 1 .. n : i \in 0 .. n /\ i # 0
      BY SMTT(30), Z3T(30), <1>1
    <2>2. f[0] = st
      BY <1>6, <2>1
    <2>3. ASSUME NEW i \in 1 .. n, f[i - 1] \in D PROVE f[i] \in D
      <3>1. f[i] = ReadSheet(f[i - 1], Sheets[i])
        BY <1>6, <2>1, <2>3
      <3> QED
        BY <1>2, <2>3, <3>1
    <2> QED
      BY <2>2, <2>3 DEF D
  <1>8. n \in 0 .. n /\ \A i \in 0 .. n : f[i] \in D
    <2>1. n \in 0 .. n
      BY SMTT(30), Z3T(30), <1>1
    <2> QED
      BY <1>1, <1>7, <2>1, Inductively
  <1> QED
    BY <1>6, <1>8 DEF D
-----------------------------------------------------------------------------
(***************************************************************************)
(* The inductive invariant, by what the actions change.  An element has a  *)
(* sensor of its own exactly while it has setup information, and then the  *)
(* queue has a listener that makes use of it; the listener that does not   *)
(* look for the information is there only then.                            *)
(***************************************************************************)
Listeners == {"direct", "guarded"}
Reading == [queries |-> allQueries, mapping |-> idToSelectorMapping]

RulesOK ==
    /\ loaded \in 0 .. Len(Sheets) /\ handlers \in 0 .. MaxInits
    /\ Reading \in States /\ Consistent(Reading)
    /\ idToSelectorMapping # <<>> => handlers > 0

PageOK ==
    /\ ready \in BOOLEAN /\ listening \in BOOLEAN /\ scale \in Scales
    /\ box \in [Elements -> Boxes \cup {Hidden}] /\ steps \in 0 .. MaxSteps
    /\ starting \subseteq Elements /\ heard \subseteq Elements /\ pending \subseteq Elements

ListenedTo(e) ==
    /\ setup[e] # None <=> e \in sensor
    /\ e \in sensor => Listeners \cap Range(queue[e]) # {}
    /\ "direct" \in Range(queue[e]) => e \in sensor

SetupOK ==
    /\ setup \in [Elements -> Selectors \cup {None}]
    /\ sensor \subseteq Elements /\ instance \subseteq Images
    /\ queue \in [Elements -> Seq({"check", "direct", "guarded"})]
    /\ thrown = FALSE /\ \A e \in Elements : ListenedTo(e)

Attributes == UNION {Range(allQueries[s]) : s \in Selectors}
AttrsOK == \A e \in Elements : attrs[e] \subseteq Attributes

QueriesInv == RulesOK /\ PageOK /\ SetupOK /\ AttrsOK

LEMMA Concatenated ==
    ASSUME NEW T, NEW s \in Seq(T), NEW t \in Seq(T)
    PROVE  s \o t \in Seq(T) /\ Range(s \o t) = Range(s) \cup Range(t)
  <1>1. /\ s \o t \in Seq(T) /\ Len(s) \in Nat /\ Len(t) \in Nat
        /\ DOMAIN s = 1 .. Len(s) /\ DOMAIN t = 1 .. Len(t)
        /\ DOMAIN (s \o t) = 1 .. (Len(s) + Len(t))
        /\ \A i \in 1 .. Len(s) : (s \o t)[i] = s[i]
        /\ \A i \in 1 .. Len(t) : (s \o t)[Len(s) + i] = t[i]
    BY SMTT(30), Z3T(30)
  <1>2. /\ \A i \in 1 .. Len(s) : i \in 1 .. (Len(s) + Len(t))
        /\ \A i \in 1 .. Len(t) : Len(s) + i \in 1 .. (Len(s) + Len(t))
        /\ \A i \in 1 .. (Len(s) + Len(t)) :
             i \in 1 .. Len(s) \/ \E j \in 1 .. Len(t) : i = Len(s) + j
    <2>1. ASSUME NEW i \in 1 .. (Len(s) + Len(t)), i \notin 1 .. Len(s)
          PROVE  \E j \in 1 .. Len(t) : i = Len(s) + j
      <3>1. i - Len(s) \in 1 .. Len(t) /\ i = Len(s) + (i - Len(s))
        BY SMTT(30), Z3T(30), <1>1, <2>1
      <3> QED
        BY <3>1
    <2>2. /\ \A i \in 1 .. Len(s) : i \in 1 .. (Len(s) + Len(t))
          /\ \A i \in 1 .. Len(t) : Len(s) + i \in 1 .. (Len(s) + Len(t))
      BY SMTT(30), Z3T(30), <1>1
    <2> QED
      BY <2>1, <2>2
  <1> DEFINE c == s \o t
  <1>3. Range(s) \subseteq Range(c) /\ Range(t) \subseteq Range(c)
    BY <1>1, <1>2 DEF Range
  <1>4. ASSUME NEW x \in Range(c) PROVE x \in Range(s) \cup Range(t)
    <2>1. PICK i \in 1 .. (Len(s) + Len(t)) : x = c[i]
      BY <1>1, <1>4 DEF Range
    <2>2. CASE i \in 1 .. Len(s)
      BY <1>1, <2>1, <2>2 DEF Range
    <2>3. CASE \E j \in 1 .. Len(t) : i = Len(s) + j
      BY <1>1, <2>1, <2>3 DEF Range
    <2> QED
      BY <1>2, <2>2, <2>3
  <1> HIDE DEF c
  <1>5. Range(c) = Range(s) \cup Range(t)
    BY <1>3, <1>4
  <1> QED
    BY <1>1, <1>5 DEF c

\* init, and what it does to rules, sensors and queues.
LEMMA InitInstanceStep ==
    ASSUME QueriesInv, InitInstance, ready' \in BOOLEAN, listening' \in BOOLEAN,
           steps' \in 0 .. MaxSteps
    PROVE  QueriesInv'
  <1> DEFINE state == ReadSheets(Reading, loaded)
  <1>1. state \in From(Reading)
    <2>1. Reading \in From(Reading)
      BY DEF QueriesInv, RulesOK, From, Grown
    <2>2. loaded \in 0 .. Len(Sheets)
      BY DEF QueriesInv, RulesOK
    <2> QED
      BY <2>1, <2>2, ReadSheetsKeeps
  <1>2. /\ allQueries' = state.queries /\ idToSelectorMapping' = state.mapping
        /\ starting' = starting \cup
             {e \in Animated(state.mapping) \ Animated(idToSelectorMapping) : box[e] # Hidden}
    BY DEF InitInstance, Reading
  <1> HIDE DEF state
  <1>3. Reading' = state
    <2>1. state = [queries |-> state.queries, mapping |-> state.mapping]
      BY <1>1 DEF From, States
    <2> QED
      BY <1>2, <2>1 DEF Reading
  <1>4. RulesOK'
    <2>1. handlers' \in 0 .. MaxInits /\ handlers' > 0
      BY SMTT(30), Z3T(30), ElementsAssumption DEF InitInstance, QueriesInv, RulesOK
    <2>2. Reading' \in States' /\ Consistent(Reading)'
      BY <1>1, <1>3 DEF From, States, Consistent
    <2>3. loaded' = loaded
      BY DEF InitInstance
    <2> QED
      BY <2>1, <2>2, <2>3 DEF QueriesInv, RulesOK
  <1>5. PageOK'
    <2>1. starting' \subseteq Elements
      BY <1>2 DEF Animated, QueriesInv, PageOK
    <2> QED
      BY <2>1, ElementsAssumption DEF QueriesInv, PageOK, InitInstance
  <1>6. SetupOK'
    <2>1. ASSUME NEW e \in Elements
          PROVE  /\ queue'[e] \in Seq({"check", "direct", "guarded"})
                 /\ Listeners \cap Range(queue'[e]) = Listeners \cap Range(queue[e])
      <3>1. PICK q \in Seq({"check", "direct", "guarded"}) : q = queue[e]
        BY <2>1 DEF QueriesInv, SetupOK
      <3>2. /\ Append(q, "check") \in Seq({"check", "direct", "guarded"})
            /\ Range(Append(q, "check")) = Range(q) \cup {"check"}
        BY SMTT(30), Z3T(30), <3>1, Appended
      <3>3. queue'[e] = IF e \in Images THEN Append(q, "check") ELSE q
        BY <2>1, <3>1 DEF InitInstance
      <3> QED
        BY <3>1, <3>2, <3>3 DEF Listeners
    <2>2. queue' \in [Elements -> Seq({"check", "direct", "guarded"})]
      <3>1. queue' = [e \in Elements |-> queue'[e]]
        BY DEF InitInstance
      <3> QED
        BY <2>1, <3>1
    <2>3. setup' = setup /\ sensor' = sensor /\ thrown' = thrown /\ instance' \subseteq Images
      BY DEF InitInstance
    <2>4. ASSUME NEW e \in Elements PROVE ListenedTo(e)'
      <3>1. "direct" \in Range(queue'[e]) => "direct" \in Range(queue[e])
        BY <2>1 DEF Listeners
      <3>2. ListenedTo(e)
        BY DEF QueriesInv, SetupOK
      <3> QED
        BY <2>1, <2>3, <3>1, <3>2 DEF ListenedTo
    <2> QED
      BY <2>2, <2>3, <2>4 DEF QueriesInv, SetupOK
  <1>7. AttrsOK'
    <2>1. attrs' = attrs
      BY DEF InitInstance, shown
    <2>2. \A s \in Selectors : Range(allQueries[s]) \subseteq Range(allQueries'[s])
      BY <1>1, <1>2 DEF From, Grown, Reading
    <2>3. Attributes \subseteq Attributes'
      BY <2>2 DEF Attributes
    <2> QED
      BY <2>1, <2>3 DEF AttrsOK, QueriesInv
  <1> QED
    BY <1>4, <1>5, <1>6, <1>7 DEF QueriesInv

\* setupElement: an element that is set up gets the listener it needs, unless it is
\* attached before or there from an earlier setup.
LEMMA SetupElementsStep ==
    ASSUME QueriesInv, NEW which \in SUBSET Elements, NEW on, NEW added,
           added \in [Elements -> Seq({"guarded"})],
           \A e \in Elements \ which : added[e] = <<>>,
           \A e \in which : on[e] \in Selectors,
           SetupElements(which, on, added),
           UNCHANGED <<instance, thrown, allQueries>>
    PROVE  SetupOK' /\ AttrsOK' /\ heard' \subseteq Elements
  <1> DEFINE All == {"check", "direct", "guarded"}
             set == [e \in Elements |-> IF e \in which /\ setup[e] = None THEN on[e] ELSE setup[e]]
             all == [e \in Elements |-> IF e \in which /\ added[e] = <<>> /\ e \notin sensor
                                          THEN <<"direct">> ELSE added[e]]
  <1>1. /\ setup' = set /\ sensor' = sensor \cup which
        /\ queue' = [e \in Elements |-> queue[e] \o all[e]]
        /\ heard' = heard \cup {e \in which : queue[e] = <<>>}
        /\ Call(which, set)
    BY DEF SetupElements
  <1>2. ASSUME NEW e \in Elements
        PROVE  /\ set[e] \in Selectors \cup {None} /\ (e \in which => set[e] \in Selectors)
               /\ e \notin which => set[e] = setup[e]
    <2>1. setup[e] \in Selectors \cup {None}
      BY DEF QueriesInv, SetupOK
    <2> QED
      BY <2>1
  <1>3. ASSUME NEW e \in Elements
        PROVE  all[e] \in Seq(All) /\ Range(all[e]) \subseteq Listeners
               /\ (e \in which /\ e \notin sensor => Listeners \cap Range(all[e]) # {})
               /\ (e \notin which => Range(all[e]) = {})
    <2>1. CASE e \in which /\ added[e] = <<>> /\ e \notin sensor
      <3>1. all[e] = <<"direct">>
        BY <2>1
      <3>2. <<"direct">> \in Seq(All) /\ Range(<<"direct">>) = {"direct"}
        BY SMTT(30), Z3T(30) DEF Range
      <3> HIDE DEF all
      <3> QED
        BY <2>1, <3>1, <3>2 DEF Listeners
    <2>2. CASE ~(e \in which /\ added[e] = <<>> /\ e \notin sensor)
      <3>1. PICK a \in Seq({"guarded"}) : a = added[e]
        OBVIOUS
      <3>2. all[e] = a
        BY <2>2, <3>1
      <3>3. a \in Seq(All) /\ Range(a) \subseteq {"guarded"} /\ (a # <<>> => Range(a) # {})
            /\ (a = <<>> => Range(a) = {})
        BY SMTT(30), Z3T(30), <3>1 DEF Range
      <3>4. a # <<>> => "guarded" \in Range(a)
        BY <3>3
      <3> HIDE DEF all
      <3> QED
        BY <2>2, <3>1, <3>2, <3>3, <3>4 DEF Listeners
    <2> QED
      BY <2>1, <2>2
  <1> HIDE DEF set, all
  <1>4. ASSUME NEW e \in Elements
        PROVE  queue'[e] \in Seq(All) /\ Range(queue'[e]) = Range(queue[e]) \cup Range(all[e])
    <2>1. queue[e] \in Seq(All)
      BY DEF QueriesInv, SetupOK
    <2> HIDE DEF All
    <2> QED
      BY SMTT(30), Z3T(30), <1>1, <1>3, <2>1, Concatenated
  <1>5. ASSUME NEW e \in Elements PROVE ListenedTo(e)'
    <2>1. ListenedTo(e)
      BY DEF QueriesInv, SetupOK
    <2>2. CASE e \in which
      <3>1. setup'[e] # None /\ e \in sensor'
        BY <1>1, <1>2, <2>2, ElementsAssumption
      <3>2. Listeners \cap Range(queue'[e]) # {}
        BY <1>3, <1>4, <2>1, <2>2 DEF ListenedTo
      <3> QED
        BY <3>1, <3>2 DEF ListenedTo
    <2>3. CASE e \notin which
      <3>1. setup'[e] = setup[e] /\ (e \in sensor' <=> e \in sensor)
        BY <1>1, <1>2, <2>3
      <3>2. Range(queue'[e]) = Range(queue[e])
        BY <1>3, <1>4, <2>3
      <3> QED
        BY <2>1, <3>1, <3>2 DEF ListenedTo
    <2> QED
      BY <2>2, <2>3
  <1>6. SetupOK'
    <2>1. setup' \in [Elements -> Selectors \cup {None}]
      <3>1. set = [e \in Elements |-> set[e]]
        BY DEF set
      <3> QED
        BY <1>1, <1>2, <3>1
    <2>2. queue' \in [Elements -> Seq(All)]
      BY <1>1, <1>4
    <2> QED
      BY <1>1, <1>5, <2>1, <2>2 DEF QueriesInv, SetupOK
  <1>7. AttrsOK'
    <2>1. ASSUME NEW e \in Elements PROVE attrs'[e] \subseteq Attributes
      <3>1. CASE e \notin which
        BY <1>1, <3>1 DEF Call, QueriesInv, AttrsOK
      <3>2. CASE e \in which
        <4>1. attrs'[e] \subseteq Range(allQueries[set[e]])
          BY <1>1, <3>2 DEF Call
        <4>2. set[e] \in Selectors
          BY <1>2, <3>2
        <4> QED
          BY <4>1, <4>2 DEF Attributes
      <3> QED
        BY <3>1, <3>2
    <2>2. Attributes' = Attributes
      BY DEF Attributes
    <2> QED
      BY <2>1, <2>2 DEF AttrsOK
  <1> QED
    BY <1>1, <1>6, <1>7 DEF QueriesInv, PageOK

\* The first selector that has rules and matches, for an element that has one.
LEMMA FirstSelectorMatches ==
    ASSUME QueriesInv, NEW e \in Animated(idToSelectorMapping)
    PROVE  FirstSelector(e) \in Selectors
  <1> DEFINE of == {i \in DOMAIN idToSelectorMapping : idToSelectorMapping[i] \in Matches[e]}
  <1>1. idToSelectorMapping \in Seq(Selectors)
    BY DEF QueriesInv, RulesOK, Reading, States
  <1>2. of # {}
    BY DEF Animated, Range
  <1>3. of \subseteq Nat /\ of \subseteq DOMAIN idToSelectorMapping
    BY SMTT(30), Z3T(30), <1>1
  <1> HIDE DEF of
  <1>4. Min(of) \in of
    <2>1. \E m \in of : \A k \in of : m =< k
      BY <1>2, <1>3, LeastNatural
    <2> QED
      BY <2>1 DEF Min
  <1>5. FirstSelector(e) = idToSelectorMapping[Min(of)]
    BY <1>2 DEF FirstSelector, of
  <1>6. \A i \in DOMAIN idToSelectorMapping : idToSelectorMapping[i] \in Selectors
    BY SMTT(30), Z3T(30), <1>1
  <1> QED
    BY <1>3, <1>4, <1>5, <1>6

\* The animationstart listeners set an element up for a selector that has rules; as
\* there are rules, there is such a listener, and so a guarded one is attached.
LEMMA AnimationStartStep ==
    ASSUME QueriesInv, NEW e \in Elements, AnimationStart(e)
    PROVE  QueriesInv'
  <1> DEFINE guards == [h \in 1 .. handlers |-> "guarded"]
  <1>1. PICK i \in DOMAIN idToSelectorMapping :
          SetupElements({e}, [f \in Elements |-> idToSelectorMapping[i]],
                        [f \in Elements |-> IF f = e THEN guards ELSE <<>>])
    BY DEF AnimationStart
  <1>2. idToSelectorMapping \in Seq(Selectors) /\ handlers \in Nat
    <2>1. handlers \in 0 .. MaxInits
      BY DEF QueriesInv, RulesOK
    <2>2. handlers \in Nat
      BY SMTT(30), Z3T(30), <2>1
    <2> QED
      BY <2>2 DEF QueriesInv, RulesOK, Reading, States
  <1>3. idToSelectorMapping[i] \in Selectors
    BY SMTT(30), Z3T(30), <1>2
  <1>4. guards \in Seq({"guarded"}) /\ <<>> \in Seq({"guarded"})
    BY SMTT(30), Z3T(30), <1>2
  <1> HIDE DEF guards
  <1>5. [f \in Elements |-> IF f = e THEN guards ELSE <<>>] \in [Elements -> Seq({"guarded"})]
    BY <1>4
  <1>6. UNCHANGED <<dom, scale, rules, box, instance, pending, thrown, detached, steps>>
        /\ starting' = starting \ {e}
    BY DEF AnimationStart
  <1>7. SetupOK' /\ AttrsOK' /\ heard' \subseteq Elements
    <2>1. UNCHANGED <<instance, thrown, allQueries>>
      BY <1>6 DEF rules
    <2>2. \A f \in Elements \ {e} : [g \in Elements |-> IF g = e THEN guards ELSE <<>>][f] = <<>>
      OBVIOUS
    <2>3. \A f \in {e} : [g \in Elements |-> idToSelectorMapping[i]][f] \in Selectors
      BY <1>3
    <2>4. {e} \in SUBSET Elements
      OBVIOUS
    <2> QED
      BY <1>1, <1>5, <2>1, <2>2, <2>3, <2>4, SetupElementsStep
  <1>8. RulesOK'
    BY <1>6 DEF QueriesInv, RulesOK, Reading, Consistent, dom, rules
  <1>9. PageOK'
    BY <1>6, <1>7 DEF QueriesInv, PageOK, dom
  <1> QED
    BY <1>7, <1>8, <1>9 DEF QueriesInv

LEMMA FindElementsStep ==
    ASSUME QueriesInv, NEW container \in SUBSET Elements, FindElements(container)
    PROVE  QueriesInv'
  <1> DEFINE which == container \cap Animated(idToSelectorMapping)
             on == [e \in Elements |-> FirstSelector(e)]
             added == [e \in Elements |-> <<>>]
  <1>1. SetupElements(which, on, added)
    BY DEF FindElements
  <1>2. UNCHANGED <<dom, scale, rules, box, starting, instance, pending, thrown, detached>>
    BY DEF FindElements
  <1>3. SetupOK' /\ AttrsOK' /\ heard' \subseteq Elements
    <2>1. UNCHANGED <<instance, thrown, allQueries>>
      BY <1>2 DEF rules
    <2>2. which \in SUBSET Elements
      OBVIOUS
    <2>3. \A e \in which : on[e] \in Selectors
      BY FirstSelectorMatches
    <2>4. <<>> \in Seq({"guarded"})
      BY SMTT(30), Z3T(30)
    <2>5. added \in [Elements -> Seq({"guarded"})] /\ \A e \in Elements \ which : added[e] = <<>>
      BY <2>4
    <2> HIDE DEF which, on, added
    <2> QED
      BY <1>1, <2>1, <2>2, <2>3, <2>5, SetupElementsStep
  <1>4. RulesOK'
    BY <1>2 DEF QueriesInv, RulesOK, Reading, Consistent, dom, rules
  <1>5. steps' \in 0 .. MaxSteps
    <2>1. steps \in 0 .. MaxSteps /\ steps < MaxSteps /\ steps' = steps + 1
      BY DEF QueriesInv, PageOK, FindElements, Step
    <2> QED
      BY SMTT(30), Z3T(30), <2>1, ElementsAssumption
  <1>6. PageOK'
    BY <1>2, <1>3, <1>5 DEF QueriesInv, PageOK, dom
  <1> QED
    BY <1>3, <1>4, <1>6 DEF QueriesInv

\* detach: the listeners go with the setup information; an element without it has no
\* sensor of its own, and none of its listeners is direct.
LEMMA DetachStep ==
    ASSUME QueriesInv, NEW e \in Elements, Detach(e), steps' \in 0 .. MaxSteps
    PROVE  QueriesInv'
  <1>1. /\ queue' = [queue EXCEPT ![e] = <<>>] /\ heard' = heard \ {e}
        /\ UNCHANGED <<dom, scale, rules, box, starting, pending, shown, thrown>>
    BY DEF Detach
  <1>2. RulesOK' /\ PageOK' /\ AttrsOK'
    BY <1>1
    DEF QueriesInv, RulesOK, Reading, Consistent, PageOK, AttrsOK, Attributes, dom, rules, shown
  <1>3. ASSUME NEW f \in Elements PROVE ListenedTo(f)'
    <2>1. ListenedTo(f) /\ queue \in [Elements -> Seq({"check", "direct", "guarded"})]
      BY DEF QueriesInv, SetupOK
    <2>2. CASE f # e
      <3>1. queue'[f] = queue[f]
        BY <1>1, <2>1, <2>2
      <3>2. setup'[f] = setup[f] /\ (f \in sensor' <=> f \in sensor)
        <4>1. setup \in [Elements -> Selectors \cup {None}]
          BY DEF QueriesInv, SetupOK
        <4> QED
          BY <2>2, <4>1 DEF Detach
      <3> QED
        BY <2>1, <3>1, <3>2 DEF ListenedTo
    <2>3. CASE f = e
      <3>1. queue'[f] = <<>>
        BY <1>1, <2>1, <2>3
      <3>2. Range(<<>>) = {}
        BY SMTT(30), Z3T(30) DEF Range
      <3>3. setup'[f] = None /\ f \notin sensor'
        <4>1. setup \in [Elements -> Selectors \cup {None}]
          BY DEF QueriesInv, SetupOK
        <4> QED
          BY <2>1, <2>3, <4>1 DEF Detach, ListenedTo
      <3> QED
        BY <3>1, <3>2, <3>3 DEF ListenedTo
    <2> QED
      BY <2>2, <2>3
  <1>4. queue' \in [Elements -> Seq({"check", "direct", "guarded"})]
    <2>1. queue \in [Elements -> Seq({"check", "direct", "guarded"})]
      BY DEF QueriesInv, SetupOK
    <2>2. <<>> \in Seq({"check", "direct", "guarded"})
      BY SMTT(30), Z3T(30)
    <2> QED
      BY <1>1, <2>1, <2>2
  <1>5. setup' \in [Elements -> Selectors \cup {None}] /\ sensor' \subseteq Elements
        /\ instance' \subseteq Images
    BY DEF QueriesInv, SetupOK, Detach
  <1>6. SetupOK'
    BY <1>1, <1>3, <1>4, <1>5 DEF QueriesInv, SetupOK
  <1> QED
    BY <1>2, <1>6 DEF QueriesInv

\* A report finds the setup information of every direct listener.
LEMMA ReportStep ==
    ASSUME QueriesInv, NEW e \in Elements, Report(e)
    PROVE  QueriesInv'
  <1>1. UNCHANGED <<dom, scale, rules, box, starting, setup, sensors, detached, steps>>
        /\ pending' = pending \ {e}
    BY DEF Report
  <1>2. RulesOK' /\ PageOK'
    BY <1>1 DEF QueriesInv, RulesOK, Reading, Consistent, PageOK, dom, rules, sensors
  <1>3. thrown' = FALSE
    <2>1. ListenedTo(e) /\ thrown = FALSE
      BY DEF QueriesInv, SetupOK
    <2>2. ~(setup[e] = None /\ "direct" \in Range(queue[e]))
      BY <2>1 DEF ListenedTo
    <2> QED
      BY <2>1, <2>2 DEF Report
  <1>4. SetupOK'
    BY <1>1, <1>3 DEF QueriesInv, SetupOK, ListenedTo, sensors
  <1>5. AttrsOK'
    <2> DEFINE which == {f \in {e} : setup[f] # None /\ {"direct", "guarded"} \cap Range(queue[f]) # {}}
    <2>1. Call(which, setup)
      BY DEF Report
    <2>2. \A f \in which : setup[f] \in Selectors
      BY DEF QueriesInv, SetupOK
    <2> HIDE DEF which
    <2>3. ASSUME NEW f \in Elements PROVE attrs'[f] \subseteq Attributes
      <3>1. CASE f \notin which
        BY <2>1, <3>1 DEF Call, QueriesInv, AttrsOK
      <3>2. CASE f \in which
        BY <2>1, <2>2, <3>2 DEF Call, Attributes
      <3> QED
        BY <3>1, <3>2
    <2>4. Attributes' = Attributes
      BY <1>1 DEF Attributes, rules
    <2> QED
      BY <2>3, <2>4 DEF AttrsOK
  <1> QED
    BY <1>2, <1>4, <1>5 DEF QueriesInv

\* What the engine and the page do leaves rules, sensors and listeners alone.
LEMMA PageStep ==
    ASSUME QueriesInv, steps' \in 0 .. MaxSteps,
           UNCHANGED <<rules, setup, sensor, instance, queue, shown, thrown>>,
           loaded' \in 0 .. Len(Sheets), ready' \in BOOLEAN, listening' \in BOOLEAN,
           scale' \in Scales, box' \in [Elements -> Boxes \cup {Hidden}],
           starting' \subseteq Elements, heard' \subseteq Elements, pending' \subseteq Elements
    PROVE  QueriesInv'
  <1>1. RulesOK'
    BY DEF QueriesInv, RulesOK, Reading, Consistent, rules
  <1>2. PageOK'
    BY DEF PageOK
  <1>3. SetupOK'
    BY DEF QueriesInv, SetupOK, ListenedTo
  <1>4. AttrsOK'
    BY DEF QueriesInv, AttrsOK, Attributes, rules, shown
  <1> QED
    BY <1>1, <1>2, <1>3, <1>4 DEF QueriesInv

LEMMA QueriesInit == ASSUME Init PROVE QueriesInv
  <1>1. RulesOK
    <2>1. <<>> \in Seq(Selectors) /\ Range(<<>>) = {} /\ DOMAIN <<>> = {}
      BY SMTT(30), Z3T(30) DEF Range
    <2>2. 1 \in 0 .. Len(Sheets) /\ 0 \in 0 .. MaxInits
      BY SMTT(30), Z3T(30), SheetsAssumption, ElementsAssumption
    <2>3. Reading \in States
      <3>1. <<>> \in Seq(Queries)
        BY SMTT(30), Z3T(30)
      <3> QED
        BY <2>1, <3>1 DEF Init, Reading, States
    <2>4. Consistent(Reading)
      <3>1. Reading.mapping = <<>> /\ \A s \in Selectors : Reading.queries[s] = <<>>
        BY DEF Init, Reading
      <3>2. Range(<<>>) = {s \in Selectors : Reading.queries[s] # <<>>}
        BY <2>1, <3>1
      <3>3. IsInjective(<<>>)
        BY <2>1 DEF IsInjective
      <3> QED
        BY <3>1, <3>2, <3>3 DEF Consistent
    <2> QED
      BY <2>2, <2>3, <2>4 DEF Init, RulesOK
  <1>2. PageOK
    <2>1. 0 \in 0 .. MaxSteps
      BY SMTT(30), Z3T(30), ElementsAssumption
    <2> QED
      BY <2>1 DEF Init, PageOK
  <1>3. SetupOK
    <2>1. <<>> \in Seq({"check", "direct", "guarded"}) /\ Range(<<>>) = {}
      BY SMTT(30), Z3T(30) DEF Range
    <2>2. \A e \in Elements : ListenedTo(e)
      BY <2>1 DEF Init, ListenedTo
    <2> QED
      BY <2>1, <2>2 DEF Init, SetupOK
  <1>4. AttrsOK
    BY DEF Init, AttrsOK
  <1> QED
    BY <1>1, <1>2, <1>3, <1>4 DEF QueriesInv

LEMMA QueriesStep == ASSUME QueriesInv, [Next]_vars PROVE QueriesInv'
  <1>1. /\ loaded \in 0 .. Len(Sheets) /\ ready \in BOOLEAN /\ listening \in BOOLEAN
        /\ scale \in Scales /\ box \in [Elements -> Boxes \cup {Hidden}]
        /\ steps \in 0 .. MaxSteps
        /\ starting \subseteq Elements /\ heard \subseteq Elements /\ pending \subseteq Elements
    BY DEF QueriesInv, RulesOK, PageOK
  <1>2. Step => steps' \in 0 .. MaxSteps
    <2>1. ASSUME steps < MaxSteps, steps' = steps + 1 PROVE steps' \in 0 .. MaxSteps
      BY SMTT(30), Z3T(30), <1>1, <2>1, ElementsAssumption
    <2> QED
      BY <2>1 DEF Step
  <1>3. ASSUME Initialize \/ Update PROVE QueriesInv'
    <2>1. InitInstance /\ Step /\ UNCHANGED <<ready, listening>>
      BY <1>3 DEF Initialize, Update
    <2> QED
      BY <1>1, <1>2, <2>1, InitInstanceStep
  <1>4. ASSUME Listen PROVE QueriesInv'
    <2>1. /\ Step /\ listening' = (listening \/ ~ready)
          /\ UNCHANGED <<loaded, ready, scale, rules, box, starting, setup, sensors, pending, shown,
                         thrown, detached>>
      BY <1>4 DEF Listen
    <2>2. listening' \in BOOLEAN
      BY <2>1
    <2> QED
      BY <1>1, <1>2, <2>1, <2>2, PageStep DEF sensors
  <1>5. ASSUME DOMContentLoaded PROVE QueriesInv'
    <2>1. ready' = TRUE /\ UNCHANGED <<listening, steps>>
      BY <1>5 DEF DOMContentLoaded
    <2>2. ready' \in BOOLEAN
      BY <2>1
    <2>3. CASE listening
      <3>1. InitInstance
        BY <1>5, <2>3 DEF DOMContentLoaded
      <3> QED
        BY <1>1, <2>1, <2>2, <3>1, InitInstanceStep
    <2>4. CASE ~listening
      <3>1. UNCHANGED <<loaded, scale, rules, box, starting, setup, sensors, pending, shown,
                        thrown, detached>>
        BY <1>5, <2>4 DEF DOMContentLoaded
      <3> QED
        BY <1>1, <2>1, <2>2, <3>1, PageStep DEF sensors
    <2> QED
      BY <2>3, <2>4
  <1>6. ASSUME LoadSheet PROVE QueriesInv'
    <2>1. /\ Step /\ loaded < Len(Sheets) /\ loaded' = loaded + 1
          /\ UNCHANGED <<ready, listening, scale, rules, box, starting, setup, sensors, pending,
                         shown, thrown, detached>>
      BY <1>6 DEF LoadSheet
    <2>2. Len(Sheets) \in Nat
      BY SMTT(30), Z3T(30), SheetsAssumption
    <2>3. ASSUME NEW l \in 0 .. Len(Sheets), l < Len(Sheets) PROVE l + 1 \in 0 .. Len(Sheets)
      BY SMTT(30), Z3T(30), <2>2, <2>3
    <2>4. loaded' \in 0 .. Len(Sheets)
      BY <1>1, <2>1, <2>3
    <2> QED
      BY <1>1, <1>2, <2>1, <2>4, PageStep DEF sensors
  <1>7. ASSUME Rescale PROVE QueriesInv'
    <2>1. /\ Step /\ scale' \in Scales
          /\ UNCHANGED <<dom, rules, box, starting, setup, sensors, pending, shown, thrown, detached>>
      BY <1>7 DEF Rescale
    <2> QED
      BY <1>1, <1>2, <2>1, PageStep DEF sensors, dom
  <1>8. ASSUME NEW e \in Elements, NEW b \in Boxes, NEW noticed \in BOOLEAN, Resize(e, b, noticed)
        PROVE  QueriesInv'
    <2>1. /\ Step /\ box' = [box EXCEPT ![e] = b]
          /\ pending' = pending \cup {e} \/ pending' = pending
          /\ UNCHANGED <<dom, scale, rules, starting, setup, sensors, shown, thrown, detached>>
      BY <1>8 DEF Resize, Noticed
    <2>2. box' \in [Elements -> Boxes \cup {Hidden}] /\ pending' \subseteq Elements
      BY <1>1, <2>1
    <2> QED
      BY <1>1, <1>2, <2>1, <2>2, PageStep DEF sensors, dom
  <1>9. ASSUME NEW e \in Elements, NEW cancelled \in BOOLEAN, Hide(e, cancelled) PROVE QueriesInv'
    <2>1. /\ Step /\ box' = [box EXCEPT ![e] = Hidden] /\ heard' = heard \ {e}
          /\ starting' = starting \ {e} \/ starting' = starting
          /\ UNCHANGED <<dom, scale, rules, setup, sensor, instance, queue, pending, shown,
                         thrown, detached>>
      BY <1>9 DEF Hide
    <2>2. box' \in [Elements -> Boxes \cup {Hidden}] /\ heard' \subseteq Elements
          /\ starting' \subseteq Elements
      BY <1>1, <2>1
    <2> QED
      BY <1>1, <1>2, <2>1, <2>2, PageStep DEF dom
  <1>10. ASSUME NEW e \in Elements, NEW b \in Boxes, NEW noticed \in BOOLEAN, NEW alone \in BOOLEAN,
                Show(e, b, noticed, alone)
         PROVE  QueriesInv'
    <2>1. /\ Step /\ box' = [box EXCEPT ![e] = b]
          /\ heard' = heard \cup {f \in {e} : alone}
          /\ pending' = pending \cup {e} \/ pending' = pending
          /\ starting' = starting \cup ({e} \cap Animated(idToSelectorMapping))
          /\ UNCHANGED <<dom, scale, rules, setup, sensor, instance, queue, shown, thrown>>
      BY <1>10 DEF Show, Noticed
    <2>2. box' \in [Elements -> Boxes \cup {Hidden}] /\ heard' \subseteq Elements
          /\ pending' \subseteq Elements /\ starting' \subseteq Elements
      BY <1>1, <2>1
    <2> QED
      BY <1>1, <1>2, <2>1, <2>2, PageStep DEF dom
  <1>11. ASSUME UNCHANGED vars PROVE QueriesInv'
    BY <1>1, <1>11, PageStep DEF vars, dom, sensors
  <1>12. ASSUME NEW e \in Elements, Detach(e) PROVE QueriesInv'
    <2>1. Step
      BY <1>12 DEF Detach
    <2> QED
      BY <1>2, <1>12, <2>1, DetachStep
  <1>13. ASSUME Next PROVE QueriesInv'
    BY <1>3, <1>4, <1>5, <1>6, <1>7, <1>8, <1>9, <1>10, <1>12, <1>13, FindElementsStep,
       AnimationStartStep, ReportStep DEF Next
  <1> QED
    BY <1>11, <1>13

\* However often init and update read whatever sheets there are, the id written
\* into the style of a selector's sensors leads back to that selector, each
\* selector with rules has one id and no other has one; and every variable has its
\* type, the attributes of an element being of queries that were read.
THEOREM IdsAlwaysMatch == Spec => []IdsMatchSelectors
  <1>1. Init => QueriesInv
    BY QueriesInit
  <1>2. QueriesInv /\ [Next]_vars => QueriesInv'
    BY QueriesStep
  <1>3. QueriesInv => IdsMatchSelectors
    <2> SUFFICES ASSUME QueriesInv PROVE IdsMatchSelectors
      OBVIOUS
    <2>1. IsInjective(idToSelectorMapping)
          /\ Range(idToSelectorMapping) = {s \in Selectors : allQueries[s] # <<>>}
      BY DEF QueriesInv, RulesOK, Reading, Consistent
    <2>2. DOMAIN allQueries = Selectors /\ idToSelectorMapping \in Seq(Selectors)
      BY DEF QueriesInv, RulesOK, Reading, States
    <2>3. thrown \in BOOLEAN
      BY DEF QueriesInv, SetupOK
    <2>4. TypeOK
      BY SMTT(30), Z3T(30), <2>2, <2>3
      DEF QueriesInv, RulesOK, PageOK, SetupOK, AttrsOK, Attributes, TypeOK
    <2> QED
      BY <2>1, <2>4 DEF IdsMatchSelectors
  <1> QED
    BY <1>1, <1>2, <1>3, PTL DEF Spec

\* Through init, update, detach, hiding and the animationstart listeners in any
\* order, an element that is set up has its sensor and a listener on it, and a
\* listener that does not look for the setup information never runs without it.
THEOREM AlwaysListening == Spec => []ListensWhileSetUp
  <1>1. Init => QueriesInv
    BY QueriesInit
  <1>2. QueriesInv /\ [Next]_vars => QueriesInv'
    BY QueriesStep
  <1>3. QueriesInv => ListensWhileSetUp
    <2> SUFFICES ASSUME QueriesInv PROVE ListensWhileSetUp
      OBVIOUS
    <2>1. thrown = FALSE /\ \A e \in Elements : ListenedTo(e)
      BY DEF QueriesInv, SetupOK
    <2> QED
      BY <2>1 DEF ListenedTo, Listeners, ListensWhileSetUp
  <1> QED
    BY <1>1, <1>2, <1>3, PTL DEF Spec

-----------------------------------------------------------------------------
(***************************************************************************)
(* The responsive images.                                                  *)
(***************************************************************************)
LEMMA MaxOfChildren ==
    ASSUME NEW n \in Nat, NEW S, S \subseteq 0 .. n, S # {}
    PROVE  Max(S) \in S /\ \A i \in S : i =< Max(S)
  <1> DEFINE T == {n - i : i \in S}
  <1>1. T \subseteq Nat /\ T # {}
    <2>1. \A i \in S : n - i \in Nat
      BY SMTT(30), Z3T(30)
    <2> QED
      BY <2>1
  <1> HIDE DEF T
  <1>2. PICK m \in T : \A k \in T : m =< k
    BY <1>1, LeastNatural
  <1>3. PICK x \in S : m = n - x
    BY <1>2 DEF T
  <1>4. \A i \in S : x >= i
    <2>1. \A i \in S : n - x =< n - i
      BY <1>2, <1>3 DEF T
    <2> QED
      BY SMTT(30), Z3T(30), <2>1
  <1>5. Max(S) \in S /\ \A i \in S : Max(S) >= i
    BY <1>3, <1>4 DEF Max
  <1> QED
    BY <1>5

Locals == [lastActiveImage : Indexes, loadedImages : SUBSET Children, loading : [Indexes -> Nat]]
PageType == [display : SUBSET Children, src : SUBSET Children, attached : Seq(Locals)]

LEMMA IndexesAre ==
    ASSUME minWidths \in RuleSets, width \in Widths
    PROVE  /\ Len(minWidths) \in Nat \ {0} /\ 0 \in Children /\ Children \subseteq Nat
           /\ \A i \in Indexes : i.n \in Children
           /\ DefaultImageId \in Children /\ Num(DefaultImageId) \in Indexes
           /\ ImageToDisplay \in Indexes
           /\ Plain # {} => DefaultImageId \in Plain
  <1>1. minWidths \in Seq(Nat) /\ minWidths # <<>>
    BY ImagesAssumption
  <1>2. Len(minWidths) \in Nat \ {0}
    BY SMTT(30), Z3T(30), <1>1
  <1>3. 0 \in Children /\ Children \subseteq Nat /\ Children = 0 .. (Len(minWidths) - 1)
    BY SMTT(30), Z3T(30), <1>2 DEF Children
  <1>4. \A i \in Indexes : i.n \in Children
    BY SMTT(30), Z3T(30) DEF Indexes, Str, Num
  <1>5. DefaultImageId \in Children /\ (Plain # {} => DefaultImageId \in Plain)
    <2>1. Plain \subseteq 0 .. (Len(minWidths) - 1) /\ Plain \subseteq Children
      BY <1>3 DEF Plain
    <2>2. Len(minWidths) - 1 \in Nat
      BY SMTT(30), Z3T(30), <1>2
    <2>3. Plain # {} => Max(Plain) \in Plain
      BY <2>1, <2>2, MaxOfChildren
    <2> QED
      BY <2>1, <2>3, <1>3 DEF DefaultImageId
  <1>6. Matching # {} => Max(Matching) \in Children
    <2>1. Matching \subseteq 0 .. (Len(minWidths) - 1) /\ Matching \subseteq Children
      BY <1>3 DEF Matching
    <2>2. Len(minWidths) - 1 \in Nat
      BY SMTT(30), Z3T(30), <1>2
    <2> QED
      BY <2>1, <2>2, MaxOfChildren
  <1>7. Num(DefaultImageId) \in Indexes
    BY <1>5 DEF Indexes
  <1>8. ImageToDisplay \in Indexes
    BY <1>6, <1>7 DEF Indexes, ImageToDisplay
  <1> QED
    BY SMTT(30), Z3T(30), <1>2, <1>3, <1>4, <1>5, <1>7, <1>8

-----------------------------------------------------------------------------
(***************************************************************************)
(* What an attachment has loaded has its source, and so has a child that   *)
(* replaces the default.  With one attachment and one default the child    *)
(* that is displayed is the one the attachment takes for the active one,   *)
(* so that the next change hides it.                                       *)
(***************************************************************************)
SourcesSet(p) ==
    /\ \A a \in DOMAIN p.attached : p.attached[a].loadedImages \subseteq p.src
    /\ p.attached # <<>> => p.display \ Plain \subseteq p.src

ActiveShown(p) ==
    OneDefault /\ Len(p.attached) = 1 => p.display = {p.attached[1].lastActiveImage.n}

ImagesInv ==
    /\ minWidths \in RuleSets /\ width \in Widths /\ reporting \in BOOLEAN
    /\ raced \in BOOLEAN /\ failed \in BOOLEAN /\ changes \in 0 .. MaxChanges
    /\ page \in PageType /\ SourcesSet(page) /\ ActiveShown(page)

\* A run of check for some attachments keeps the page in order.
LEMMA CheckedPage ==
    ASSUME minWidths \in RuleSets, width \in Widths,
           NEW p \in PageType, NEW which \in SUBSET DOMAIN p.attached,
           SourcesSet(p), ActiveShown(p)
    PROVE  /\ Checked(p, which) \in PageType
           /\ SourcesSet(Checked(p, which)) /\ ActiveShown(Checked(p, which))
  <1> DEFINE image == ImageToDisplay
             active == {a \in which : p.attached[a].lastActiveImage = image}
             switching == {a \in which \ active : image.n \in p.attached[a].loadedImages}
             q == Checked(p, which)
  <1>1. image \in Indexes /\ image.n \in Children
    BY IndexesAre
  <1>2. /\ p.display \subseteq Children /\ p.src \subseteq Children /\ p.attached \in Seq(Locals)
        /\ DOMAIN p.attached = 1 .. Len(p.attached) /\ Len(p.attached) \in Nat
    BY SMTT(30), Z3T(30) DEF PageType
  <1>3. \A a \in DOMAIN p.attached : p.attached[a] \in Locals
    BY SMTT(30), Z3T(30), <1>2
  <1>4. /\ q.display = IF switching = {} THEN p.display
                      ELSE Switch(p.display, {p.attached[a].lastActiveImage : a \in switching}, image)
        /\ q.src = p.src \cup {image.n : a \in active}
        /\ q.attached = [a \in DOMAIN p.attached |->
             IF a \in switching THEN [p.attached[a] EXCEPT !.lastActiveImage = image]
             ELSE IF a \in which \ active THEN [p.attached[a] EXCEPT !.loading[image] = @ + 1]
             ELSE p.attached[a]]
        /\ q = [display |-> q.display, src |-> q.src, attached |-> q.attached]
    BY DEF Checked
  <1>5. q.display \subseteq Children /\ q.src \subseteq Children /\ p.src \subseteq q.src
    BY SMTT(30), Z3T(30), <1>1, <1>2, <1>4 DEF Switch
  <1>6. ASSUME NEW a \in DOMAIN p.attached
        PROVE  /\ q.attached[a] \in Locals
               /\ q.attached[a].loadedImages = p.attached[a].loadedImages
               /\ q.attached[a].lastActiveImage =
                    IF a \in switching THEN image ELSE p.attached[a].lastActiveImage
    <2>1. PICK l \in Locals : l = p.attached[a]
      BY <1>3, <1>6
    <2>2. [l EXCEPT !.lastActiveImage = image] \in Locals
      BY <1>1, <2>1 DEF Locals
    <2>3. [l EXCEPT !.loading[image] = @ + 1] \in Locals
      BY SMTT(30), Z3T(30), <1>1, <2>1 DEF Locals
    <2>4. q.attached[a] = IF a \in switching THEN [l EXCEPT !.lastActiveImage = image]
                         ELSE IF a \in which \ active THEN [l EXCEPT !.loading[image] = @ + 1]
                         ELSE l
      BY <1>4, <1>6, <2>1
    <2>5. /\ [l EXCEPT !.lastActiveImage = image].lastActiveImage = image
          /\ [l EXCEPT !.lastActiveImage = image].loadedImages = l.loadedImages
          /\ [l EXCEPT !.loading[image] = @ + 1].lastActiveImage = l.lastActiveImage
          /\ [l EXCEPT !.loading[image] = @ + 1].loadedImages = l.loadedImages
      BY <2>1 DEF Locals
    <2> HIDE DEF q, image, active, switching
    <2> QED
      BY SMTT(30), Z3T(30), <2>1, <2>2, <2>3, <2>4, <2>5
  <1>7. q.attached \in Seq(Locals) /\ DOMAIN q.attached = DOMAIN p.attached
        /\ Len(q.attached) = Len(p.attached)
    <2>1. q.attached = [a \in 1 .. Len(p.attached) |-> q.attached[a]]
      BY <1>2, <1>4
    <2> HIDE DEF q
    <2>2. \A a \in 1 .. Len(p.attached) : q.attached[a] \in Locals
      BY <1>2, <1>6
    <2> QED
      BY SMTT(30), Z3T(30), <1>2, <2>1, <2>2
  <1>8. q \in PageType
    BY <1>4, <1>5, <1>7 DEF PageType
  <1>9. SourcesSet(q)
    <2>1. \A a \in DOMAIN q.attached : q.attached[a].loadedImages \subseteq q.src
      BY <1>5, <1>6, <1>7 DEF SourcesSet
    <2>2. ASSUME q.attached # <<>> PROVE q.display \ Plain \subseteq q.src
      <3>1. p.attached # <<>>
        BY SMTT(30), Z3T(30), <1>2, <1>7, <2>2
      <3>2. CASE switching = {}
        BY <1>4, <1>5, <3>1, <3>2 DEF SourcesSet
      <3>3. CASE switching # {}
        <4>1. image.n \in p.src
          BY <3>3, <1>2 DEF SourcesSet
        <4>2. q.display \subseteq p.display \cup {image.n}
          BY <1>4, <3>3 DEF Switch
        <4> QED
          BY <1>5, <3>1, <4>1, <4>2 DEF SourcesSet
      <3> QED
        BY <3>2, <3>3
    <2> QED
      BY <2>1, <2>2 DEF SourcesSet
  <1>10. ActiveShown(q)
    <2> SUFFICES ASSUME OneDefault, Len(q.attached) = 1
                 PROVE  q.display = {q.attached[1].lastActiveImage.n}
      BY DEF ActiveShown
    <2>1. DOMAIN p.attached = {1} /\ p.display = {p.attached[1].lastActiveImage.n}
      <3>1. Len(p.attached) = 1
        BY <1>7
      <3>2. 1 .. 1 = {1}
        BY SMTT(30), Z3T(30)
      <3> QED
        BY <1>2, <3>1, <3>2 DEF ActiveShown
    <2>2. CASE switching = {}
      BY <1>4, <1>6, <2>1, <2>2
    <2>3. CASE switching # {}
      <3>1. switching = {1}
        BY <2>1, <2>3
      <3>2. q.display = (p.display \ {l.n : l \in {p.attached[a].lastActiveImage : a \in {1}}}) \cup {image.n}
        BY <1>4, <2>3, <3>1 DEF Switch
      <3>3. {l.n : l \in {p.attached[a].lastActiveImage : a \in {1}}} = p.display
        BY SMTT(30), Z3T(30), <2>1
      <3>4. q.attached[1].lastActiveImage = image
        BY <1>6, <2>1, <3>1
      <3> HIDE DEF q, image, active, switching
      <3> QED
        BY <3>2, <3>3, <3>4
    <2> QED
      BY <2>2, <2>3
  <1> QED
    BY SMTT(30), Z3T(30), <1>8, <1>9, <1>10

LEMMA OnePlain ==
    ASSUME minWidths \in RuleSets, width \in Widths, OneDefault
    PROVE  Plain = {DefaultImageId}
  <1>1. IsFiniteSet(Plain)
    <2>1. IsFiniteSet(0 .. Len(minWidths) - 1)
      BY SMTT(30), Z3T(30), IndexesAre, FS_Interval
    <2>2. Plain \subseteq 0 .. Len(minWidths) - 1
      BY DEF Plain, Children
    <2> QED
      BY <2>1, <2>2, FS_Subset
  <1>2. PICK x : Plain = {x}
    BY <1>1, FS_Singleton DEF OneDefault
  <1> QED
    BY <1>2, IndexesAre

LEMMA ImagesStep == ImagesInv /\ [ImagesNext]_imageVars => ImagesInv'
  <1> SUFFICES ASSUME ImagesInv, [ImagesNext]_imageVars PROVE ImagesInv'
    OBVIOUS
  <1>1. page \in PageType /\ minWidths \in RuleSets /\ width \in Widths
    BY DEF ImagesInv
  <1>2. /\ page.display \subseteq Children /\ page.src \subseteq Children
        /\ page.attached \in Seq(Locals) /\ DOMAIN page.attached = 1 .. Len(page.attached)
        /\ Len(page.attached) \in Nat
        /\ page = [display |-> page.display, src |-> page.src, attached |-> page.attached]
    BY SMTT(30), Z3T(30), <1>1 DEF PageType
  \* minWidths stays, and with it what is defined by it.
  <1>3. ASSUME minWidths' = minWidths
        PROVE  /\ Children' = Children /\ Plain' = Plain /\ PageType' = PageType
               /\ OneDefault' = OneDefault
               /\ \A p : SourcesSet(p) => SourcesSet(p)'
               /\ \A p : ActiveShown(p) => ActiveShown(p)'
    <2>1. Children' = Children
      BY <1>3 DEF Children
    <2>2. Indexes' = Indexes
      BY <2>1 DEF Indexes, Str, Num
    <2>3. Plain' = Plain
      BY <1>3, <2>1 DEF Plain, MinWidth
    <2>4. Locals' = Locals
      BY <2>1, <2>2 DEF Locals
    <2>5. PageType' = PageType
      BY <2>1, <2>4 DEF PageType
    <2>6. OneDefault' = OneDefault
      BY <2>3 DEF OneDefault
    <2> QED
      BY <2>1, <2>3, <2>5, <2>6 DEF SourcesSet, ActiveShown
  \* All other variables have their types.
  <1>4. ASSUME minWidths' = minWidths, page' \in PageType,
               ASSUME NEW p, p = page' PROVE SourcesSet(p) /\ ActiveShown(p),
               width' \in Widths, reporting' \in BOOLEAN, raced' \in BOOLEAN,
               failed' \in BOOLEAN, changes' \in 0 .. MaxChanges
        PROVE  ImagesInv'
    <2>1. PICK p : p = page'
      OBVIOUS
    <2>2. SourcesSet(p)' /\ ActiveShown(p)'
      BY <1>3, <1>4, <2>1
    <2>3. SourcesSet(page)' /\ ActiveShown(page)'
      BY <2>1, <2>2 DEF SourcesSet, ActiveShown
    <2> QED
      BY <1>1, <1>3, <1>4, <2>3 DEF ImagesInv
  <1>5. CASE Attach
    <2> DEFINE l == Attachment
               p == [display |-> Plain, src |-> page.src, attached |-> Append(page.attached, l)]
               a == Len(page.attached) + 1
    <2>1. page' = Checked(p, {a})
      BY <1>5 DEF Attach
    <2>2. l \in Locals /\ l.loadedImages = {} /\ l.lastActiveImage = Num(DefaultImageId)
      BY SMTT(30), Z3T(30), <1>1, IndexesAre DEF Attachment, Locals
    <2>3. /\ p.attached \in Seq(Locals) /\ Len(p.attached) = a /\ a \in DOMAIN p.attached
          /\ p.attached[a] = l /\ p.attached # <<>>
          /\ \A b \in DOMAIN p.attached : b # a => b \in DOMAIN page.attached
                                                  /\ p.attached[b] = page.attached[b]
      BY SMTT(30), Z3T(30), <1>2, <2>2
    <2> HIDE DEF l, a
    <2>4. p \in PageType
      BY <1>2, <2>3 DEF PageType, Plain
    <2>5. SourcesSet(p)
      BY <2>2, <2>3 DEF SourcesSet, ImagesInv
    <2>6. ActiveShown(p)
      <3> SUFFICES ASSUME OneDefault, Len(p.attached) = 1
                   PROVE  p.display = {p.attached[1].lastActiveImage.n}
        BY DEF ActiveShown
      <3>1. Plain = {DefaultImageId}
        BY <1>1, OnePlain
      <3> QED
        BY SMTT(30), Z3T(30), <2>2, <2>3, <3>1 DEF Num
    <2> HIDE DEF p
    <2>7. page' \in PageType /\ SourcesSet(Checked(p, {a})) /\ ActiveShown(Checked(p, {a}))
      BY <1>1, <2>1, <2>3, <2>4, <2>5, <2>6, CheckedPage
    <2> QED
      BY <1>4, <1>5, <2>1, <2>7 DEF Attach, ImagesInv
  <1>6. CASE ReportWidth
    <2>1. page' = Checked(page, DOMAIN page.attached)
      BY <1>6 DEF ReportWidth
    <2>2. /\ page' \in PageType /\ SourcesSet(Checked(page, DOMAIN page.attached))
          /\ ActiveShown(Checked(page, DOMAIN page.attached))
      BY <1>1, <2>1, CheckedPage DEF ImagesInv
    <2>3. raced' \in BOOLEAN /\ reporting' \in BOOLEAN
      BY <1>6 DEF ReportWidth
    <2> QED
      BY <1>4, <1>6, <2>1, <2>2, <2>3 DEF ReportWidth, ImagesInv
  <1>7. ASSUME NEW a, NEW image \in Indexes, OnLoad(a, image) PROVE ImagesInv'
    <2>0. a \in DOMAIN page.attached /\ page.attached[a].loading[image] > 0
      BY <1>7 DEF OnLoad, IsLoading
    <2>1. PICK l \in Locals : a \in DOMAIN page.attached /\ l = page.attached[a]
      BY SMTT(30), Z3T(30), <1>2, <2>0
    <2> DEFINE m == [lastActiveImage |-> image, loadedImages |-> l.loadedImages \cup {image.n},
                     loading |-> [l.loading EXCEPT ![image] = @ - 1]]
               p == [display |-> Switch(page.display, {l.lastActiveImage}, image),
                     src |-> page.src \cup {image.n}, attached |-> [page.attached EXCEPT ![a] = m]]
    <2>2. page' = p
      BY <1>7, <2>1 DEF OnLoad
    <2>3. l.loading[image] > 0 /\ l.loading[image] \in Nat
      BY <1>7, <2>1 DEF OnLoad, IsLoading, Locals
    <2>4. image.n \in Children
      BY SMTT(30), Z3T(30), <1>1, <1>7, IndexesAre
    <2>5. m \in Locals
      BY SMTT(30), Z3T(30), <2>1, <2>3, <2>4 DEF Locals
    <2> HIDE DEF m
    <2>6. /\ p.attached \in Seq(Locals) /\ DOMAIN p.attached = DOMAIN page.attached
          /\ Len(p.attached) = Len(page.attached) /\ p.attached[a] = m
          /\ \A b \in DOMAIN page.attached : b # a => p.attached[b] = page.attached[b]
      BY SMTT(30), Z3T(30), <1>2, <2>1, <2>5
    <2>7. p \in PageType
      BY <1>2, <2>4, <2>6 DEF PageType, Switch
    <2>8. SourcesSet(p)
      <3>1. m.loadedImages \subseteq page.src \cup {image.n}
        BY <2>1 DEF m, SourcesSet, ImagesInv
      <3>2. \A b \in DOMAIN page.attached : page.attached[b].loadedImages \subseteq page.src
        BY DEF SourcesSet, ImagesInv
      <3>3. page.attached # <<>>
        BY SMTT(30), Z3T(30), <1>2, <2>1
      <3>4. page.display \ Plain \subseteq page.src
        BY <3>3 DEF SourcesSet, ImagesInv
      <3>5. \A b \in DOMAIN p.attached : p.attached[b].loadedImages \subseteq p.src
        BY SMTT(30), Z3T(30), <2>6, <3>1, <3>2
      <3>6. p.display \ Plain \subseteq p.src
        BY <3>4 DEF Switch
      <3> QED
        BY <3>5, <3>6 DEF SourcesSet
    <2>9. ActiveShown(p)
      <3> SUFFICES ASSUME OneDefault, Len(p.attached) = 1
                   PROVE  p.display = {p.attached[1].lastActiveImage.n}
        BY DEF ActiveShown
      <3>1. 1 .. 1 = {1}
        BY SMTT(30), Z3T(30)
      <3>2. a = 1
        BY <1>2, <2>1, <2>6, <3>1
      <3>3. page.display = {l.lastActiveImage.n}
        BY <2>1, <2>6, <3>2 DEF ActiveShown, ImagesInv
      <3> QED
        BY SMTT(30), Z3T(30), <2>6, <3>2, <3>3 DEF Switch, m
    <2> HIDE DEF p
    <2> QED
      BY <1>4, <1>7, <2>2, <2>7, <2>8, <2>9 DEF OnLoad, ImagesInv
  <1>8. ASSUME NEW a, NEW image \in Indexes, LoadFails(a, image) PROVE ImagesInv'
    <2>1. PICK l \in Locals : a \in DOMAIN page.attached /\ l = page.attached[a]
      BY SMTT(30), Z3T(30), <1>2, <1>8 DEF LoadFails, IsLoading
    <2> DEFINE m == [l EXCEPT !.loading[image] = @ - 1]
               p == [display |-> page.display, src |-> page.src,
                     attached |-> [page.attached EXCEPT ![a] = m]]
    <2>2. page' = p
      BY <1>2, <1>8, <2>1 DEF LoadFails
    <2>3. l.loading[image] > 0 /\ l.loading[image] \in Nat
      BY <1>8, <2>1 DEF LoadFails, IsLoading, Locals
    <2>4. m \in Locals /\ m.loadedImages = l.loadedImages /\ m.lastActiveImage = l.lastActiveImage
      BY SMTT(30), Z3T(30), <1>8, <2>1, <2>3 DEF Locals
    <2> HIDE DEF m
    <2>5. /\ p.attached \in Seq(Locals) /\ DOMAIN p.attached = DOMAIN page.attached
          /\ Len(p.attached) = Len(page.attached) /\ p.attached[a] = m
          /\ \A b \in DOMAIN page.attached : b # a => p.attached[b] = page.attached[b]
      BY SMTT(30), Z3T(30), <1>2, <2>1, <2>4
    <2>6. p \in PageType
      BY <1>2, <2>5 DEF PageType
    <2>7. \A b \in DOMAIN page.attached :
            /\ p.attached[b].loadedImages = page.attached[b].loadedImages
            /\ p.attached[b].lastActiveImage = page.attached[b].lastActiveImage
      BY <2>1, <2>4, <2>5
    <2>8. SourcesSet(p)
      <3>1. page.attached # <<>>
        BY SMTT(30), Z3T(30), <1>2, <2>1
      <3> QED
        BY <2>5, <2>7, <3>1 DEF SourcesSet, ImagesInv
    <2>9. ActiveShown(p)
      <3>1. 1 .. 1 = {1}
        BY SMTT(30), Z3T(30)
      <3> QED
        BY SMTT(30), Z3T(30), <1>2, <2>5, <2>7, <3>1 DEF ActiveShown, ImagesInv
    <2> HIDE DEF p
    <2> QED
      BY <1>4, <1>8, <2>2, <2>6, <2>8, <2>9 DEF LoadFails, ImagesInv
  <1>9. CASE ChangeWidth
    <2>1. changes' \in 0 .. MaxChanges
      BY SMTT(30), Z3T(30), <1>9, ImagesAssumption DEF ChangeWidth, ImagesInv
    <2> QED
      BY <1>1, <1>4, <1>9, <2>1 DEF ChangeWidth, ImagesInv
  <1>10. CASE UNCHANGED imageVars
    BY <1>1, <1>4, <1>10 DEF imageVars, ImagesInv
  <1> QED
    BY SMTT(30), Z3T(30), <1>5, <1>6, <1>7, <1>8, <1>9, <1>10 DEF ImagesNext, Loads

\* However images load, late or in another order, and however often the element is
\* attached, attachResponsiveImage displays one child for one default, and none
\* in place of the default that has no source yet.
THEOREM OneImageShown == ImagesSpec => []OneShown
  <1>1. ImagesInit => ImagesInv
    <2> SUFFICES ASSUME ImagesInit PROVE ImagesInv
      OBVIOUS
    <2>1. minWidths \in RuleSets /\ width \in Widths /\ 0 \in 0 .. MaxChanges
      BY SMTT(30), Z3T(30), ImagesAssumption DEF ImagesInit
    <2>2. /\ page.attached = <<>> /\ page.attached \in Seq(Locals)
          /\ DOMAIN page.attached = {} /\ Len(page.attached) # 1
      BY SMTT(30), Z3T(30) DEF ImagesInit
    <2>3. page \in PageType
      BY <2>2 DEF ImagesInit, PageType
    <2> QED
      BY <2>1, <2>2, <2>3 DEF ImagesInit, ImagesInv, SourcesSet, ActiveShown
  <1>2. ImagesInv => OneShown
    <2> SUFFICES ASSUME ImagesInv PROVE OneShown
      OBVIOUS
    <2>1. ImagesTypeOK
      BY DEF ImagesInv, ImagesTypeOK, PageType, Locals
    <2>2. OneDefault /\ Len(page.attached) = 1 => Cardinality(page.display) = 1
      BY FS_Singleton DEF ImagesInv, ActiveShown
    <2> QED
      BY <2>1, <2>2 DEF OneShown, ImagesInv, SourcesSet
  <1> QED
    BY <1>1, <1>2, ImagesStep, PTL DEF ImagesSpec
=============================================================================
