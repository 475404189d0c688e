------------------------- MODULE KeyRotationProofs -------------------------
(***************************************************************************)
(* Proofs about KeyRotation, for any number of servers and goroutines, any *)
(* rotation frequency and ID token lifetime, and any bounds.               *)
(***************************************************************************)
EXTENDS KeyRotation, TLAPS

\* The provers are tried in turn: those a leaf cites, or else Zenon before SMT.
USE ZenonT(30), SMTT(30)

\* A Keys value that is not due is the one in storage: what NextRotation is for.
Current(k) == now < k.NextRotation => k = keys

\* The strengthening of CacheCoherent: what GetKeys holds in its locals is as
\* current as the caches, and an open transaction read keys that were due.
CacheInv ==
    /\ \A s \in Servers : Current(cache[s])
    /\ \A g \in Goroutines : Current(got[g])
    /\ \A g \in Goroutines : pc[g] \in {"updater", "commit"} =>
          txn[g].old.NextRotation =< txn[g].tNow /\ txn[g].tNow =< now

\* A key set within an unstretched max-age is the storage's, until the very
\* moment at which the keys are due.
PublishInv ==
    now < jwks.freshUntil /\ ~jwks.clamped =>
        /\ jwks.keys = Published(keys)
        /\ jwks.freshUntil = keys.NextRotation

\* k is no keys at all, or the keys of some rotation up to the current one.
Installed(k) == k = NoKeys \/ k.SigningKey \in 1..keys.SigningKey

\* The strengthening of LiveTokensVerify: keys are numbered by rotation, every
\* key before the current one was retired, and a retired key is still a
\* verification key or has expired.
TokenInv ==
    /\ Installed(keys)
    /\ \A s \in Servers : Installed(cache[s])
    /\ \A g \in Goroutines : Installed(got[g])
    /\ \A g \in Goroutines :
          \/ pc[g] \in {"read", "store"}
          \/ pc[g] = "got" /\ g.role # "rotate"
          => got[g] # NoKeys
    /\ \A g \in Goroutines : pc[g] = "commit" =>
          txn[g].new = Rotated(txn[g].old, txn[g].tNow, txn[g].new.NextRotation)
    /\ \A t \in tokens : t.key \in 1..keys.SigningKey
    /\ \A k \in 1..(keys.SigningKey - 1) : \E v \in retired : v.key = k
    /\ \A v \in retired : v \in keys.VerificationKeys \/ v.expiry < now

LEMMA RotatedType ==
    ASSUME NEW old \in Keys, NEW tNow \in Nat, NEW next \in Nat
    PROVE  Rotated(old, tNow, next) \in Keys
  BY SMTT(30), Z3T(30), ConstantsAssumption
     DEF Rotated, Unexpired, Demoted, Keys, VerificationKey

LEMMA PublishedType ==
    ASSUME NEW k \in Keys
    PROVE  Published(k) \in SUBSET Nat
  BY SMTT(30), Z3T(30) DEF Published, Keys, VerificationKey

\* Every variable keeps its type (TypeOK).
THEOREM TypeCorrect == Spec => []TypeOK
<1> USE ConstantsAssumption
<1>0. NoKeys \in Keys /\ NoTxn \in [old: Keys, new: Keys, tNow: Nat]
  BY DEF NoKeys, NoTxn, Keys
<1>1. Init => TypeOK
  BY SMTT(30), Z3T(30), <1>0 DEF Init, TypeOK, PCs, NoJWKS
<1>2. TypeOK /\ [Next]_vars => TypeOK'
  <2> SUFFICES ASSUME TypeOK, [Next]_vars PROVE TypeOK'
    OBVIOUS
  <2>0. ASSUME NEW g \in Goroutines, Return(g)
        PROVE  /\ pc' \in [Goroutines -> PCs] /\ got' \in [Goroutines -> Keys]
               /\ txn' \in [Goroutines -> [old: Keys, new: Keys, tNow: Nat]]
    BY <1>0, <2>0 DEF Return, Goto, TypeOK, PCs
  <2>h. \A g \in Goroutines : g.host \in Servers
    OBVIOUS
  <2>1. ASSUME NEW g \in Goroutines, CacheLoad(g) PROVE TypeOK'
    <3>1. CASE now < cache[g.host].NextRotation
      BY <2>1, <2>h, <3>1 DEF CacheLoad, Goto, TypeOK, PCs
    <3>2. CASE ~(now < cache[g.host].NextRotation)
      BY <2>1, <2>h, <3>2 DEF CacheLoad, Goto, TypeOK, PCs
    <3> QED BY <3>1, <3>2
  <2>2. ASSUME NEW g \in Goroutines, StorageGetKeys(g) PROVE TypeOK'
    <3>1. CASE keys = NoKeys /\ g.role # "rotate"
      BY <2>2, <2>0, <3>1 DEF StorageGetKeys, TypeOK
    <3>2. CASE ~(keys = NoKeys /\ g.role # "rotate")
      <4>1. pc' \in [Goroutines -> PCs]
        BY <2>2, <3>2 DEF StorageGetKeys, Goto, TypeOK, PCs
      <4>2. got' \in [Goroutines -> Keys]
        BY <2>2, <3>2 DEF StorageGetKeys, TypeOK
      <4> QED
        BY <2>2, <3>2, <4>1, <4>2 DEF StorageGetKeys, TypeOK
    <3> QED BY <3>1, <3>2
  <2>3. ASSUME NEW g \in Goroutines, CheckFresh(g) PROVE TypeOK'
    BY <2>3 DEF CheckFresh, Goto, TypeOK, PCs
  <2>4. ASSUME NEW g \in Goroutines, CacheStore(g) PROVE TypeOK'
    BY <2>4, <2>h DEF CacheStore, Goto, TypeOK, PCs
  <2>5. ASSUME NEW g \in Goroutines, RotateCheck(g) PROVE TypeOK'
    <3>1. CASE now < got[g].NextRotation
      BY <2>5, <2>0, <3>1 DEF RotateCheck, TypeOK
    <3>2. CASE ~(now < got[g].NextRotation)
      BY <2>5, <3>2 DEF RotateCheck, Goto, TypeOK, PCs
    <3> QED BY <3>1, <3>2
  <2>6. ASSUME NEW g \in Goroutines, BeginUpdate(g) PROVE TypeOK'
    <3>1. CASE now < keys.NextRotation
      BY <2>6, <2>0, <3>1 DEF BeginUpdate, TypeOK
    <3>2. CASE ~(now < keys.NextRotation)
      <4>1. [old |-> keys, new |-> NoKeys, tNow |-> now]
               \in [old: Keys, new: Keys, tNow: Nat]
        BY <1>0 DEF TypeOK
      <4>2. /\ txn' = [txn EXCEPT ![g] = [old |-> keys, new |-> NoKeys, tNow |-> now]]
            /\ pc' = [pc EXCEPT ![g] = "updater"]
            /\ UNCHANGED <<now, keys, cache, got, jwks, tokens, retired, faults>>
        BY <2>6, <3>2 DEF BeginUpdate, Goto
      <4> QED BY <4>1, <4>2 DEF TypeOK, PCs
    <3> QED BY <3>1, <3>2
  <2>7. ASSUME NEW g \in Goroutines, RunUpdater(g) PROVE TypeOK'
    <3>1. txn[g].old \in Keys /\ txn[g].tNow \in Nat /\ now + rotationFrequency \in Nat
      BY SMTT(30), Z3T(30) DEF TypeOK
    <3>2. Rotated(txn[g].old, txn[g].tNow, now + rotationFrequency) \in Keys
      BY <3>1, RotatedType
    <3>3. ASSUME NEW n \in Keys
          PROVE  [txn[g] EXCEPT !.new = n] \in [old: Keys, new: Keys, tNow: Nat]
      BY SMTT(30), Z3T(30), <3>1 DEF TypeOK
    <3> QED BY <2>7, <3>2, <3>3 DEF RunUpdater, Goto, TypeOK, PCs
  <2>8. ASSUME NEW g \in Goroutines, CommitKeys(g) PROVE TypeOK'
    <3>1. Demoted(txn[g].old, txn[g].tNow) \in SUBSET VerificationKey
      BY SMTT(30), Z3T(30) DEF TypeOK, Demoted, Keys, VerificationKey
    <3> QED BY SMTT(30), Z3T(30), <2>8, <2>0, <3>1 DEF CommitKeys, TypeOK
  <2>9. ASSUME NEW g \in Goroutines, Sign(g) PROVE TypeOK'
    <3>1. [key |-> got[g].SigningKey, expiry |-> now + idTokenValidFor]
             \in VerificationKey
      BY SMTT(30), Z3T(30) DEF TypeOK, Keys, VerificationKey
    <3> QED BY <2>9, <2>0, <3>1 DEF Sign, TypeOK
  <2>10. ASSUME NEW g \in Goroutines, PublishKeys(g) PROVE TypeOK'
    <3> DEFINE left == got[g].NextRotation - now
    <3>1. Published(got[g]) \in SUBSET Nat
      BY PublishedType DEF TypeOK
    <3>2. now \in Nat /\ got[g].NextRotation \in Nat
      BY DEF TypeOK, Keys
    <3>3. now + (IF left < MinMaxAge THEN MinMaxAge ELSE left) \in Nat
      BY SMTT(30), Z3T(30), <3>2
    <3>4. (left < MinMaxAge) \in BOOLEAN
      BY SMTT(30), Z3T(30)
    <3>5. jwks' \in [keys: SUBSET Nat, freshUntil: Nat, clamped: BOOLEAN]
      BY <2>10, <3>1, <3>3, <3>4 DEF PublishKeys
    <3> QED BY <2>10, <2>0, <3>5 DEF PublishKeys, TypeOK
  <2>11. ASSUME NEW g \in Goroutines, StorageError(g) PROVE TypeOK'
    BY SMTT(30), Z3T(30), <2>11, <2>0 DEF StorageError, TypeOK
  <2>12. ASSUME NEW s \in Servers, Restart(s) PROVE TypeOK'
    BY SMTT(30), Z3T(30), <2>12, <1>0 DEF Restart, TypeOK, PCs
  <2>13. CASE Tick
    BY SMTT(30), Z3T(30), <2>13 DEF Tick, TypeOK
  <2>14. CASE UNCHANGED vars
    BY <2>14 DEF vars, TypeOK
  <2> QED BY <2>1, <2>2, <2>3, <2>4, <2>5, <2>6, <2>7, <2>8, <2>9, <2>10,
             <2>11, <2>12, <2>13, <2>14 DEF Next, GetKeys, Rotate
<1>3. QED BY <1>1, <1>2, PTL DEF Spec

-----------------------------------------------------------------------------
(***************************************************************************)
(* Caches.  A rotation commits only when the keys in storage are due, so   *)
(* after it no cache and no local copy of the old keys is usable.          *)
(***************************************************************************)
LEMMA OnlyCommitChangesKeys ==
    ASSUME Next PROVE keys' = keys \/ \E g \in Goroutines : CommitKeys(g)
  BY DEF Next, GetKeys, Rotate, CacheLoad, StorageGetKeys, CheckFresh, CacheStore,
         RotateCheck, BeginUpdate, RunUpdater, Sign, PublishKeys, StorageError,
         Restart, Tick

LEMMA CommitOnlyDue ==
    ASSUME TypeOK, CacheInv, NEW g \in Goroutines, CommitKeys(g), keys' # keys
    PROVE  keys.NextRotation =< now
  <1>1. keys = txn[g].old /\ pc[g] = "commit"
    BY DEF CommitKeys
  <1>2. txn[g].old.NextRotation =< txn[g].tNow /\ txn[g].tNow =< now
    BY <1>1 DEF CacheInv
  <1>3. /\ txn[g].old.NextRotation \in Nat /\ txn[g].tNow \in Nat /\ now \in Nat
    BY DEF TypeOK, Keys
  <1> QED BY SMTT(30), Z3T(30), <1>1, <1>2, <1>3

LEMMA CacheInvStep == TypeOK /\ CacheInv /\ [Next]_vars => CacheInv'
<1> USE ConstantsAssumption
<1> SUFFICES ASSUME TypeOK, CacheInv, [Next]_vars PROVE CacheInv'
  OBVIOUS
<1>n. now \in Nat /\ keys.NextRotation \in Nat
  BY DEF TypeOK, Keys
<1>h. \A g \in Goroutines : g.host \in Servers
  OBVIOUS
<1>e. ~(now < NoKeys.NextRotation)
  BY SMTT(30), Z3T(30), <1>n DEF NoKeys
<1>0. ASSUME NEW g \in Goroutines, Return(g), UNCHANGED <<now, keys, cache>>
      PROVE  CacheInv'
  BY <1>0, <1>e DEF Return, Goto, CacheInv, Current, TypeOK
<1>1. ASSUME NEW g \in Goroutines, CacheLoad(g) PROVE CacheInv'
  BY SMTT(30), Z3T(30), <1>1, <1>h DEF CacheLoad, Goto, CacheInv, Current, TypeOK
<1>2. ASSUME NEW g \in Goroutines, StorageGetKeys(g) PROVE CacheInv'
  <2>1. CASE keys = NoKeys /\ g.role # "rotate"
    BY <1>2, <1>0, <2>1 DEF StorageGetKeys
  <2>2. CASE ~(keys = NoKeys /\ g.role # "rotate")
    BY <1>2, <2>2 DEF StorageGetKeys, Goto, CacheInv, Current, TypeOK
  <2> QED BY <2>1, <2>2
<1>3. ASSUME NEW g \in Goroutines, CheckFresh(g) PROVE CacheInv'
  BY <1>3 DEF CheckFresh, Goto, CacheInv, Current, TypeOK
<1>4. ASSUME NEW g \in Goroutines, CacheStore(g) PROVE CacheInv'
  BY <1>4, <1>h DEF CacheStore, Goto, CacheInv, Current, TypeOK
<1>5. ASSUME NEW g \in Goroutines, RotateCheck(g) PROVE CacheInv'
  <2>1. CASE now < got[g].NextRotation
    BY <1>5, <1>0, <2>1 DEF RotateCheck
  <2>2. CASE ~(now < got[g].NextRotation)
    BY <1>5, <2>2 DEF RotateCheck, Goto, CacheInv, Current, TypeOK
  <2> QED BY <2>1, <2>2
<1>6. ASSUME NEW g \in Goroutines, BeginUpdate(g) PROVE CacheInv'
  <2>1. CASE now < keys.NextRotation
    BY <1>6, <1>0, <2>1 DEF BeginUpdate
  <2>2. CASE ~(now < keys.NextRotation)
    BY SMTT(30), Z3T(30), <1>6, <2>2, <1>n DEF BeginUpdate, Goto, CacheInv, Current, TypeOK
  <2> QED BY <2>1, <2>2
<1>7. ASSUME NEW g \in Goroutines, RunUpdater(g) PROVE CacheInv'
  <2>1. /\ txn'[g].old = txn[g].old /\ txn'[g].tNow = txn[g].tNow
        /\ \A h \in Goroutines \ {g} : txn'[h] = txn[h] /\ pc'[h] = pc[h]
    BY SMTT(30), Z3T(30), <1>7 DEF RunUpdater, Goto, TypeOK
  <2> QED BY <1>7, <2>1 DEF RunUpdater, CacheInv, Current, TypeOK
<1>8. ASSUME NEW g \in Goroutines, CommitKeys(g) PROVE CacheInv'
  <2>1. CASE keys' = keys
    BY <1>8, <1>0, <2>1 DEF CommitKeys
  <2>2. CASE keys' # keys
    <3>1. keys.NextRotation =< now
      BY <1>8, <2>2, CommitOnlyDue
    <3>2. /\ \A s \in Servers : ~(now < cache[s].NextRotation)
          /\ \A h \in Goroutines : ~(now < got[h].NextRotation)
      BY SMTT(30), Z3T(30), <3>1, <1>n DEF CacheInv, Current
    <3> QED BY <1>8, <3>2, <1>e DEF CommitKeys, Return, Goto, CacheInv, Current, TypeOK
  <2> QED BY <2>1, <2>2
<1>9. ASSUME NEW g \in Goroutines, Sign(g) PROVE CacheInv'
  BY <1>9, <1>0 DEF Sign
<1>10. ASSUME NEW g \in Goroutines, PublishKeys(g) PROVE CacheInv'
  BY <1>10, <1>0 DEF PublishKeys
<1>11. ASSUME NEW g \in Goroutines, StorageError(g) PROVE CacheInv'
  BY <1>11, <1>0 DEF StorageError
<1>12. ASSUME NEW s \in Servers, Restart(s) PROVE CacheInv'
  BY <1>12, <1>e DEF Restart, CacheInv, Current, TypeOK
<1>13. CASE Tick
  <2>1. /\ \A s \in Servers : cache[s].NextRotation \in Nat
        /\ \A g \in Goroutines : got[g].NextRotation \in Nat /\ txn[g].tNow \in Nat
    BY DEF TypeOK, Keys
  <2> QED BY SMTT(30), Z3T(30), <1>13, <1>n, <2>1 DEF Tick, CacheInv, Current
<1>14. CASE UNCHANGED vars
  BY <1>14 DEF vars, CacheInv, Current
<1> QED BY <1>1, <1>2, <1>3, <1>4, <1>5, <1>6, <1>7, <1>8, <1>9, <1>10,
           <1>11, <1>12, <1>13, <1>14 DEF Next, GetKeys, Rotate

LEMMA CacheInvariant == Spec => []CacheInv
<1>1. Init => CacheInv
  BY ConstantsAssumption DEF Init, CacheInv, Current, NoKeys
<1>2. QED BY <1>1, CacheInvStep, TypeCorrect, PTL DEF Spec

\* Whatever the servers do, a cache keyCacher.GetKeys answers from holds the
\* keys in storage (CacheCoherent).
THEOREM CachesCoherent == Spec => []CacheCoherent
<1>1. CacheInv => CacheCoherent
  BY DEF CacheInv, Current, CacheCoherent
<1> QED BY <1>1, CacheInvariant, PTL

\* Concurrent rotations never replace keys before their NextRotation
\* (NoEarlyRotation).
THEOREM RotationNeverEarly == Spec => NoEarlyRotation
<1>1. TypeOK /\ CacheInv /\ [Next]_vars => [keys' # keys => now >= keys.NextRotation]_vars
  <2> SUFFICES ASSUME TypeOK, CacheInv, Next, keys' # keys
               PROVE  now >= keys.NextRotation
    BY DEF vars
  <2>1. \E g \in Goroutines : CommitKeys(g)
    BY OnlyCommitChangesKeys
  <2>2. now \in Nat /\ keys.NextRotation \in Nat
    BY DEF TypeOK, Keys
  <2> QED BY <2>1, <2>2, CommitOnlyDue
<1> QED BY <1>1, CacheInvariant, TypeCorrect, PTL DEF Spec, NoEarlyRotation

-----------------------------------------------------------------------------
(***************************************************************************)
(* The published key set.                                                  *)
(***************************************************************************)
LEMMA PublishInvStep ==
    TypeOK /\ CacheInv /\ PublishInv /\ [Next]_vars => PublishInv'
<1> USE ConstantsAssumption
<1> SUFFICES ASSUME TypeOK, CacheInv, PublishInv, [Next]_vars PROVE PublishInv'
  OBVIOUS
<1>n. now \in Nat /\ keys.NextRotation \in Nat /\ jwks.freshUntil \in Nat
  BY DEF TypeOK, Keys
<1>1. ASSUME NEW g \in Goroutines, PublishKeys(g) PROVE PublishInv'
  <2>1. got[g].NextRotation \in Nat
    BY DEF TypeOK, Keys
  <2>2. UNCHANGED <<now, keys>>
    BY <1>1 DEF PublishKeys
  <2> DEFINE left == got[g].NextRotation - now
  <2>3. jwks' = [keys |-> Published(got[g]), clamped |-> left < MinMaxAge,
                 freshUntil |-> now + (IF left < MinMaxAge THEN MinMaxAge ELSE left)]
    BY <1>1 DEF PublishKeys
  <2>4. now < got[g].NextRotation => got[g] = keys
    BY DEF CacheInv, Current
  <2>5. CASE left < MinMaxAge
    <3>1. jwks'.clamped
      BY <2>3, <2>5
    <3> QED BY <3>1 DEF PublishInv
  <2>6. CASE ~(left < MinMaxAge)
    <3>1. jwks'.freshUntil = got[g].NextRotation /\ jwks'.keys = Published(got[g])
      BY SMTT(30), Z3T(30), <2>3, <2>6, <2>1, <1>n
    <3> QED BY <2>2, <2>4, <3>1 DEF PublishInv, Published
  <2> QED BY <2>5, <2>6
<1>2. ASSUME NEW g \in Goroutines, CommitKeys(g), keys' # keys PROVE PublishInv'
  <2>1. keys.NextRotation =< now
    BY <1>2, CommitOnlyDue
  <2>2. ~(now < jwks.freshUntil /\ ~jwks.clamped)
    BY SMTT(30), Z3T(30), <2>1, <1>n DEF PublishInv
  <2> QED BY <1>2, <2>2 DEF CommitKeys, PublishInv
<1>3. CASE Tick
  BY SMTT(30), Z3T(30), <1>3, <1>n DEF Tick, PublishInv, Published
<1>4. CASE UNCHANGED <<now, keys, jwks>>
  BY <1>4 DEF PublishInv, Published
<1> QED
  BY <1>1, <1>2, <1>3, <1>4
     DEF vars, Next, GetKeys, Rotate, CacheLoad, StorageGetKeys, CheckFresh, CacheStore,
         RotateCheck, BeginUpdate, RunUpdater, CommitKeys, Sign, StorageError, Restart

\* A relying party that honours the max-age of handlePublicKeys holds the keys
\* in storage, unless max-age was raised to the minimum (FreshKeySetCurrent).
THEOREM KeySetsCurrent == Spec => []FreshKeySetCurrent
<1>1. Init => PublishInv
  BY SMTT(30), Z3T(30) DEF Init, PublishInv, NoJWKS
<1>2. PublishInv => FreshKeySetCurrent
  BY DEF PublishInv, FreshKeySetCurrent
<1> QED BY <1>1, <1>2, PublishInvStep, TypeCorrect, CacheInvariant, PTL DEF Spec

-----------------------------------------------------------------------------
(***************************************************************************)
(* ID tokens and verification keys.                                        *)
(***************************************************************************)
LEMMA TokenInvStep == TypeOK /\ CacheInv /\ TokenInv /\ [Next]_vars => TokenInv'
<1> USE ConstantsAssumption
<1> SUFFICES ASSUME TypeOK, CacheInv, TokenInv, [Next]_vars PROVE TokenInv'
  OBVIOUS
<1>n. now \in Nat /\ keys.SigningKey \in Nat
  BY DEF TypeOK, Keys
<1>h. \A g \in Goroutines : g.host \in Servers
  OBVIOUS
<1>e. ~(now < NoKeys.NextRotation)
  BY SMTT(30), Z3T(30), <1>n DEF NoKeys
<1>0. ASSUME NEW g \in Goroutines, Return(g),
             UNCHANGED <<now, keys, cache, tokens, retired>>
      PROVE  TokenInv'
  BY <1>0 DEF Return, Goto, TokenInv, Installed, TypeOK
<1>1. ASSUME NEW g \in Goroutines, CacheLoad(g) PROVE TokenInv'
  <2>1. CASE now < cache[g.host].NextRotation
    <3>1. cache[g.host] # NoKeys /\ Installed(cache[g.host])
      BY <2>1, <1>e, <1>h DEF TokenInv
    <3> QED BY SMTT(30), Z3T(30), <1>1, <2>1, <3>1 DEF CacheLoad, Goto, TokenInv, Installed, TypeOK
  <2>2. CASE ~(now < cache[g.host].NextRotation)
    BY SMTT(30), Z3T(30), <1>1, <2>2 DEF CacheLoad, Goto, TokenInv, Installed, TypeOK
  <2> QED BY <2>1, <2>2
<1>2. ASSUME NEW g \in Goroutines, StorageGetKeys(g) PROVE TokenInv'
  <2>1. CASE keys = NoKeys /\ g.role # "rotate"
    BY <1>2, <1>0, <2>1 DEF StorageGetKeys
  <2>2. CASE ~(keys = NoKeys /\ g.role # "rotate")
    BY SMTT(30), Z3T(30), <1>2, <2>2 DEF StorageGetKeys, Goto, TokenInv, Installed, TypeOK
  <2> QED BY <2>1, <2>2
<1>3. ASSUME NEW g \in Goroutines, CheckFresh(g) PROVE TokenInv'
  BY <1>3 DEF CheckFresh, Goto, TokenInv, Installed, TypeOK
<1>4. ASSUME NEW g \in Goroutines, CacheStore(g) PROVE TokenInv'
  BY <1>4, <1>h DEF CacheStore, Goto, TokenInv, Installed, TypeOK
<1>5. ASSUME NEW g \in Goroutines, RotateCheck(g) PROVE TokenInv'
  <2>1. CASE now < got[g].NextRotation
    BY <1>5, <1>0, <2>1 DEF RotateCheck
  <2>2. CASE ~(now < got[g].NextRotation)
    BY SMTT(30), Z3T(30), <1>5, <2>2 DEF RotateCheck, Goto, TokenInv, Installed, TypeOK
  <2> QED BY <2>1, <2>2
<1>6. ASSUME NEW g \in Goroutines, BeginUpdate(g) PROVE TokenInv'
  <2>1. CASE now < keys.NextRotation
    BY <1>6, <1>0, <2>1 DEF BeginUpdate
  <2>2. CASE ~(now < keys.NextRotation)
    BY SMTT(30), Z3T(30), <1>6, <2>2 DEF BeginUpdate, Goto, TokenInv, Installed, TypeOK
  <2> QED BY <2>1, <2>2
<1>7. ASSUME NEW g \in Goroutines, RunUpdater(g) PROVE TokenInv'
  <2> DEFINE next == now + rotationFrequency
  <2>1. /\ txn'[g].old = txn[g].old /\ txn'[g].tNow = txn[g].tNow
        /\ txn'[g].new = Rotated(txn[g].old, txn[g].tNow, next)
        /\ \A h \in Goroutines \ {g} : txn'[h] = txn[h] /\ pc'[h] = pc[h]
        /\ pc'[g] = "commit"
        /\ UNCHANGED <<now, keys, cache, got, tokens, retired>>
    BY <1>7 DEF RunUpdater, Goto, TypeOK
  <2>2. Rotated(txn[g].old, txn[g].tNow, next).NextRotation = next
    BY DEF Rotated
  <2> HIDE DEF next
  <2> QED BY <2>1, <2>2 DEF TokenInv, Installed
<1>8. ASSUME NEW g \in Goroutines, CommitKeys(g) PROVE TokenInv'
  <2>1. CASE keys # txn[g].old
    BY <1>8, <1>0, <2>1 DEF CommitKeys
  <2>2. CASE keys = txn[g].old
    <3> DEFINE tNow == txn[g].tNow
    <3>1. pc[g] = "commit" /\ keys' = txn[g].new
          /\ retired' = retired \cup Demoted(keys, tNow)
          /\ Return(g) /\ UNCHANGED <<now, cache, tokens>>
      BY <1>8, <2>2 DEF CommitKeys
    <3>2. /\ keys'.SigningKey = keys.SigningKey + 1
          /\ keys'.VerificationKeys = Unexpired(keys, tNow) \cup Demoted(keys, tNow)
      <4>1. keys' = Rotated(keys, tNow, keys'.NextRotation)
        BY <3>1, <2>2 DEF TokenInv
      <4> QED BY SMTT(30), Z3T(30), <4>1 DEF Rotated
    <3>3. tNow \in Nat /\ tNow =< now
      BY <3>1 DEF CacheInv, TypeOK
    <3>4. \A v \in retired' : v \in keys'.VerificationKeys \/ v.expiry < now
      <4> SUFFICES ASSUME NEW v \in retired, v \in keys.VerificationKeys, tNow > v.expiry
                   PROVE  v.expiry < now
        BY <3>1, <3>2, <3>3 DEF TokenInv, Unexpired
      <4> QED BY SMTT(30), Z3T(30), <3>3, <1>n DEF TypeOK, VerificationKey
    <3>5. \A k \in 1..(keys'.SigningKey - 1) : \E v \in retired' : v.key = k
      <4> SUFFICES ASSUME NEW k \in 1..keys.SigningKey
                   PROVE  \E v \in retired' : v.key = k
        BY SMTT(30), Z3T(30), <3>2, <1>n
      <4>1. CASE k = keys.SigningKey
        <5>1. keys.SigningKey # 0
          BY SMTT(30), Z3T(30), <4>1, <1>n
        <5>2. [key |-> keys.SigningKey, expiry |-> tNow + idTokenValidFor] \in retired'
          BY <3>1, <5>1 DEF Demoted
        <5> QED BY <4>1, <5>2
      <4>2. CASE k \in 1..(keys.SigningKey - 1)
        BY <4>2, <3>1 DEF TokenInv
      <4> QED BY SMTT(30), Z3T(30), <4>1, <4>2, <1>n
    <3>6. \A k \in 1..keys.SigningKey : k \in 1..keys'.SigningKey
      BY SMTT(30), Z3T(30), <3>2, <1>n
    <3>7. Installed(keys)' /\ (\A s \in Servers : Installed(cache[s])')
          /\ \A h \in Goroutines : Installed(got[h])'
      BY SMTT(30), Z3T(30), <3>1, <3>2, <3>6, <1>n DEF Return, Installed, TokenInv, TypeOK
    <3>8. \A t \in tokens' : t.key \in 1..keys'.SigningKey
      BY <3>1, <3>6 DEF TokenInv
    <3>9. \A h \in Goroutines : pc'[h] # "idle" =>
             pc'[h] = pc[h] /\ got'[h] = got[h] /\ txn'[h] = txn[h]
      BY <3>1 DEF Return, Goto, TypeOK
    <3> QED BY SMTT(30), Z3T(30), <3>1, <3>4, <3>5, <3>7, <3>8, <3>9 DEF TokenInv
  <2> QED BY <2>1, <2>2
<1>9. ASSUME NEW g \in Goroutines, Sign(g) PROVE TokenInv'
  <2>1. got[g].SigningKey \in 1..keys.SigningKey
    BY <1>9 DEF Sign, TokenInv, Installed
  <2>2. \A t \in tokens' : t.key \in 1..keys'.SigningKey
    BY SMTT(30), Z3T(30), <1>9, <2>1 DEF Sign, TokenInv
  <2>3. \A h \in Goroutines : Installed(got[h])'
    BY <1>9 DEF Sign, Return, TokenInv, Installed, TypeOK
  <2>4. \A h \in Goroutines : pc'[h] # "idle" =>
           pc'[h] = pc[h] /\ got'[h] = got[h] /\ txn'[h] = txn[h]
    BY <1>9 DEF Sign, Return, Goto, TypeOK
  <2>5. UNCHANGED <<now, keys, cache, retired>>
    BY <1>9 DEF Sign
  <2>6. Installed(keys)' /\ \A s \in Servers : Installed(cache[s])'
    BY <2>5 DEF TokenInv, Installed
  <2> QED BY <2>2, <2>3, <2>4, <2>5, <2>6 DEF TokenInv
<1>10. ASSUME NEW g \in Goroutines, PublishKeys(g) PROVE TokenInv'
  BY <1>10, <1>0 DEF PublishKeys
<1>11. ASSUME NEW g \in Goroutines, StorageError(g) PROVE TokenInv'
  BY <1>11, <1>0 DEF StorageError
<1>12. ASSUME NEW s \in Servers, Restart(s) PROVE TokenInv'
  BY <1>12 DEF Restart, TokenInv, Installed, TypeOK
<1>13. CASE Tick
  <2>1. \A v \in retired : v.expiry \in Nat
    BY DEF TypeOK, VerificationKey
  <2> QED BY SMTT(30), Z3T(30), <1>13, <1>n, <2>1 DEF Tick, TokenInv, Installed
<1>14. CASE UNCHANGED vars
  BY <1>14 DEF vars, TokenInv, Installed
<1> QED BY <1>1, <1>2, <1>3, <1>4, <1>5, <1>6, <1>7, <1>8, <1>9, <1>10,
           <1>11, <1>12, <1>13, <1>14 DEF Next, GetKeys, Rotate

\* rotate never drops a verification key that an unexpired ID token, signed
\* before its key was demoted, still needs (LiveTokensVerify).
THEOREM TokensVerify == Spec => []LiveTokensVerify
<1>1. Init => TokenInv
  BY SMTT(30), Z3T(30) DEF Init, TokenInv, Installed, NoKeys
<1>2. TypeOK /\ TokenInv => LiveTokensVerify
  <2> SUFFICES ASSUME TypeOK, TokenInv, NEW t \in tokens, now =< t.expiry, SignedInTime(t)
               PROVE  t.key \in Published(keys)
    BY DEF LiveTokensVerify
  <2>1. now \in Nat /\ t.expiry \in Nat /\ keys.SigningKey \in Nat
    BY DEF TypeOK, Keys, VerificationKey
  <2>2. CASE t.key = keys.SigningKey
    BY <2>2 DEF Published
  <2>3. CASE t.key # keys.SigningKey
    <3>1. t.key \in 1..(keys.SigningKey - 1)
      BY SMTT(30), Z3T(30), <2>1, <2>3 DEF TokenInv
    <3>2. PICK v \in retired : v.key = t.key
      BY <3>1 DEF TokenInv
    <3>3. t.expiry =< v.expiry /\ v.expiry \in Nat
      BY <3>2 DEF SignedInTime, TypeOK, VerificationKey
    <3>4. v \in keys.VerificationKeys
      BY SMTT(30), Z3T(30), <3>3, <2>1 DEF TokenInv
    <3> QED BY <3>2, <3>4 DEF Published
  <2> QED BY <2>2, <2>3
<1> QED BY <1>1, <1>2, TokenInvStep, TypeCorrect, CacheInvariant, PTL DEF Spec
=============================================================================
