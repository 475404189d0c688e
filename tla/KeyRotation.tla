---------------------------- MODULE KeyRotation ----------------------------
(***************************************************************************)
(* Signing keys of dex: several dex servers share one storage, rotate the  *)
(* signing key in it (server/rotation.go), read it through a per-server    *)
(* cache (keyCacher, server/server.go), sign ID tokens with it             *)
(* (newIDToken, server/oauth2.go) and publish the verification keys        *)
(* (handlePublicKeys, server/handlers.go).                                 *)
(*                                                                         *)
(* A goroutine is a record: the server it runs on and what it does.  Every *)
(* call of storage or of now() whose outcome another goroutine can         *)
(* influence is a step of its own.                                         *)
(*                                                                         *)
(* A key is named by the number of the rotation that installed it; 0 is no *)
(* key (the nil SigningKey of a storage nobody wrote keys to).             *)
(***************************************************************************)
EXTENDS Integers, FiniteSets

CONSTANTS Servers,            \* dex instances that share the storage
          Goroutines,         \* [host, role] records that run
          rotationFrequency,  \* rotationStrategy.rotationFrequency
          idTokenValidFor,    \* rotationStrategy.idTokenValidFor
          MinMaxAge,          \* the two minutes of handlePublicKeys
          MaxTime,            \* bound: the clock stops here
          MaxTokens,          \* bound: ID tokens followed
          MaxFaults           \* bound: storage errors and restarts

Roles == {"rotate", "sign", "publish"}

ASSUME ConstantsAssumption ==
    /\ Goroutines \subseteq [host: Servers, role: Roles]
    /\ rotationFrequency \in Nat \ {0}
    /\ idTokenValidFor \in Nat
    /\ MinMaxAge \in Nat
    /\ MaxTime \in Nat
    /\ MaxTokens \in Nat
    /\ MaxFaults \in Nat

VARIABLES
    now,      \* the clock every server reads
    keys,     \* storage.Keys in the shared storage
    cache,    \* keyCacher.keys of each server
    pc,       \* where each goroutine is
    got,      \* the Keys a goroutine's GetKeys returned or is returning
    txn,      \* the open UpdateKeys transaction of a goroutine
    jwks,     \* the key set a relying party holds, and until when it is fresh
    tokens,   \* history: ID tokens signed
    retired,  \* history: verification keys ever demoted
    faults    \* faults so far

vars == <<now, keys, cache, pc, got, txn, jwks, tokens, retired, faults>>

VerificationKey == [key: Nat, expiry: Nat]
Keys == [SigningKey: Nat, VerificationKeys: SUBSET VerificationKey,
         NextRotation: Nat]

\* storage.Keys{}: what UpdateKeys hands to the updater before the first write.
NoKeys == [SigningKey |-> 0, VerificationKeys |-> {}, NextRotation |-> 0]

\* The nil *storage.Keys of an empty cache is NoKeys too: its NextRotation is
\* never in the future, so the cache is never used.
NoTxn == [old |-> NoKeys, new |-> NoKeys, tNow |-> 0]
NoJWKS == [keys |-> {}, freshUntil |-> 0, clamped |-> FALSE]

PCs == {"idle", "miss", "read", "store", "got", "rotate", "updater", "commit"}

\* The public keys handlePublicKeys writes for a Keys value.
Published(k) == {k.SigningKey} \cup {v.key : v \in k.VerificationKeys}

Init ==
    /\ now = 1
    /\ keys = NoKeys
    /\ cache = [s \in Servers |-> NoKeys]
    /\ pc = [g \in Goroutines |-> "idle"]
    /\ got = [g \in Goroutines |-> NoKeys]
    /\ txn = [g \in Goroutines |-> NoTxn]
    /\ jwks = NoJWKS
    /\ tokens = {}
    /\ retired = {}
    /\ faults = 0

Goto(g, label) == pc' = [pc EXCEPT ![g] = label]

\* The goroutine's call returns and its locals are gone.
Return(g) ==
    /\ Goto(g, "idle")
    /\ got' = [got EXCEPT ![g] = NoKeys]
    /\ txn' = [txn EXCEPT ![g] = NoTxn]

-----------------------------------------------------------------------------
(***************************************************************************)
(* keyCacher.GetKeys: the cached value while it is not due for rotation,   *)
(* else the storage's, which is cached if it is not due.  (A definition    *)
(* whose comment begins with Fault is a faulty variant of the one after    *)
(* it; the properties are tested by putting it in that one's place.)       *)
(***************************************************************************)
CacheLoad(g) ==
    /\ pc[g] = "idle"
    /\ IF now < cache[g.host].NextRotation
         THEN /\ got' = [got EXCEPT ![g] = cache[g.host]]
              /\ Goto(g, "got")
         ELSE /\ Goto(g, "miss")
              /\ UNCHANGED got
    /\ UNCHANGED <<now, keys, cache, txn, jwks, tokens, retired, faults>>

\* ErrNotFound: rotate goes on with the zero Keys, the two handlers fail.
StorageGetKeys(g) ==
    /\ pc[g] = "miss"
    /\ IF keys = NoKeys /\ g.role # "rotate"
         THEN Return(g)
         ELSE /\ got' = [got EXCEPT ![g] = keys]
              /\ Goto(g, IF keys = NoKeys THEN "got" ELSE "read")
              /\ UNCHANGED txn
    /\ UNCHANGED <<now, keys, cache, jwks, tokens, retired, faults>>

CheckFresh(g) ==
    /\ pc[g] = "read"
    /\ Goto(g, IF now < got[g].NextRotation THEN "store" ELSE "got")
    /\ UNCHANGED <<now, keys, cache, got, txn, jwks, tokens, retired, faults>>

CacheStore(g) ==
    /\ pc[g] = "store"
    /\ cache' = [cache EXCEPT ![g.host] = got[g]]
    /\ Goto(g, "got")
    /\ UNCHANGED <<now, keys, got, txn, jwks, tokens, retired, faults>>

-----------------------------------------------------------------------------
(***************************************************************************)
(* keyRotater.rotate                                                       *)
(***************************************************************************)
\* Fault: keys are rotated only where there are none.
RotateCheckOnce(g) ==
    /\ pc[g] = "got" /\ g.role = "rotate"
    /\ IF got[g] # NoKeys
         THEN Return(g)
         ELSE Goto(g, "rotate") /\ UNCHANGED <<got, txn>>
    /\ UNCHANGED <<now, keys, cache, jwks, tokens, retired, faults>>

RotateCheck(g) ==
    /\ pc[g] = "got" /\ g.role = "rotate"
    /\ IF now < got[g].NextRotation
         THEN Return(g)
         ELSE Goto(g, "rotate") /\ UNCHANGED <<got, txn>>
    /\ UNCHANGED <<now, keys, cache, jwks, tokens, retired, faults>>

\* Fault: the updater does not look at NextRotation again.
BeginUpdateUnchecked(g) ==
    /\ pc[g] = "rotate"
    /\ txn' = [txn EXCEPT ![g] = [NoTxn EXCEPT !.old = keys, !.tNow = now]]
    /\ Goto(g, "updater")
    /\ UNCHANGED <<now, keys, cache, got, jwks, tokens, retired, faults>>

\* Storage.UpdateKeys reads the keys and calls the updater, which reads the
\* clock and gives up if another server rotated meanwhile.
BeginUpdate(g) ==
    /\ pc[g] = "rotate"
    /\ IF now < keys.NextRotation
         THEN Return(g)
         ELSE /\ txn' = [txn EXCEPT ![g] =
                            [old |-> keys, new |-> NoKeys, tNow |-> now]]
              /\ Goto(g, "updater")
              /\ UNCHANGED got
    /\ UNCHANGED <<now, keys, cache, jwks, tokens, retired, faults>>

\* The signing key, demoted to a verification key at time tNow.
Demoted(old, tNow) ==
    IF old.SigningKey = 0 THEN {}
    ELSE {[key |-> old.SigningKey, expiry |-> tNow + idTokenValidFor]}

\* Fault: a key is dropped at its expiry.
UnexpiredStrict(old, tNow) == {v \in old.VerificationKeys : tNow < v.expiry}

Unexpired(old, tNow) == {v \in old.VerificationKeys : ~(tNow > v.expiry)}

\* What the updater returns; the key it installs was generated before the
\* transaction and is named when the transaction commits.
Rotated(old, tNow, next) ==
    [SigningKey       |-> old.SigningKey + 1,
     VerificationKeys |-> Unexpired(old, tNow) \cup Demoted(old, tNow),
     NextRotation     |-> next]

\* The rest of the updater, which reads the clock once more.
RunUpdater(g) ==
    /\ pc[g] = "updater"
    /\ txn' = [txn EXCEPT ![g].new = Rotated(txn[g].old, txn[g].tNow,
                                             now + rotationFrequency)]
    /\ Goto(g, "commit")
    /\ UNCHANGED <<now, keys, cache, got, jwks, tokens, retired, faults>>

\* Fault: the transaction is written without the compare.
CommitKeysBlind(g) ==
    /\ pc[g] = "commit"
    /\ keys' = txn[g].new
    /\ retired' = retired \cup Demoted(txn[g].old, txn[g].tNow)
    /\ Return(g)
    /\ UNCHANGED <<now, cache, jwks, tokens, faults>>

\* The compare-and-swap every storage implements: a conflicting write since
\* the transaction's read makes it fail, and rotate returns the error.
CommitKeys(g) ==
    /\ pc[g] = "commit"
    /\ IF keys = txn[g].old
         THEN /\ keys' = txn[g].new
              /\ retired' = retired \cup Demoted(txn[g].old, txn[g].tNow)
         ELSE UNCHANGED <<keys, retired>>
    /\ Return(g)
    /\ UNCHANGED <<now, cache, jwks, tokens, faults>>

-----------------------------------------------------------------------------
(***************************************************************************)
(* newIDToken: the expiry is computed from the clock after GetKeys.        *)
(***************************************************************************)
Sign(g) ==
    /\ pc[g] = "got" /\ g.role = "sign"
    /\ Cardinality(tokens) < MaxTokens
    /\ tokens' = tokens \cup {[key    |-> got[g].SigningKey,
                               expiry |-> now + idTokenValidFor]}
    /\ Return(g)
    /\ UNCHANGED <<now, keys, cache, jwks, retired, faults>>

\* Faults: max-age is the rotation frequency; max-age has no minimum.
PublishKeysForPeriod(g) ==
    /\ pc[g] = "got" /\ g.role = "publish"
    /\ jwks' = [keys |-> Published(got[g]), clamped |-> FALSE,
                freshUntil |-> now + rotationFrequency]
    /\ Return(g)
    /\ UNCHANGED <<now, keys, cache, tokens, retired, faults>>

(***************************************************************************)
(* handlePublicKeys: the key set with a max-age of the time left to the    *)
(* next rotation, and at least two minutes (clamped).                      *)
(***************************************************************************)
PublishKeys(g) ==
    /\ pc[g] = "got" /\ g.role = "publish"
    /\ LET left == got[g].NextRotation - now
       IN  jwks' = [keys       |-> Published(got[g]),
                    freshUntil |-> now + (IF left < MinMaxAge THEN MinMaxAge
                                          ELSE left),
                    clamped    |-> left < MinMaxAge]
    /\ Return(g)
    /\ UNCHANGED <<now, keys, cache, tokens, retired, faults>>

-----------------------------------------------------------------------------
\* A storage call fails; GetKeys and UpdateKeys return the error.
StorageError(g) ==
    /\ pc[g] \in {"miss", "rotate", "commit"}
    /\ faults < MaxFaults
    /\ faults' = faults + 1
    /\ Return(g)
    /\ UNCHANGED <<now, keys, cache, jwks, tokens, retired>>

\* A server restarts: its goroutines and its cache are gone.
Restart(s) ==
    /\ faults < MaxFaults
    /\ faults' = faults + 1
    /\ cache' = [cache EXCEPT ![s] = NoKeys]
    /\ pc' = [g \in Goroutines |-> IF g.host = s THEN "idle" ELSE pc[g]]
    /\ got' = [g \in Goroutines |-> IF g.host = s THEN NoKeys ELSE got[g]]
    /\ txn' = [g \in Goroutines |-> IF g.host = s THEN NoTxn ELSE txn[g]]
    /\ UNCHANGED <<now, keys, jwks, tokens, retired>>

Tick ==
    /\ now < MaxTime
    /\ now' = now + 1
    /\ UNCHANGED <<keys, cache, pc, got, txn, jwks, tokens, retired, faults>>

GetKeys(g) == CacheLoad(g) \/ StorageGetKeys(g) \/ CheckFresh(g) \/ CacheStore(g)
Rotate(g) == RotateCheck(g) \/ BeginUpdate(g) \/ RunUpdater(g) \/ CommitKeys(g)

Next ==
    \/ \E g \in Goroutines : \/ GetKeys(g) \/ Rotate(g)
                             \/ Sign(g) \/ PublishKeys(g) \/ StorageError(g)
    \/ \E s \in Servers : Restart(s)
    \/ Tick

Spec == Init /\ [][Next]_vars

\* startKeyRotation calls rotate every 30 seconds for as long as the server
\* lives, so a rotation goroutine that can move does.
RotationFairness ==
    \A g \in Goroutines : g.role = "rotate" => WF_vars(GetKeys(g) \/ Rotate(g))

FairSpec == Spec /\ RotationFairness

-----------------------------------------------------------------------------
(***************************************************************************)
(* Properties                                                              *)
(***************************************************************************)

\* Every variable has its type.
TypeOK ==
    /\ now \in Nat
    /\ keys \in Keys
    /\ cache \in [Servers -> Keys]
    /\ pc \in [Goroutines -> PCs]
    /\ got \in [Goroutines -> Keys]
    /\ txn \in [Goroutines -> [old: Keys, new: Keys, tNow: Nat]]
    /\ jwks \in [keys: SUBSET Nat, freshUntil: Nat, clamped: BOOLEAN]
    /\ tokens \in SUBSET VerificationKey
    /\ retired \in SUBSET VerificationKey
    /\ faults \in Nat

\* A cache keyCacher.GetKeys would still answer from holds exactly the keys in
\* storage, although no server tells the others' caches that it rotated.
CacheCoherent ==
    \A s \in Servers : now < cache[s].NextRotation => cache[s] = keys

\* Keys are never replaced before their NextRotation, whatever servers rotate
\* at once: storage.Keys asks implementations for it, for the caches' sake.
NoEarlyRotation == [][keys' # keys => now >= keys.NextRotation]_vars

\* newIDToken read the clock before the updater that demoted its key did.
SignedInTime(t) ==
    \A v \in retired : v.key = t.key => t.expiry =< v.expiry

\* An ID token that has not expired, and whose expiry was fixed before its key
\* was demoted, verifies against the keys in storage: rotate drops no
\* verification key such a token still needs, through any number of rotations.
LiveTokensVerify ==
    \A t \in tokens :
        now =< t.expiry /\ SignedInTime(t) => t.key \in Published(keys)

\* A relying party that keeps the key set as long as max-age allows holds the
\* keys of the storage, unless the two-minute minimum stretched max-age.
FreshKeySetCurrent ==
    now < jwks.freshUntil /\ ~jwks.clamped => jwks.keys = Published(keys)

\* Keys that are due get rotated, in spite of lost races with other servers,
\* storage errors and restarts.
DueKeysRotate == now >= keys.NextRotation ~> now < keys.NextRotation
=============================================================================
