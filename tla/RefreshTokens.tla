--------------------------- MODULE RefreshTokens ---------------------------
(***************************************************************************)
(* The token endpoint of dex and the refresh tokens of one user of one     *)
(* connector: authorization codes are exchanged (handleAuthCode), refresh  *)
(* tokens are rotated (handleRefreshToken, both server/handlers.go) and    *)
(* revoked (RevokeRefresh, server/api.go), by requests that run at once on *)
(* servers which share the storage.                                        *)
(*                                                                         *)
(* Every storage call is a step.  A call may fail without effect, or take  *)
(* effect and fail to say so (a timeout after the commit), and a server    *)
(* may die between two calls.  An update reads the object, calls the       *)
(* updater and writes the result: kubernetes, etcd and Postgres refuse it  *)
(* when another update was written in between, which is no failure; the    *)
(* memory storage holds its lock and never does.  A request that is        *)
(* refused before it changed anything is not a step.                       *)
(*                                                                         *)
(* What storage.NewID returns is named by a counter when it is stored: the *)
(* ID of a refresh token and each value of its Token are numbers.          *)
(***************************************************************************)
EXTENDS Integers, FiniteSets

CONSTANTS Requests,   \* requests that may be in flight at once
          Clients,    \* OAuth2 clients
          Codes,      \* authorization codes handed out by the approval
          CodeClient, \* the client of each code
          Offline,    \* the codes whose scopes include offline_access
          Revocable,  \* the clients RevokeRefresh is called for
          MaxIDs,     \* bound: calls of storage.NewID
          MaxFaults   \* bound: failed calls and crashes

ASSUME RefreshAssumption ==
    /\ CodeClient \in [Codes -> Clients]
    /\ Offline \subseteq Codes
    /\ Revocable \subseteq Clients
    /\ MaxIDs \in Nat
    /\ MaxFaults \in Nat

VARIABLES
    codes,    \* the AuthCode objects in storage
    refresh,  \* the RefreshToken object of each ID
    session,  \* the user's OfflineSessions object
    pc,       \* where each request is
    loc,      \* the locals of each request
    lastID,   \* the last number storage.NewID used up
    issued,   \* history: refresh tokens written in responses
    claims,   \* history: rotations committed
    redeemed, \* history: how often each code was answered with tokens
    revoked,  \* history: refresh tokens RevokeRefresh reported revoked
    faults,   \* failures so far
    raced,    \* requests updating the session while another one wrote it
    lost      \* history: clients whose ref an update that was refused should
              \* have replaced

vars == <<codes, refresh, session, pc, loc, lastID, issued, claims, redeemed,
          revoked, faults, raced, lost>>

IDs == 1 .. MaxIDs
RefreshToken == [ClientID: Clients, Token: IDs]
NoToken == [ClientID |-> "none", Token |-> 0]

\* The ID of the RefreshTokenRef of each client; 0 is no entry in the map.
NoRefs == [c \in Clients |-> 0]
Session == [exists: BOOLEAN, Refresh: [Clients -> IDs \cup {0}]]

\* code, client: what is asked for; id: the refresh token the request works
\* on; seen: its Token when read; old: the ref found in the session.
Local == [code: Codes \cup {"none"}, client: Clients \cup {"none"},
          id: IDs \cup {0}, seen: IDs \cup {0}, old: IDs \cup {0}]
Locals(code, client, id, seen, old) ==
    [code |-> code, client |-> client, id |-> id, seen |-> seen, old |-> old]
NoLocal == Locals("none", "none", 0, 0, 0)

PCs == {"idle", "deleteCode", "connector", "create", "getSession",
        "createSession", "deleteOld", "updateSession", "cleanup", "respond",
        "touchSession", "claim", "answer", "revokeDelete"}

Init ==
    /\ codes = Codes
    /\ refresh = [i \in IDs |-> NoToken]
    /\ session = [exists |-> FALSE, Refresh |-> NoRefs]
    /\ pc = [r \in Requests |-> "idle"]
    /\ loc = [r \in Requests |-> NoLocal]
    /\ lastID = 0
    /\ issued = {}
    /\ claims = {}
    /\ redeemed = [c \in Codes |-> 0]
    /\ revoked = {}
    /\ faults = 0
    /\ raced = {}
    /\ lost = {}

Stored(i) == i \in IDs /\ refresh[i] # NoToken

\* A request that ends forgets its locals.
Goto(r, label) ==
    /\ pc' = [pc EXCEPT ![r] = label]
    /\ loc' = IF label = "idle" THEN [loc EXCEPT ![r] = NoLocal] ELSE loc

GotoWith(r, label, l) ==
    /\ pc' = [pc EXCEPT ![r] = label]
    /\ loc' = [loc EXCEPT ![r] = l]

\* Where a failed storage call takes the handler: once the new refresh token is
\* stored, to the deferred call that deletes it.
OnError(label) ==
    IF label \in {"getSession", "createSession", "deleteOld", "updateSession"}
      THEN "cleanup" ELSE "idle"

\* A call that took effect is answered, or its answer is lost.
Answered(r, label) ==
    \/ Goto(r, label) /\ UNCHANGED faults
    \/ /\ faults < MaxFaults
       /\ faults' = faults + 1
       /\ Goto(r, OnError(pc[r]))

\* The session is written.  Any other request that is about to update it may
\* have read it before.
Overtake(r) ==
    raced' = (raced \cup {q \in Requests : pc[q] \in {"updateSession", "touchSession"}})
             \ {r}

-----------------------------------------------------------------------------
(***************************************************************************)
(* handleAuthCode                                                          *)
(***************************************************************************)

\* GetAuthCode, the checks of expiry, client and redirect URI, newIDToken.
GetAuthCode(r, c) ==
    /\ pc[r] = "idle"
    /\ c \in codes
    /\ GotoWith(r, "deleteCode", Locals(c, CodeClient[c], 0, 0, 0))
    /\ UNCHANGED <<codes, refresh, session, lastID, issued, claims, redeemed,
                   revoked, faults, raced, lost>>

\* Fault: a code that is gone already is as good as one just deleted.
DeleteAuthCodeUnchecked(r) ==
    /\ pc[r] = "deleteCode"
    /\ codes' = codes \ {loc[r].code}
    /\ Answered(r, "connector")
    /\ UNCHANGED <<refresh, session, lastID, issued, claims, redeemed, revoked,
                   raced, lost>>

DeleteAuthCode(r) ==
    /\ pc[r] = "deleteCode"
    /\ IF loc[r].code \in codes
         THEN codes' = codes \ {loc[r].code} /\ Answered(r, "connector")
         ELSE Goto(r, "idle") /\ UNCHANGED <<codes, faults>>
    /\ UNCHANGED <<refresh, session, lastID, issued, claims, redeemed, revoked,
                   raced, lost>>

\* reqRefresh: a refresh token is due if the scopes say so and the connector
\* can refresh; if it cannot, or getConnector fails, the exchange goes on
\* without one.
ReqRefresh(r) ==
    /\ pc[r] = "connector"
    /\ \/ loc[r].code \in Offline /\ Goto(r, "create")
       \/ Goto(r, "respond")
    /\ UNCHANGED <<codes, refresh, session, lastID, issued, claims, redeemed,
                   revoked, faults, raced, lost>>

CreateRefresh(r) ==
    /\ pc[r] = "create"
    /\ lastID < MaxIDs
    /\ LET id == lastID + 1 IN
         /\ lastID' = id
         /\ refresh' = [refresh EXCEPT ![id] =
                           [ClientID |-> loc[r].client, Token |-> id]]
         /\ \/ /\ GotoWith(r, "getSession",
                           Locals(loc[r].code, loc[r].client, id, id, 0))
               /\ UNCHANGED faults
            \/ /\ faults < MaxFaults
               /\ faults' = faults + 1
               /\ Goto(r, "idle")
    /\ UNCHANGED <<codes, session, issued, claims, redeemed, revoked, raced,
                   lost>>

GetOfflineSessions(r) ==
    /\ pc[r] = "getSession"
    /\ LET ref == session.Refresh[loc[r].client] IN
         \/ ~session.exists /\ Goto(r, "createSession")
         \/ session.exists /\ ref = 0 /\ Goto(r, "updateSession")
         \/ /\ session.exists /\ ref # 0
            /\ GotoWith(r, "deleteOld", Locals(loc[r].code, loc[r].client,
                                               loc[r].id, loc[r].seen, ref))
    /\ UNCHANGED <<codes, refresh, session, lastID, issued, claims, redeemed,
                   revoked, faults, raced, lost>>

\* ErrAlreadyExists if a concurrent exchange created it first.
CreateOfflineSessions(r) ==
    /\ pc[r] = "createSession"
    /\ IF session.exists
         THEN Goto(r, "cleanup") /\ UNCHANGED <<session, faults, raced>>
         ELSE /\ session' = [exists  |-> TRUE,
                             Refresh |-> [NoRefs EXCEPT ![loc[r].client] = loc[r].id]]
              /\ Overtake(r)
              /\ Answered(r, "respond")
    /\ UNCHANGED <<codes, refresh, lastID, issued, claims, redeemed, revoked,
                   lost>>

\* ErrNotFound fails the exchange like every other error.
DeleteOldRefresh(r) ==
    /\ pc[r] = "deleteOld"
    /\ IF Stored(loc[r].old)
         THEN /\ refresh' = [refresh EXCEPT ![loc[r].old] = NoToken]
              /\ Answered(r, "updateSession")
         ELSE Goto(r, "cleanup") /\ UNCHANGED <<refresh, faults>>
    /\ UNCHANGED <<codes, session, lastID, issued, claims, redeemed, revoked,
                   raced, lost>>

\* Fault: the ref is not put in the map.
UpdateOfflineSessionsNoRef(r) ==
    /\ pc[r] = "updateSession"
    /\ Overtake(r)
    /\ Answered(r, "respond")
    /\ UNCHANGED <<codes, refresh, session, lastID, issued, claims, redeemed,
                   revoked, lost>>

\* The session found by GetOfflineSessions still exists: dex deletes none.
UpdateOfflineSessions(r) ==
    /\ pc[r] = "updateSession"
    /\ session' = [exists  |-> session.exists,
                   Refresh |-> [session.Refresh EXCEPT ![loc[r].client] = loc[r].id]]
    /\ Overtake(r)
    /\ lost' = lost \ {loc[r].client}
    /\ Answered(r, "respond")
    /\ UNCHANGED <<codes, refresh, lastID, issued, claims, redeemed, revoked>>

\* UpdateOfflineSessions is refused: the session was written since it was read.
\* An exchange deletes its new token, and has deleted the old one already; a
\* refresh ends.  (Two updates of one refresh token: see UpdateRefreshToken.)
Conflict(r) ==
    /\ pc[r] \in {"updateSession", "touchSession"}
    /\ r \in raced
    /\ raced' = raced \ {r}
    /\ lost' = IF pc[r] = "updateSession" /\ loc[r].old # 0
                 THEN lost \cup {loc[r].client} ELSE lost
    /\ Goto(r, OnError(pc[r]))
    /\ UNCHANGED <<codes, refresh, session, lastID, issued, claims, redeemed,
                   revoked, faults>>

\* The deferred DeleteRefresh of the new token.
Cleanup(r) ==
    /\ pc[r] = "cleanup"
    /\ refresh' = [refresh EXCEPT ![loc[r].id] = NoToken]
    /\ Goto(r, "idle")
    /\ UNCHANGED <<codes, session, lastID, issued, claims, redeemed, revoked,
                   faults, raced, lost>>

\* writeAccessToken, with the refresh token if there is one.
WriteCodeResponse(r) ==
    /\ pc[r] = "respond"
    /\ redeemed' = [redeemed EXCEPT ![loc[r].code] = @ + 1]
    /\ issued' = IF loc[r].id = 0 THEN issued
                 ELSE issued \cup {[id |-> loc[r].id, Token |-> loc[r].seen]}
    /\ Goto(r, "idle")
    /\ UNCHANGED <<codes, refresh, session, lastID, claims, revoked, faults,
                   raced, lost>>

-----------------------------------------------------------------------------
(***************************************************************************)
(* handleRefreshToken                                                      *)
(***************************************************************************)

\* GetRefresh of a token some response carried, the checks of its client,
\* Token and scopes, the connector's Refresh, newIDToken.
GetRefresh(r, t) ==
    /\ pc[r] = "idle"
    /\ Stored(t.id)
    /\ refresh[t.id].Token = t.Token
    /\ GotoWith(r, "touchSession",
                Locals("none", refresh[t.id].ClientID, t.id, t.Token, 0))
    /\ UNCHANGED <<codes, refresh, session, lastID, issued, claims, redeemed,
                   revoked, faults, raced, lost>>

\* The updater compares the ref's ID with the token's and sets LastUsed.  On a
\* client without ref it dereferences nil and the request dies.
TouchOfflineSessions(r) ==
    /\ pc[r] = "touchSession"
    /\ IF session.Refresh[loc[r].client] = loc[r].id
         THEN Overtake(r) /\ Answered(r, "claim")
         ELSE raced' = raced \ {r} /\ Goto(r, "idle") /\ UNCHANGED faults
    /\ UNCHANGED <<codes, refresh, session, lastID, issued, claims, redeemed,
                   revoked, lost>>

Claimed(r) == GotoWith(r, "answer", Locals("none", loc[r].client, loc[r].id,
                                           lastID + 1, 0))

\* Faults: the updater does not compare the Token; a missing object is created;
\* the response carries the token the client sent.
UpdateRefreshTokenBlind(r) ==
    /\ pc[r] = "claim"
    /\ lastID < MaxIDs
    /\ IF Stored(loc[r].id)
         THEN /\ lastID' = lastID + 1
              /\ refresh' = [refresh EXCEPT ![loc[r].id] =
                   [ClientID |-> refresh[loc[r].id].ClientID, Token |-> lastID + 1]]
              /\ claims' = claims \cup {[id |-> loc[r].id, old |-> loc[r].seen,
                                         new |-> lastID + 1]}
              /\ Claimed(r)
         ELSE Goto(r, "idle") /\ UNCHANGED <<lastID, refresh, claims>>
    /\ UNCHANGED <<codes, session, issued, redeemed, revoked, faults, raced,
                   lost>>
UpdateRefreshTokenUpsert(r) ==
    /\ pc[r] = "claim"
    /\ lastID < MaxIDs
    /\ lastID' = lastID + 1
    /\ refresh' = [refresh EXCEPT ![loc[r].id] = [ClientID |-> loc[r].client,
                                                  Token |-> lastID + 1]]
    /\ Claimed(r)
    /\ UNCHANGED <<codes, session, issued, claims, redeemed, revoked, faults,
                   raced, lost>>

UpdateRefreshTokenEcho(r) ==
    /\ pc[r] = "claim"
    /\ lastID < MaxIDs
    /\ IF Stored(loc[r].id) /\ refresh[loc[r].id].Token = loc[r].seen
         THEN /\ lastID' = lastID + 1
              /\ refresh' = [refresh EXCEPT ![loc[r].id] =
                   [ClientID |-> refresh[loc[r].id].ClientID, Token |-> lastID + 1]]
              /\ Goto(r, "answer")
         ELSE Goto(r, "idle") /\ UNCHANGED <<lastID, refresh>>
    /\ UNCHANGED <<codes, session, issued, claims, redeemed, revoked, faults,
                   raced, lost>>

\* The updater refuses a token that was claimed since GetRefresh; a storage
\* that refuses the update instead ends the request the same way.
UpdateRefreshToken(r) ==
    /\ pc[r] = "claim"
    /\ lastID < MaxIDs
    /\ IF Stored(loc[r].id) /\ refresh[loc[r].id].Token = loc[r].seen
         THEN /\ lastID' = lastID + 1
              /\ refresh' = [refresh EXCEPT ![loc[r].id] =
                   [ClientID |-> refresh[loc[r].id].ClientID, Token |-> lastID + 1]]
              /\ claims' = claims \cup {[id |-> loc[r].id, old |-> loc[r].seen,
                                         new |-> lastID + 1]}
              /\ \/ /\ Claimed(r)
                    /\ UNCHANGED faults
                 \/ /\ faults < MaxFaults
                    /\ faults' = faults + 1
                    /\ Goto(r, "idle")
         ELSE Goto(r, "idle") /\ UNCHANGED <<lastID, refresh, claims, faults>>
    /\ UNCHANGED <<codes, session, issued, redeemed, revoked, raced, lost>>

WriteRefreshResponse(r) ==
    /\ pc[r] = "answer"
    /\ issued' = issued \cup {[id |-> loc[r].id, Token |-> loc[r].seen]}
    /\ Goto(r, "idle")
    /\ UNCHANGED <<codes, refresh, session, lastID, claims, redeemed, revoked,
                   faults, raced, lost>>

-----------------------------------------------------------------------------
(***************************************************************************)
(* RevokeRefresh: the ref is removed first, then the token.                *)
(***************************************************************************)

\* Fault: the entry stays in the map.
RevokeRefKept(r, c) ==
    /\ pc[r] = "idle"
    /\ session.exists /\ session.Refresh[c] # 0
    /\ GotoWith(r, "revokeDelete", Locals("none", c, session.Refresh[c], 0, 0))
    /\ UNCHANGED <<codes, refresh, session, lastID, issued, claims, redeemed,
                   revoked, faults, raced, lost>>

RevokeRef(r, c) ==
    /\ pc[r] = "idle"
    /\ session.exists /\ session.Refresh[c] # 0
    /\ session' = [exists  |-> TRUE,
                   Refresh |-> [session.Refresh EXCEPT ![c] = 0]]
    /\ \/ /\ GotoWith(r, "revokeDelete",
                      Locals("none", c, session.Refresh[c], 0, 0))
          /\ UNCHANGED faults
       \/ /\ faults < MaxFaults
          /\ faults' = faults + 1
          /\ UNCHANGED <<pc, loc>>
    /\ Overtake(r)
    /\ lost' = lost \ {c}
    /\ UNCHANGED <<codes, refresh, lastID, issued, claims, redeemed, revoked>>

RevokeDelete(r) ==
    /\ pc[r] = "revokeDelete"
    /\ refresh' = [refresh EXCEPT ![loc[r].id] = NoToken]
    /\ revoked' = IF Stored(loc[r].id) THEN revoked \cup {loc[r].id} ELSE revoked
    /\ Goto(r, "idle")
    /\ UNCHANGED <<codes, session, lastID, issued, claims, redeemed, faults,
                   raced, lost>>

-----------------------------------------------------------------------------
\* A storage call fails without effect.
StorageError(r) ==
    /\ pc[r] \in {"deleteCode", "create", "getSession", "createSession",
                  "deleteOld", "updateSession", "cleanup", "touchSession",
                  "claim", "revokeDelete"}
    /\ faults < MaxFaults
    /\ faults' = faults + 1
    /\ Goto(r, OnError(pc[r]))
    /\ raced' = raced \ {r}
    /\ UNCHANGED <<codes, refresh, session, lastID, issued, claims, redeemed,
                   revoked, lost>>

\* The server dies with the request; what is deferred does not run.
Crash(r) ==
    /\ pc[r] # "idle"
    /\ faults < MaxFaults
    /\ faults' = faults + 1
    /\ Goto(r, "idle")
    /\ raced' = raced \ {r}
    /\ UNCHANGED <<codes, refresh, session, lastID, issued, claims, redeemed,
                   revoked, lost>>

\* GarbageCollect removes a code that expired.
CollectCode(c) ==
    /\ c \in codes
    /\ codes' = codes \ {c}
    /\ UNCHANGED <<refresh, session, pc, loc, lastID, issued, claims, redeemed,
                   revoked, faults, raced, lost>>

HandleAuthCode(r) ==
    \/ \E c \in Codes : GetAuthCode(r, c)
    \/ DeleteAuthCode(r) \/ ReqRefresh(r) \/ CreateRefresh(r)
    \/ GetOfflineSessions(r) \/ CreateOfflineSessions(r) \/ DeleteOldRefresh(r)
    \/ UpdateOfflineSessions(r) \/ Cleanup(r) \/ WriteCodeResponse(r)

HandleRefreshToken(r) ==
    \/ \E t \in issued : GetRefresh(r, t)
    \/ TouchOfflineSessions(r) \/ UpdateRefreshToken(r) \/ WriteRefreshResponse(r)

RevokeRefresh(r) == (\E c \in Revocable : RevokeRef(r, c)) \/ RevokeDelete(r)

Next ==
    \/ \E r \in Requests : \/ HandleAuthCode(r) \/ HandleRefreshToken(r)
                           \/ RevokeRefresh(r) \/ Conflict(r)
                           \/ StorageError(r) \/ Crash(r)
    \/ \E c \in Codes : CollectCode(c)

Spec == Init /\ [][Next]_vars

-----------------------------------------------------------------------------
(***************************************************************************)
(* Properties                                                              *)
(***************************************************************************)

\* Every variable has its type.
TypeOK ==
    /\ codes \in SUBSET Codes
    /\ refresh \in [IDs -> RefreshToken \cup {NoToken}]
    /\ session \in Session
    /\ pc \in [Requests -> PCs]
    /\ loc \in [Requests -> Local]
    /\ lastID \in 0 .. MaxIDs
    /\ issued \in SUBSET [id: IDs, Token: IDs]
    /\ claims \in SUBSET [id: IDs, old: IDs, new: IDs]
    /\ redeemed \in [Codes -> Nat]
    /\ revoked \in SUBSET IDs
    /\ faults \in 0 .. MaxFaults
    /\ raced \in SUBSET Requests
    /\ lost \in SUBSET Clients

\* No value of a refresh token is claimed twice, by however many requests that
\* read it before any of them wrote, and whatever fails on the way.
ClaimedOnce ==
    \A x, y \in claims : x.id = y.id /\ x.old = y.old => x = y

\* An authorization code is answered with tokens at most once, although every
\* concurrent exchange of it has its ID token ready before the code is deleted.
CodeRedeemedOnce == \A c \in Codes : redeemed[c] =< 1

\* A refresh token RevokeRefresh reported revoked never comes back, in spite of
\* rotations in flight that read it before.
RevokedStaysRevoked == \A i \in revoked : ~Stored(i)

\* Until something fails, the ref the session holds for a client names a stored
\* refresh token of that client, unless the exchange that replaces it is
\* between its DeleteRefresh and its UpdateOfflineSessions, or the storage
\* refused that very update because the session was written meanwhile.  So
\* interleaved exchanges, refreshes and revocations have one way to leave a ref
\* no later login can replace, and in the memory storage none.
RefsResolve ==
    faults = 0 =>
        \A c \in Clients \ lost :
            LET ref == session.Refresh[c]
            IN  \/ ref = 0
                \/ Stored(ref) /\ refresh[ref].ClientID = c
                \/ \E r \in Requests : /\ pc[r] = "updateSession"
                                       /\ loc[r].client = c /\ loc[r].old = ref

\* Where a request has stored a token value and not yet sent it.
Storing == {"getSession", "createSession", "deleteOld", "updateSession",
            "cleanup", "respond", "answer"}

\* Until something fails, the current value of every stored refresh token was
\* sent to its client, unless the request that stored it is still running: a
\* lost race never leaves the storage with a value that nobody was given.
NoLockout ==
    faults = 0 =>
        \A i \in IDs : Stored(i) =>
            \/ [id |-> i, Token |-> refresh[i].Token] \in issued
            \/ \E r \in Requests : /\ pc[r] \in Storing
                                   /\ loc[r].id = i
                                   /\ loc[r].seen = refresh[i].Token

\* handleRefreshToken's updater finds a ref for the client of the stored token it
\* was handed, and does not dereference nil, for every client that nobody revokes
\* tokens of: whatever fails, and whatever is revoked for other clients.
RefPresent ==
    \A r \in Requests :
        pc[r] = "touchSession" /\ loc[r].client \notin Revocable
            => session.Refresh[loc[r].client] # 0

\* api.proto on RevokeRefresh: each user-client pair has only one refresh token
\* at a time (looked at while no request is running).
OneTokenPerClient ==
    (\A r \in Requests : pc[r] = "idle") =>
        \A i, j \in IDs :
            Stored(i) /\ Stored(j) /\ refresh[i].ClientID = refresh[j].ClientID
                => i = j
=============================================================================
