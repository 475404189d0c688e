------------------------------ MODULE AuthFlow ------------------------------
(***************************************************************************)
(* The authorization flow of dex, from the request a client sends its user *)
(* with to the answer it gets back: handleAuthorization stores an          *)
(* AuthRequest, handleConnectorLogin and handleConnectorCallback log the   *)
(* user in at a connector and write the identity into it, handleApproval   *)
(* turns it into an authorization code or an ID token (server/handlers.go),*)
(* and the garbage collectors of the servers (server/server.go) remove     *)
(* what has expired.                                                       *)
(*                                                                         *)
(* Handlers run at once and meet only in the storage.  A storage call is a *)
(* step; Abort ends a handler between two of them, which is what a failed  *)
(* call, a call that took effect and failed to say so, a crash and a user  *)
(* who closes the page come to.  The storages differ where the flow can    *)
(* tell: what an update does to an object that is gone, and how they       *)
(* collect.  A request that is refused before it changed anything is not a *)
(* step.                                                                   *)
(***************************************************************************)
EXTENDS Integers, FiniteSets

CONSTANTS AuthReqs,      \* the IDs storage.NewID gives to AuthRequests
          Connectors,    \* the IDs of the connectors in storage
          Password,      \* those whose users type a password at dex
          Users,         \* who can log in at each connector
          Handlers,      \* HTTP requests that may be served at once
          Collectors,    \* servers, one garbage collector each
          Backends,      \* the storages the run is about
          RespondsCode,  \* the AuthReqs whose response type includes code
          ValidFor,      \* authRequestsValidFor
          CodeValidFor,  \* the 30 minutes an AuthCode is good for
          MaxTime,       \* bound: the clock
          MaxCodes       \* bound: AuthCodes made

ASSUME AuthAssumption ==
    /\ Password \subseteq Connectors
    /\ Backends \subseteq {"memory", "sql", "kubernetes", "etcd"}
    /\ RespondsCode \subseteq AuthReqs
    /\ \A name \in {"", "absent"} : name \notin AuthReqs /\ name \notin Connectors

ASSUME TimeAssumption ==
    ValidFor \in Nat /\ CodeValidFor \in Nat /\ MaxTime \in Nat /\ MaxCodes \in Nat

VARIABLES
    backend,   \* the storage dex is configured with
    now,       \* the clock of all servers
    reqs,      \* the AuthRequest objects, by key
    codes,     \* the AuthCode objects, numbered as they are made
    pc, loc,   \* where each handler is, and its locals
    gc,        \* the garbage collectors
    started,   \* logins under way at a connector's own pages
    used,      \* the AuthReqs used up
    lastCode,  \* the number of the last AuthCode
    chosen,    \* history: connectors set on AuthRequests
    logins,    \* history: identities written into AuthRequests
    answered,  \* history: how often each AuthRequest was answered
    responses, \* history: what the answers said
    exchanged  \* history: codes the token endpoint deleted

store == <<backend, now, reqs, codes>>
history == <<used, lastCode, chosen, logins, answered, responses, exchanged>>
vars == <<store, pc, loc, gc, started, history>>

-----------------------------------------------------------------------------
\* The empty ID is a key too: that of an object etcd made up.
Keys == AuthReqs \cup {""}
CodeIDs == 1 .. MaxCodes

Identity == [Connector: Connectors, User: Users]
NoIdentity == [Connector |-> "", User |-> ""]

Request(id, conn, loggedIn, claims, expiry) ==
    [ID |-> id, ConnectorID |-> conn, LoggedIn |-> loggedIn,
     Claims |-> claims, Expiry |-> expiry]

\* Claims are set if and only if the user is logged in.
AuthRequest ==
    {r \in [ID: Keys, ConnectorID: Connectors \cup {""}, LoggedIn: BOOLEAN,
            Claims: Identity \cup {NoIdentity}, Expiry: Nat] :
        r.LoggedIn <=> r.Claims \in Identity}

\* The zero value; its Expiry is before every time.
ZeroRequest == Request("", "", FALSE, NoIdentity, 0)
NoRequest == Request("absent", "", FALSE, NoIdentity, 0)

AuthCode == [ConnectorID: Connectors \cup {""}, Claims: Identity \cup {NoIdentity},
             Expiry: Nat]
NoCode == [ConnectorID |-> "absent", Claims |-> NoIdentity, Expiry |-> 0]

\* key: the req parameter; authReq: the AuthRequest as it was read; identity:
\* what the connector returned.
Locals(key, conn, authReq, identity) ==
    [key |-> key, conn |-> conn, authReq |-> authReq, identity |-> identity]
NoLocal == Locals("", "", NoRequest, NoIdentity)
Local == [key: Keys, conn: Connectors \cup {""},
          authReq: AuthRequest \cup {NoRequest},
          identity: Identity \cup {NoIdentity}]
PCs == {"idle", "setConnector", "finalize", "delete", "create", "respond"}

\* at: the time it was called with; requests, codes: what it has listed and not
\* deleted yet; failed: a deletion returned an error.
Collecting(where, at, requests, codeIDs, failed) ==
    [where |-> where, at |-> at, requests |-> requests, codes |-> codeIDs,
     failed |-> failed]
Waiting == Collecting("wait", 0, {}, {}, FALSE)
Collector == [where: {"wait", "requests", "codes"}, at: Nat,
              requests: SUBSET [key: Keys, ID: Keys], codes: SUBSET CodeIDs,
              failed: BOOLEAN]

\* Fault: what expires now counts as expired.
AfterOrAt(t, x) == t >= x.Expiry

After(t, x) == t > x.Expiry
HasRequest(k) == reqs[k] # NoRequest
HasCode(i) == codes[i] # NoCode

Goto(h, label, l) ==
    /\ pc' = [pc EXCEPT ![h] = label]
    /\ loc' = [loc EXCEPT ![h] = l]
Return(h) == Goto(h, "idle", NoLocal)

Init ==
    /\ backend \in Backends
    /\ now = 1
    /\ reqs = [k \in Keys |-> NoRequest]
    /\ codes = [i \in CodeIDs |-> NoCode]
    /\ pc = [h \in Handlers |-> "idle"]
    /\ loc = [h \in Handlers |-> NoLocal]
    /\ gc = [g \in Collectors |-> Waiting]
    /\ started = {} /\ used = {} /\ lastCode = 0 /\ chosen = {} /\ logins = {}
    /\ answered = [k \in Keys |-> 0]
    /\ responses = {} /\ exchanged = {}

-----------------------------------------------------------------------------
(***************************************************************************)
(* The storage.  UpdateAuthRequest hands the updater the stored object; an *)
(* object that is not there is an error, save in etcd, whose txnUpdate     *)
(* hands it the zero value and then creates the key.                       *)
(***************************************************************************)
Updatable(k) == HasRequest(k) \/ backend = "etcd"
Current(k) == IF HasRequest(k) THEN reqs[k] ELSE ZeroRequest

-----------------------------------------------------------------------------
(***************************************************************************)
(* The handlers                                                            *)
(***************************************************************************)

HandleAuthorization(k) ==
    /\ k \in AuthReqs \ used
    /\ used' = used \cup {k}
    /\ reqs' = [reqs EXCEPT ![k] = Request(k, "", FALSE, NoIdentity, now + ValidFor)]
    /\ UNCHANGED <<backend, now, codes, pc, loc, gc, started, lastCode, chosen,
                   logins, answered, responses, exchanged>>

\* The rest of handleConnectorLogin once the connector is set.  A GET shows the
\* password page or redirects to the connector's own pages; a POST with the
\* right password goes on to finalizeLogin.
ServeLogin(h, k, c, authReq) ==
    \/ /\ Return(h)
       /\ started' = IF c \in Password THEN started
                     ELSE started \cup {[key |-> k, conn |-> c]}
    \/ /\ c \in Password
       /\ \E u \in Users :
             Goto(h, "finalize", Locals(k, c, authReq, [Connector |-> c, User |-> u]))
       /\ UNCHANGED started

\* handleConnectorLogin reads the request before it talks to the connector.
HandleConnectorLogin(h, k, c) ==
    /\ pc[h] = "idle"
    /\ HasRequest(k)
    /\ IF reqs[k].ConnectorID = c
         THEN ServeLogin(h, k, c, reqs[k])
         ELSE /\ Goto(h, "setConnector", Locals(k, c, reqs[k], NoIdentity))
              /\ UNCHANGED started
    /\ UNCHANGED <<store, gc, history>>

SetConnector(h) ==
    LET k == loc[h].key
        c == loc[h].conn
        r == Current(k)
    IN  /\ pc[h] = "setConnector"
        /\ IF Updatable(k)
             THEN /\ reqs' = [reqs EXCEPT ![k] = Request(r.ID, c, r.LoggedIn, r.Claims,
                                                         r.Expiry)]
                  /\ chosen' = chosen \cup {[key |-> k, conn |-> c]}
                  /\ ServeLogin(h, k, c, loc[h].authReq)
             ELSE Return(h) /\ UNCHANGED <<reqs, started, chosen>>
        /\ UNCHANGED <<backend, now, codes, gc, used, lastCode, logins, answered,
                       responses, exchanged>>

\* The user comes back from connector c, whose answer only c accepts.
HandleConnectorCallback(h, k, c) ==
    /\ pc[h] = "idle"
    /\ [key |-> k, conn |-> c] \in started
    /\ HasRequest(k)
    /\ reqs[k].ConnectorID = c
    /\ \E u \in Users :
          Goto(h, "finalize", Locals(k, c, reqs[k], [Connector |-> c, User |-> u]))
    /\ UNCHANGED <<store, gc, started, history>>

\* The identity is written under the ID of the request that was read.
FinalizeLogin(h) ==
    LET k == loc[h].authReq.ID
        r == Current(k)
    IN  /\ pc[h] = "finalize"
        /\ IF Updatable(k)
             THEN /\ reqs' = [reqs EXCEPT ![k] = Request(r.ID, r.ConnectorID, TRUE,
                                                         loc[h].identity, r.Expiry)]
                  /\ logins' = logins \cup {[key |-> k, Claims |-> loc[h].identity]}
             ELSE UNCHANGED <<reqs, logins>>
        /\ Return(h)
        /\ UNCHANGED <<backend, now, codes, gc, started, used, lastCode, chosen,
                       answered, responses, exchanged>>

\* Fault: LoggedIn is not looked at.
HandleApprovalEarly(h, k) ==
    /\ pc[h] = "idle"
    /\ HasRequest(k)
    /\ ~After(now, reqs[k])
    /\ Goto(h, "delete", Locals(k, "", reqs[k], NoIdentity))
    /\ UNCHANGED <<store, gc, started, history>>

\* The user approves, or approval is skipped: the request is read and its
\* Expiry looked at before it is deleted.
HandleApproval(h, k) ==
    /\ pc[h] = "idle"
    /\ HasRequest(k)
    /\ reqs[k].LoggedIn
    /\ ~After(now, reqs[k])
    /\ Goto(h, "delete", Locals(k, "", reqs[k], NoIdentity))
    /\ UNCHANGED <<store, gc, started, history>>

\* Fault: ErrNotFound is not an error.
DeleteAuthRequestAgain(h) ==
    LET k == loc[h].authReq.ID
    IN  /\ pc[h] = "delete"
        /\ reqs' = [reqs EXCEPT ![k] = NoRequest]
        /\ Goto(h, IF k \in RespondsCode THEN "create" ELSE "respond", loc[h])
        /\ UNCHANGED <<backend, now, codes, gc, started, history>>

\* ErrNotFound means that the request was answered or collected meanwhile.
DeleteAuthRequest(h) ==
    LET k == loc[h].authReq.ID
    IN  /\ pc[h] = "delete"
        /\ IF HasRequest(k)
             THEN /\ reqs' = [reqs EXCEPT ![k] = NoRequest]
                  /\ Goto(h, IF k \in RespondsCode THEN "create" ELSE "respond", loc[h])
             ELSE Return(h) /\ UNCHANGED reqs
        /\ UNCHANGED <<backend, now, codes, gc, started, history>>

CreateAuthCode(h) ==
    LET a == loc[h].authReq
    IN  /\ pc[h] = "create"
        /\ lastCode < MaxCodes
        /\ lastCode' = lastCode + 1
        /\ codes' = [codes EXCEPT ![lastCode + 1] = [ConnectorID |-> a.ConnectorID,
                        Claims |-> a.Claims, Expiry |-> now + CodeValidFor]]
        /\ Goto(h, "respond", loc[h])
        /\ UNCHANGED <<backend, now, reqs, gc, started, used, chosen, logins,
                       answered, responses, exchanged>>

\* The redirect to the client, with the code, an ID token or both.
Respond(h) ==
    LET a == loc[h].authReq
    IN  /\ pc[h] = "respond"
        /\ answered' = [answered EXCEPT ![a.ID] = @ + 1]
        /\ responses' = responses \cup {[key |-> loc[h].key,
                           ConnectorID |-> a.ConnectorID, Claims |-> a.Claims]}
        /\ Return(h)
        /\ UNCHANGED <<store, gc, started, used, lastCode, chosen, logins, exchanged>>

\* A handler ends early: see above.
Abort(h) ==
    /\ pc[h] # "idle"
    /\ Return(h)
    /\ UNCHANGED <<store, gc, started, history>>

\* The token endpoint deletes a code it answers (RefreshTokens).
ExchangeCode(i) ==
    /\ HasCode(i)
    /\ codes' = [codes EXCEPT ![i] = NoCode]
    /\ exchanged' = exchanged \cup {i}
    /\ UNCHANGED <<backend, now, reqs, pc, loc, gc, started, used, lastCode, chosen,
                   logins, answered, responses>>

Tick ==
    /\ now < MaxTime
    /\ now' = now + 1
    /\ UNCHANGED <<backend, reqs, codes, pc, loc, gc, started, history>>

-----------------------------------------------------------------------------
(***************************************************************************)
(* GarbageCollect, which every server calls from time to time with the     *)
(* time it starts.  The memory storage collects under its lock and the SQL *)
(* storages with one statement for each table; kubernetes and etcd list    *)
(* the objects and delete them one by one, etcd by the ID inside the       *)
(* object, kubernetes by the name it is stored under.                      *)
(***************************************************************************)
Lists == backend \in {"kubernetes", "etcd"}
ExpiredRequests(t) == {k \in Keys : HasRequest(k) /\ After(t, reqs[k])}
ExpiredCodes(t) == {i \in CodeIDs : HasCode(i) /\ After(t, codes[i])}
Named(k) == IF backend = "etcd" THEN reqs[k].ID ELSE k

WithoutRequests(ks) == [k \in Keys |-> IF k \in ks THEN NoRequest ELSE reqs[k]]
WithoutCodes(is) == [i \in CodeIDs |-> IF i \in is THEN NoCode ELSE codes[i]]

StartCollection(g) ==
    /\ gc[g].where = "wait"
    /\ \/ /\ backend = "memory"
          /\ reqs' = WithoutRequests(ExpiredRequests(now))
          /\ codes' = WithoutCodes(ExpiredCodes(now))
          /\ UNCHANGED gc
       \/ /\ backend = "sql"
          /\ reqs' = WithoutRequests(ExpiredRequests(now))
          /\ gc' = [gc EXCEPT ![g] = Collecting("codes", now, {}, {}, FALSE)]
          /\ UNCHANGED codes
       \/ /\ Lists
          /\ gc' = [gc EXCEPT ![g] = Collecting("requests", now,
                       {[key |-> k, ID |-> Named(k)] : k \in ExpiredRequests(now)},
                       {}, FALSE)]
          /\ UNCHANGED <<reqs, codes>>
    /\ UNCHANGED <<backend, now, pc, loc, started, history>>

\* An object that is gone is an error, which the loop goes on after.
CollectRequest(g) ==
    /\ gc[g].where = "requests"
    /\ \E e \in gc[g].requests :
          /\ reqs' = [reqs EXCEPT ![e.ID] = NoRequest]
          /\ gc' = [gc EXCEPT ![g] =
                       Collecting("requests", gc[g].at, gc[g].requests \ {e}, {},
                                  gc[g].failed \/ ~HasRequest(e.ID))]
    /\ UNCHANGED <<backend, now, codes, pc, loc, started, history>>

\* Codes are looked at only if no request failed.
ListCodes(g) ==
    /\ gc[g].where = "requests" /\ gc[g].requests = {}
    /\ gc' = [gc EXCEPT ![g] =
                 IF gc[g].failed THEN Waiting
                 ELSE Collecting("codes", gc[g].at, {}, ExpiredCodes(gc[g].at), FALSE)]
    /\ UNCHANGED <<store, pc, loc, started, history>>

CollectCode(g) ==
    /\ Lists /\ gc[g].where = "codes"
    /\ \E i \in gc[g].codes :
          /\ codes' = [codes EXCEPT ![i] = NoCode]
          /\ gc' = [gc EXCEPT ![g] =
                       Collecting("codes", gc[g].at, {}, gc[g].codes \ {i}, FALSE)]
    /\ UNCHANGED <<backend, now, reqs, pc, loc, started, history>>

\* Fault: the SQL storages forget the codes.
EndCollectionEarly(g) ==
    /\ gc[g].where = "codes" /\ gc[g].codes = {}
    /\ gc' = [gc EXCEPT ![g] = Waiting]
    /\ UNCHANGED <<store, pc, loc, started, history>>

EndCollection(g) ==
    /\ gc[g].where = "codes" /\ gc[g].codes = {}
    /\ codes' = IF Lists THEN codes ELSE WithoutCodes(ExpiredCodes(gc[g].at))
    /\ gc' = [gc EXCEPT ![g] = Waiting]
    /\ UNCHANGED <<backend, now, reqs, pc, loc, started, history>>

GarbageCollect(g) ==
    \/ StartCollection(g) \/ CollectRequest(g) \/ ListCodes(g) \/ CollectCode(g)
    \/ EndCollection(g)

-----------------------------------------------------------------------------
Handle(h) ==
    \/ \E k \in Keys, c \in Connectors : \/ HandleConnectorLogin(h, k, c)
                                         \/ HandleConnectorCallback(h, k, c)
    \/ \E k \in Keys : HandleApproval(h, k)
    \/ SetConnector(h) \/ FinalizeLogin(h) \/ DeleteAuthRequest(h)
    \/ CreateAuthCode(h) \/ Respond(h) \/ Abort(h)

Next ==
    \/ \E k \in AuthReqs : HandleAuthorization(k)
    \/ \E i \in CodeIDs : ExchangeCode(i)
    \/ \E h \in Handlers : Handle(h)
    \/ \E g \in Collectors : GarbageCollect(g)
    \/ Tick

Spec == Init /\ [][Next]_vars

\* Every server's collector loop keeps running: startGarbageCollection.
Fairness == \A g \in Collectors : WF_vars(GarbageCollect(g))
LiveSpec == Spec /\ Fairness

-----------------------------------------------------------------------------
(***************************************************************************)
(* Properties                                                              *)
(***************************************************************************)

\* Every variable has its type.
TypeOK ==
    /\ backend \in Backends
    /\ now \in Nat
    /\ reqs \in [Keys -> AuthRequest \cup {NoRequest}]
    /\ codes \in [CodeIDs -> AuthCode \cup {NoCode}]
    /\ pc \in [Handlers -> PCs]
    /\ loc \in [Handlers -> Local]
    /\ gc \in [Collectors -> Collector]
    /\ started \in SUBSET [key: Keys, conn: Connectors]
    /\ used \in SUBSET AuthReqs
    /\ lastCode \in 0 .. MaxCodes
    /\ chosen \in SUBSET [key: Keys, conn: Connectors]
    /\ logins \in SUBSET [key: Keys, Claims: Identity \cup {NoIdentity}]
    /\ answered \in [Keys -> Nat]
    /\ responses \in SUBSET [key: Keys, ConnectorID: Connectors \cup {""},
                             Claims: Identity \cup {NoIdentity}]
    /\ exchanged \in SUBSET CodeIDs

\* A client gets at most one answer to an authorization request, however often
\* and concurrently its user approves it and whoever else logs in to it:
\* sendCodeResponse answers only after its DeleteAuthRequest succeeded.
ResponseOnce == backend # "etcd" => \A k \in Keys : answered[k] =< 1

\* What the client is told about its user comes from logins to this very
\* request: the Claims are those one login that succeeded wrote into it, and
\* both the connector they come from and the ConnectorID that goes into sub with
\* them were set on it.  So sub names the connector of the Claims, unless the
\* user went to two connectors for one request: ConnectorID is then the one set
\* last, whether or not its login was finished (handleConnectorLogin overwrites
\* it also after finalizeLogin).
AnsweredFromLogin ==
    \A x \in responses :
        /\ [key |-> x.key, Claims |-> x.Claims] \in logins
        /\ \A c \in {x.ConnectorID, x.Claims.Connector} :
              [key |-> x.key, conn |-> c] \in chosen

\* Nothing that has not expired disappears, save a request to the approval
\* that goes on to answer it and a code to its exchange: a collector that works
\* from an old list or an old time never takes more.
UnexpiredKept ==
    [][/\ \A k \in Keys : HasRequest(k) /\ ~HasRequest(k)' /\ now =< reqs[k].Expiry =>
             \E h \in Handlers : /\ pc[h] = "delete" /\ pc'[h] \in {"create", "respond"}
                                 /\ loc[h].authReq.ID = k
       /\ \A i \in CodeIDs : HasCode(i) /\ ~HasCode(i)' /\ now =< codes[i].Expiry =>
             i \in exchanged']_vars

\* GarbageCollect deletes all expired AuthCodes and AuthRequests: none stays
\* for ever, also when collectors of several servers get in each other's way.
ExpiredCollected ==
    /\ \A k \in AuthReqs : []<>~(HasRequest(k) /\ now > reqs[k].Expiry)
    /\ \A i \in CodeIDs : []<>~(HasCode(i) /\ now > codes[i].Expiry)
=============================================================================
