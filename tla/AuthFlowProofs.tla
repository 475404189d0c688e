--------------------------- MODULE AuthFlowProofs ---------------------------
(***************************************************************************)
(* Proofs about AuthFlow, for any storage and any number of requests,      *)
(* connectors, users, handlers and garbage collectors.                     *)
(***************************************************************************)
EXTENDS AuthFlow, TLAPS

\* The provers are tried in turn: those a leaf cites, or else Zenon before SMT.
USE ZenonT(30), SMTT(30)

Approving == {"delete", "create", "respond"}
Answering == {"create", "respond"}

\* What a handler has read and set before it gets to a line.
SetAt(label, l) ==
    /\ label # "idle" => l.authReq \in AuthRequest
    /\ label \in {"setConnector", "finalize"} => l.conn \in Connectors
    /\ label = "finalize" => l.identity \in Identity
    /\ label \in Approving => l.authReq.LoggedIn

ControlOK ==
    /\ pc \in [Handlers -> PCs]
    /\ loc \in [Handlers -> Local]
    /\ \A h \in Handlers : SetAt(pc[h], loc[h])

RequestsOK == reqs \in [Keys -> AuthRequest \cup {NoRequest}]
CodesOK == codes \in [CodeIDs -> AuthCode \cup {NoCode}] /\ lastCode \in 0 .. MaxCodes
CollectorsOK == gc \in [Collectors -> Collector]

HistoryOK ==
    /\ backend \in Backends
    /\ now \in Nat
    /\ started \in SUBSET [key: Keys, conn: Connectors]
    /\ used \in SUBSET AuthReqs
    /\ chosen \in SUBSET [key: Keys, conn: Connectors]
    /\ logins \in SUBSET [key: Keys, Claims: Identity \cup {NoIdentity}]
    /\ answered \in [Keys -> Nat]
    /\ responses \in SUBSET [key: Keys, ConnectorID: Connectors \cup {""},
                             Claims: Identity \cup {NoIdentity}]
    /\ exchanged \in SUBSET CodeIDs

TypeInv == ControlOK /\ RequestsOK /\ CodesOK /\ CollectorsOK /\ HistoryOK

\* What a step does to the handler it is of, and to the others.
Moves(h, label, l) ==
    /\ pc'[h] = label /\ loc'[h] = l
    /\ \A i \in Handlers \ {h} : pc'[i] = pc[i] /\ loc'[i] = loc[i]

-----------------------------------------------------------------------------
(***************************************************************************)
(* Records                                                                 *)
(***************************************************************************)
LEMMA RequestFields ==
    ASSUME NEW id, NEW conn, NEW loggedIn, NEW claims, NEW expiry
    PROVE  /\ Request(id, conn, loggedIn, claims, expiry).ID = id
           /\ Request(id, conn, loggedIn, claims, expiry).ConnectorID = conn
           /\ Request(id, conn, loggedIn, claims, expiry).LoggedIn = loggedIn
           /\ Request(id, conn, loggedIn, claims, expiry).Claims = claims
           /\ Request(id, conn, loggedIn, claims, expiry).Expiry = expiry
  BY DEF Request

LEMMA LocalFields ==
    ASSUME NEW key, NEW conn, NEW authReq, NEW identity
    PROVE  /\ Locals(key, conn, authReq, identity).key = key
           /\ Locals(key, conn, authReq, identity).conn = conn
           /\ Locals(key, conn, authReq, identity).authReq = authReq
           /\ Locals(key, conn, authReq, identity).identity = identity
  BY DEF Locals

LEMMA NobodyLoggedIn == NoIdentity \notin Identity
  BY AuthAssumption DEF NoIdentity, Identity

LEMMA RequestType ==
    ASSUME NEW id \in Keys, NEW conn \in Connectors \cup {""}, NEW loggedIn \in BOOLEAN,
           NEW claims \in Identity \cup {NoIdentity}, NEW expiry \in Nat,
           loggedIn <=> claims \in Identity
    PROVE  Request(id, conn, loggedIn, claims, expiry) \in AuthRequest
  BY DEF Request, AuthRequest

LEMMA RequestParts ==
    ASSUME NEW r \in AuthRequest
    PROVE  /\ r.ID \in Keys /\ r.ConnectorID \in Connectors \cup {""}
           /\ r.LoggedIn \in BOOLEAN /\ r.Claims \in Identity \cup {NoIdentity}
           /\ r.Expiry \in Nat /\ (r.LoggedIn <=> r.Claims \in Identity)
           /\ r # NoRequest
  <1>0. NoRequest.ID = "absent"
    BY DEF NoRequest, Request
  <1>1. "absent" \notin Keys
    BY AuthAssumption DEF Keys
  <1>2. /\ r.ID \in Keys /\ r.ConnectorID \in Connectors \cup {""}
        /\ r.LoggedIn \in BOOLEAN /\ r.Claims \in Identity \cup {NoIdentity}
        /\ r.Expiry \in Nat
    BY DEF AuthRequest
  <1>3. r.LoggedIn <=> r.Claims \in Identity
    BY DEF AuthRequest
  <1> QED
    BY <1>0, <1>1, <1>2, <1>3

LEMMA ZeroType == ZeroRequest \in AuthRequest
  <1>1. "" \in Keys
    BY DEF Keys
  <1> QED
    BY <1>1, RequestType, NobodyLoggedIn DEF ZeroRequest

LEMMA LocalType ==
    ASSUME NEW key \in Keys, NEW conn \in Connectors \cup {""}, NEW authReq \in AuthRequest,
           NEW identity \in Identity \cup {NoIdentity}
    PROVE  Locals(key, conn, authReq, identity) \in Local
  BY DEF Locals, Local

LEMMA IdleType == NoLocal \in Local
  BY DEF NoLocal, Locals, Local, Keys

LEMMA CollectingType ==
    ASSUME NEW where \in {"wait", "requests", "codes"}, NEW at \in Nat,
           NEW rs \in SUBSET [key: Keys, ID: Keys], NEW is \in SUBSET CodeIDs,
           NEW failed \in BOOLEAN
    PROVE  Collecting(where, at, rs, is, failed) \in Collector
  BY DEF Collecting, Collector

LEMMA CollectorParts ==
    ASSUME NEW c \in Collector
    PROVE  /\ c.where \in {"wait", "requests", "codes"} /\ c.at \in Nat
           /\ c.requests \in SUBSET [key: Keys, ID: Keys] /\ c.codes \in SUBSET CodeIDs
           /\ c.failed \in BOOLEAN
  BY DEF Collector

LEMMA CollectingFields ==
    ASSUME NEW where, NEW at, NEW rs, NEW is, NEW failed
    PROVE  /\ Collecting(where, at, rs, is, failed).where = where
           /\ Collecting(where, at, rs, is, failed).at = at
           /\ Collecting(where, at, rs, is, failed).requests = rs
           /\ Collecting(where, at, rs, is, failed).codes = is
           /\ Collecting(where, at, rs, is, failed).failed = failed
  BY DEF Collecting

LEMMA WaitingWaits == Waiting.where = "wait"
  BY DEF Waiting, Collecting

\* The object an update starts from, if there is no error.
LEMMA CurrentType ==
    ASSUME RequestsOK, NEW k \in Keys
    PROVE  Current(k) \in AuthRequest
  BY ZeroType DEF Current, HasRequest, RequestsOK

LEMMA GotoMoves ==
    ASSUME ControlOK, NEW h \in Handlers, NEW label \in PCs, NEW l \in Local,
           Goto(h, label, l), SetAt(label, l)
    PROVE  ControlOK' /\ Moves(h, label, l)
  BY DEF Goto, ControlOK, Moves

LEMMA ReturnMoves ==
    ASSUME ControlOK, NEW h \in Handlers, Return(h)
    PROVE  ControlOK' /\ Moves(h, "idle", NoLocal)
  <1>1. SetAt("idle", NoLocal) /\ "idle" \in PCs
    BY DEF SetAt, PCs, Approving
  <1> QED
    BY <1>1, IdleType, GotoMoves DEF Return

-----------------------------------------------------------------------------
(***************************************************************************)
(* One lemma per action: the types are kept, and where the handler goes.   *)
(***************************************************************************)
LEMMA ServeLoginStep ==
    ASSUME TypeInv, NEW h \in Handlers, NEW k \in Keys, NEW c \in Connectors,
           NEW authReq \in AuthRequest, ServeLogin(h, k, c, authReq)
    PROVE  /\ ControlOK'
           /\ started' \in SUBSET [key: Keys, conn: Connectors]
           /\ \/ Moves(h, "idle", NoLocal)
              \/ \E u \in Users :
                    Moves(h, "finalize", Locals(k, c, authReq, [Connector |-> c, User |-> u]))
  <1>1. CASE Return(h) /\ started' \subseteq started \cup {[key |-> k, conn |-> c]}
    <2>1. [key |-> k, conn |-> c] \in [key: Keys, conn: Connectors]
      OBVIOUS
    <2>2. started' \in SUBSET [key: Keys, conn: Connectors]
      BY <1>1, <2>1 DEF TypeInv, HistoryOK
    <2> QED
      BY <1>1, <2>2, ReturnMoves DEF TypeInv
  <1>2. ASSUME NEW u \in Users, UNCHANGED started,
               Goto(h, "finalize", Locals(k, c, authReq, [Connector |-> c, User |-> u]))
        PROVE  /\ ControlOK' /\ started' \in SUBSET [key: Keys, conn: Connectors]
               /\ Moves(h, "finalize", Locals(k, c, authReq, [Connector |-> c, User |-> u]))
    <2> DEFINE l == Locals(k, c, authReq, [Connector |-> c, User |-> u])
    <2>1. [Connector |-> c, User |-> u] \in Identity
      BY DEF Identity
    <2>2. l \in Local /\ "finalize" \in PCs
      BY <2>1, LocalType DEF PCs
    <2>3. l.authReq = authReq /\ l.conn = c /\ l.identity = [Connector |-> c, User |-> u]
      BY SMTT(30), Z3T(30), LocalFields
    <2>4. SetAt("finalize", l)
      BY <2>1, <2>3 DEF SetAt, Approving
    <2> QED
      BY <1>2, <2>2, <2>4, GotoMoves DEF TypeInv, HistoryOK
  <1> QED
    BY <1>1, <1>2 DEF ServeLogin

LEMMA HandleAuthorizationStep ==
    ASSUME TypeInv, NEW k \in AuthReqs, HandleAuthorization(k)
    PROVE  TypeInv'
  <1>0. now \in Nat /\ k \in Keys
    BY DEF Keys, TypeInv, HistoryOK
  <1>1. now + ValidFor \in Nat
    BY SMTT(30), Z3T(30), <1>0, TimeAssumption
  <1>2. Request(k, "", FALSE, NoIdentity, now + ValidFor) \in AuthRequest
    BY <1>0, <1>1, RequestType, NobodyLoggedIn
  <1>3. RequestsOK'
    BY <1>2 DEF HandleAuthorization, TypeInv, RequestsOK
  <1> QED
    BY <1>3 DEF HandleAuthorization, TypeInv, ControlOK, CodesOK, CollectorsOK, HistoryOK

LEMMA HandleConnectorLoginStep ==
    ASSUME TypeInv, NEW h \in Handlers, NEW k \in Keys, NEW c \in Connectors,
           HandleConnectorLogin(h, k, c)
    PROVE  /\ TypeInv'
           /\ reqs[k] \in AuthRequest
           /\ \/ Moves(h, "idle", NoLocal)
              \/ Moves(h, "setConnector", Locals(k, c, reqs[k], NoIdentity))
              \/ \E u \in Users :
                    Moves(h, "finalize", Locals(k, c, reqs[k], [Connector |-> c, User |-> u]))
  <1>1. reqs[k] \in AuthRequest
    BY DEF HandleConnectorLogin, HasRequest, TypeInv, RequestsOK
  <1>2. CASE ServeLogin(h, k, c, reqs[k])
    BY <1>1, <1>2, ServeLoginStep
    DEF HandleConnectorLogin, TypeInv, RequestsOK, CodesOK, CollectorsOK, HistoryOK, store,
        history
  <1>3. CASE Goto(h, "setConnector", Locals(k, c, reqs[k], NoIdentity)) /\ UNCHANGED started
    <2> DEFINE l == Locals(k, c, reqs[k], NoIdentity)
    <2>1. l \in Local /\ "setConnector" \in PCs
      BY <1>1, LocalType DEF PCs
    <2>2. SetAt("setConnector", l)
      BY SMTT(30), Z3T(30), <1>1, LocalFields DEF SetAt, Approving
    <2>3. ControlOK' /\ Moves(h, "setConnector", l)
      BY <1>3, <2>1, <2>2, GotoMoves DEF TypeInv
    <2> QED
      BY <1>1, <1>3, <2>3
      DEF HandleConnectorLogin, TypeInv, RequestsOK, CodesOK, CollectorsOK, HistoryOK, store,
          history
  <1> QED
    BY <1>2, <1>3 DEF HandleConnectorLogin

LEMMA SetConnectorStep ==
    ASSUME TypeInv, NEW h \in Handlers, SetConnector(h)
    PROVE  /\ TypeInv'
           /\ loc[h].key \in Keys /\ loc[h].conn \in Connectors
           /\ loc[h].authReq \in AuthRequest
           /\ Current(loc[h].key) \in AuthRequest
           /\ \/ Moves(h, "idle", NoLocal)
              \/ \E u \in Users :
                    Moves(h, "finalize", Locals(loc[h].key, loc[h].conn, loc[h].authReq,
                                                [Connector |-> loc[h].conn, User |-> u]))
  <1> DEFINE k == loc[h].key
             c == loc[h].conn
             r == Current(k)
             new == Request(r.ID, c, r.LoggedIn, r.Claims, r.Expiry)
  <1>1. k \in Keys /\ c \in Connectors /\ loc[h].authReq \in AuthRequest
    BY DEF SetConnector, TypeInv, ControlOK, SetAt, Local
  <1>2. r \in AuthRequest
    BY <1>1, CurrentType DEF TypeInv
  <1>3. new \in AuthRequest
    BY <1>1, <1>2, RequestParts, RequestType
  <1>4. CASE /\ reqs' = [reqs EXCEPT ![k] = new]
             /\ chosen' = chosen \cup {[key |-> k, conn |-> c]}
             /\ ServeLogin(h, k, c, loc[h].authReq)
    <2>1. RequestsOK'
      BY <1>1, <1>3, <1>4 DEF TypeInv, RequestsOK
    <2>2. [key |-> k, conn |-> c] \in [key: Keys, conn: Connectors]
      BY <1>1
    <2>3. chosen' \in SUBSET [key: Keys, conn: Connectors]
      BY <1>4, <2>2 DEF TypeInv, HistoryOK
    <2> QED
      BY <1>1, <1>2, <1>4, <2>1, <2>3, ServeLoginStep
      DEF SetConnector, TypeInv, CodesOK, CollectorsOK, HistoryOK
  <1>5. CASE Return(h) /\ UNCHANGED <<reqs, started, chosen>>
    BY <1>1, <1>2, <1>5, ReturnMoves
    DEF SetConnector, TypeInv, RequestsOK, CodesOK, CollectorsOK, HistoryOK
  <1> QED
    BY <1>4, <1>5 DEF SetConnector

LEMMA HandleConnectorCallbackStep ==
    ASSUME TypeInv, NEW h \in Handlers, NEW k \in Keys, NEW c \in Connectors,
           HandleConnectorCallback(h, k, c)
    PROVE  /\ TypeInv'
           /\ reqs[k] \in AuthRequest
           /\ \E u \in Users :
                 Moves(h, "finalize", Locals(k, c, reqs[k], [Connector |-> c, User |-> u]))
  <1>1. reqs[k] \in AuthRequest
    BY DEF HandleConnectorCallback, HasRequest, TypeInv, RequestsOK
  <1>2. PICK u \in Users :
           Goto(h, "finalize", Locals(k, c, reqs[k], [Connector |-> c, User |-> u]))
    BY DEF HandleConnectorCallback
  <1> DEFINE l == Locals(k, c, reqs[k], [Connector |-> c, User |-> u])
  <1>3. [Connector |-> c, User |-> u] \in Identity
    BY DEF Identity
  <1>4. l \in Local /\ "finalize" \in PCs
    BY <1>1, <1>3, LocalType DEF PCs
  <1>5. l.authReq = reqs[k] /\ l.conn = c /\ l.identity = [Connector |-> c, User |-> u]
    BY SMTT(30), Z3T(30), LocalFields
  <1>6. SetAt("finalize", l)
    BY <1>1, <1>3, <1>5 DEF SetAt, Approving
  <1>7. ControlOK' /\ Moves(h, "finalize", l)
    BY <1>2, <1>4, <1>6, GotoMoves DEF TypeInv
  <1> QED
    BY <1>1, <1>7
    DEF HandleConnectorCallback, TypeInv, RequestsOK, CodesOK, CollectorsOK, HistoryOK,
        store, history

LEMMA FinalizeLoginStep ==
    ASSUME TypeInv, NEW h \in Handlers, FinalizeLogin(h)
    PROVE  /\ TypeInv'
           /\ loc[h].authReq \in AuthRequest /\ loc[h].authReq.ID \in Keys
           /\ loc[h].identity \in Identity
           /\ Current(loc[h].authReq.ID) \in AuthRequest
           /\ Moves(h, "idle", NoLocal)
  <1> DEFINE k == loc[h].authReq.ID
             r == Current(k)
             new == Request(r.ID, r.ConnectorID, TRUE, loc[h].identity, r.Expiry)
  <1>1. loc[h].authReq \in AuthRequest /\ loc[h].identity \in Identity
    BY DEF FinalizeLogin, TypeInv, ControlOK, SetAt
  <1>2. k \in Keys
    BY <1>1, RequestParts
  <1>3. r \in AuthRequest
    BY <1>2, CurrentType DEF TypeInv
  <1>4. new \in AuthRequest
    BY <1>1, <1>3, RequestParts, RequestType
  <1>5. RequestsOK'
    BY <1>2, <1>4 DEF FinalizeLogin, TypeInv, RequestsOK
  <1>6. logins' \in SUBSET [key: Keys, Claims: Identity \cup {NoIdentity}]
    <2>1. logins \in SUBSET [key: Keys, Claims: Identity \cup {NoIdentity}]
      BY DEF TypeInv, HistoryOK
    <2>2. [key |-> k, Claims |-> loc[h].identity]
            \in [key: Keys, Claims: Identity \cup {NoIdentity}]
      BY <1>1, <1>2
    <2>3. logins' \subseteq logins \cup {[key |-> k, Claims |-> loc[h].identity]}
      BY DEF FinalizeLogin
    <2> QED
      BY <2>1, <2>2, <2>3
  <1>7. ControlOK' /\ Moves(h, "idle", NoLocal)
    BY ReturnMoves DEF FinalizeLogin, TypeInv
  <1> QED
    BY <1>1, <1>2, <1>3, <1>5, <1>6, <1>7
    DEF FinalizeLogin, TypeInv, CodesOK, CollectorsOK, HistoryOK

LEMMA HandleApprovalStep ==
    ASSUME TypeInv, NEW h \in Handlers, NEW k \in Keys, HandleApproval(h, k)
    PROVE  /\ TypeInv'
           /\ reqs[k] \in AuthRequest
           /\ Moves(h, "delete", Locals(k, "", reqs[k], NoIdentity))
  <1> DEFINE l == Locals(k, "", reqs[k], NoIdentity)
  <1>1. reqs[k] \in AuthRequest
    BY DEF HandleApproval, HasRequest, TypeInv, RequestsOK
  <1>2. l \in Local /\ "delete" \in PCs
    BY <1>1, LocalType DEF PCs
  <1>3. l.authReq = reqs[k]
    BY DEF Locals
  <1>4. SetAt("delete", l)
    BY <1>1, <1>3 DEF SetAt, HandleApproval
  <1>5. ControlOK' /\ Moves(h, "delete", l)
    BY <1>2, <1>4, GotoMoves DEF HandleApproval, TypeInv
  <1> QED
    BY <1>1, <1>5
    DEF HandleApproval, TypeInv, RequestsOK, CodesOK, CollectorsOK, HistoryOK, store, history

LEMMA DeleteAuthRequestStep ==
    ASSUME TypeInv, NEW h \in Handlers, DeleteAuthRequest(h)
    PROVE  /\ TypeInv'
           /\ loc[h].authReq \in AuthRequest /\ loc[h].authReq.ID \in Keys
           /\ \/ /\ HasRequest(loc[h].authReq.ID)
                 /\ reqs' = [reqs EXCEPT ![loc[h].authReq.ID] = NoRequest]
                 /\ Moves(h, "create", loc[h]) \/ Moves(h, "respond", loc[h])
              \/ Moves(h, "idle", NoLocal) /\ reqs' = reqs
  <1> DEFINE k == loc[h].authReq.ID
  <1>1. loc[h].authReq \in AuthRequest /\ loc[h] \in Local
    BY DEF DeleteAuthRequest, TypeInv, ControlOK, SetAt
  <1>2. k \in Keys
    BY <1>1, RequestParts
  <1>3. SetAt("create", loc[h]) /\ SetAt("respond", loc[h])
    BY DEF DeleteAuthRequest, TypeInv, ControlOK, SetAt, Approving
  <1>4. CASE HasRequest(k)
    <2>1. RequestsOK'
      BY <1>2, <1>4 DEF DeleteAuthRequest, TypeInv, RequestsOK
    <2>2. PICK label \in {"create", "respond"} : Goto(h, label, loc[h])
      BY <1>4 DEF DeleteAuthRequest
    <2>3. ControlOK' /\ Moves(h, label, loc[h])
      BY <1>1, <1>3, <2>2, GotoMoves DEF TypeInv, PCs
    <2> QED
      BY <1>1, <1>2, <1>4, <2>1, <2>2, <2>3
      DEF DeleteAuthRequest, TypeInv, CodesOK, CollectorsOK, HistoryOK, history
  <1>5. CASE ~HasRequest(k)
    BY <1>1, <1>2, <1>5, ReturnMoves
    DEF DeleteAuthRequest, TypeInv, RequestsOK, CodesOK, CollectorsOK, HistoryOK, history
  <1> QED
    BY <1>4, <1>5

LEMMA CreateAuthCodeStep ==
    ASSUME TypeInv, NEW h \in Handlers, CreateAuthCode(h)
    PROVE  /\ TypeInv'
           /\ lastCode + 1 \in CodeIDs
           /\ Moves(h, "respond", loc[h])
  <1> DEFINE a == loc[h].authReq
             new == [ConnectorID |-> a.ConnectorID, Claims |-> a.Claims,
                     Expiry |-> now + CodeValidFor]
  <1>1. a \in AuthRequest /\ loc[h] \in Local /\ SetAt("respond", loc[h])
    BY DEF CreateAuthCode, TypeInv, ControlOK, SetAt, Approving
  <1>2. now \in Nat
    BY DEF TypeInv, HistoryOK
  <1>3. now + CodeValidFor \in Nat
    BY SMTT(30), Z3T(30), <1>2, TimeAssumption
  <1>4. new \in AuthCode
    BY <1>1, <1>3, RequestParts DEF AuthCode
  <1>5. lastCode + 1 \in CodeIDs /\ lastCode' \in 0 .. MaxCodes
    BY SMTT(30), Z3T(30), TimeAssumption DEF CreateAuthCode, TypeInv, CodesOK, CodeIDs
  <1>6. CodesOK'
    BY <1>4, <1>5 DEF CreateAuthCode, TypeInv, CodesOK
  <1>7. ControlOK' /\ Moves(h, "respond", loc[h])
    BY <1>1, GotoMoves DEF CreateAuthCode, TypeInv, PCs
  <1> QED
    BY <1>5, <1>6, <1>7 DEF CreateAuthCode, TypeInv, RequestsOK, CollectorsOK, HistoryOK

LEMMA RespondStep ==
    ASSUME TypeInv, NEW h \in Handlers, Respond(h)
    PROVE  /\ TypeInv'
           /\ loc[h].authReq \in AuthRequest /\ loc[h].authReq.ID \in Keys
           /\ Moves(h, "idle", NoLocal)
  <1>1. loc[h].authReq \in AuthRequest /\ loc[h].key \in Keys
    BY DEF Respond, TypeInv, ControlOK, SetAt, Local
  <1>2. loc[h].authReq.ID \in Keys
    BY <1>1, RequestParts
  <1>3. answered' \in [Keys -> Nat]
    <2>1. answered \in [Keys -> Nat]
      BY DEF TypeInv, HistoryOK
    <2>2. answered' = [answered EXCEPT ![loc[h].authReq.ID] = @ + 1]
      BY DEF Respond
    <2> QED
      BY SMTT(30), Z3T(30), <1>2, <2>1, <2>2
  <1>4. responses' \in SUBSET [key: Keys, ConnectorID: Connectors \cup {""},
                               Claims: Identity \cup {NoIdentity}]
    <2> DEFINE x == [key |-> loc[h].key, ConnectorID |-> loc[h].authReq.ConnectorID,
                     Claims |-> loc[h].authReq.Claims]
               X == [key: Keys, ConnectorID: Connectors \cup {""},
                     Claims: Identity \cup {NoIdentity}]
    <2>1. x \in X
      BY <1>1, RequestParts
    <2>2. responses' = responses \cup {x}
      BY DEF Respond
    <2>3. responses \in SUBSET X
      BY DEF TypeInv, HistoryOK
    <2> QED
      BY <2>1, <2>2, <2>3
  <1>5. ControlOK' /\ Moves(h, "idle", NoLocal)
    BY ReturnMoves DEF Respond, TypeInv
  <1> QED
    BY <1>1, <1>2, <1>3, <1>4, <1>5
    DEF Respond, TypeInv, RequestsOK, CodesOK, CollectorsOK, HistoryOK, store

LEMMA AbortStep ==
    ASSUME TypeInv, NEW h \in Handlers, Abort(h)
    PROVE  TypeInv' /\ Moves(h, "idle", NoLocal)
  BY ReturnMoves
  DEF Abort, TypeInv, RequestsOK, CodesOK, CollectorsOK, HistoryOK, store, history

LEMMA ExchangeCodeStep ==
    ASSUME TypeInv, NEW i \in CodeIDs, ExchangeCode(i)
    PROVE  TypeInv'
  BY DEF ExchangeCode, TypeInv, ControlOK, RequestsOK, CodesOK, CollectorsOK, HistoryOK

LEMMA TickStep == TypeInv /\ Tick => TypeInv'
  <1> SUFFICES ASSUME TypeInv, Tick PROVE TypeInv'
    OBVIOUS
  <1>1. now \in Nat /\ now' = now + 1
    BY DEF Tick, TypeInv, HistoryOK
  <1>2. now' \in Nat
    BY SMTT(30), Z3T(30), <1>1
  <1> QED
    BY <1>2
    DEF Tick, TypeInv, ControlOK, RequestsOK, CodesOK, CollectorsOK, HistoryOK, history

LEMMA StartCollectionStep ==
    ASSUME TypeInv, NEW g \in Collectors, StartCollection(g)
    PROVE  TypeInv'
  <1> DEFINE listed == {[key |-> k, ID |-> Named(k)] : k \in ExpiredRequests(now)}
  <1>1. \A k \in ExpiredRequests(now) : k \in Keys /\ Named(k) \in Keys
    BY RequestParts DEF ExpiredRequests, Named, HasRequest, TypeInv, RequestsOK
  <1>2. listed \in SUBSET [key: Keys, ID: Keys]
    BY SMTT(30), Z3T(30), <1>1
  <1>3. now \in Nat
    BY DEF TypeInv, HistoryOK
  <1>4. /\ Collecting("codes", now, {}, {}, FALSE) \in Collector
        /\ Collecting("requests", now, listed, {}, FALSE) \in Collector
    BY <1>2, <1>3, CollectingType
  <1>5. CollectorsOK'
    BY <1>4 DEF StartCollection, TypeInv, CollectorsOK
  <1>6. RequestsOK'
    BY DEF StartCollection, WithoutRequests, TypeInv, RequestsOK
  <1>7. CodesOK'
    BY DEF StartCollection, WithoutCodes, TypeInv, CodesOK, history
  <1> QED
    BY <1>5, <1>6, <1>7 DEF StartCollection, TypeInv, ControlOK, HistoryOK, history

LEMMA CollectRequestStep ==
    ASSUME TypeInv, NEW g \in Collectors, CollectRequest(g)
    PROVE  TypeInv'
  <1>1. PICK e \in gc[g].requests :
          /\ reqs' = [reqs EXCEPT ![e.ID] = NoRequest]
          /\ gc' = [gc EXCEPT ![g] =
                       Collecting("requests", gc[g].at, gc[g].requests \ {e}, {},
                                  gc[g].failed \/ ~HasRequest(e.ID))]
    BY DEF CollectRequest
  <1>2. /\ gc[g].at \in Nat /\ gc[g].requests \in SUBSET [key: Keys, ID: Keys]
        /\ (gc[g].failed \/ ~HasRequest(e.ID)) \in BOOLEAN
    BY CollectorParts DEF TypeInv, CollectorsOK
  <1>3. Collecting("requests", gc[g].at, gc[g].requests \ {e}, {},
                   gc[g].failed \/ ~HasRequest(e.ID)) \in Collector
    BY <1>2, CollectingType
  <1>4. CollectorsOK'
    BY <1>1, <1>3 DEF TypeInv, CollectorsOK
  <1>5. RequestsOK'
    BY <1>1 DEF TypeInv, RequestsOK
  <1> QED
    BY <1>4, <1>5 DEF CollectRequest, TypeInv, ControlOK, CodesOK, HistoryOK, history

LEMMA ListCodesStep ==
    ASSUME TypeInv, NEW g \in Collectors, ListCodes(g)
    PROVE  TypeInv'
  <1>1. gc[g].at \in Nat /\ ExpiredCodes(gc[g].at) \in SUBSET CodeIDs
    BY CollectorParts DEF TypeInv, CollectorsOK, ExpiredCodes
  <1>2. /\ Collecting("codes", gc[g].at, {}, ExpiredCodes(gc[g].at), FALSE) \in Collector
        /\ Waiting \in Collector
    BY <1>1, CollectingType DEF Waiting
  <1>3. CollectorsOK'
    BY <1>2 DEF ListCodes, TypeInv, CollectorsOK
  <1> QED
    BY <1>3
    DEF ListCodes, TypeInv, ControlOK, RequestsOK, CodesOK, HistoryOK, store, history

LEMMA CollectCodeStep ==
    ASSUME TypeInv, NEW g \in Collectors, CollectCode(g)
    PROVE  TypeInv'
  <1>1. PICK i \in gc[g].codes :
          /\ codes' = [codes EXCEPT ![i] = NoCode]
          /\ gc' = [gc EXCEPT ![g] =
                       Collecting("codes", gc[g].at, {}, gc[g].codes \ {i}, FALSE)]
    BY DEF CollectCode
  <1>2. gc[g].at \in Nat /\ gc[g].codes \in SUBSET CodeIDs
    BY CollectorParts DEF TypeInv, CollectorsOK
  <1>3. Collecting("codes", gc[g].at, {}, gc[g].codes \ {i}, FALSE) \in Collector
    BY <1>2, CollectingType
  <1>4. CollectorsOK'
    BY <1>1, <1>3 DEF TypeInv, CollectorsOK
  <1>5. CodesOK'
    BY <1>1 DEF CollectCode, TypeInv, CodesOK, history
  <1> QED
    BY <1>4, <1>5 DEF CollectCode, TypeInv, ControlOK, RequestsOK, HistoryOK, history

LEMMA EndCollectionStep ==
    ASSUME TypeInv, NEW g \in Collectors, EndCollection(g)
    PROVE  TypeInv'
  <1>1. Waiting \in Collector
    BY CollectingType DEF Waiting
  <1>2. CollectorsOK'
    BY <1>1 DEF EndCollection, TypeInv, CollectorsOK
  <1>3. CodesOK'
    BY DEF EndCollection, WithoutCodes, TypeInv, CodesOK, history
  <1> QED
    BY <1>2, <1>3 DEF EndCollection, TypeInv, ControlOK, RequestsOK, HistoryOK, history

LEMMA TypeStep == TypeInv /\ [Next]_vars => TypeInv'
  <1> SUFFICES ASSUME TypeInv, [Next]_vars PROVE TypeInv'
    OBVIOUS
  <1>1. CASE UNCHANGED vars
    BY <1>1 DEF TypeInv, ControlOK, RequestsOK, CodesOK, CollectorsOK, HistoryOK, vars,
                store, history
  <1>2. CASE Next
    BY <1>2, HandleAuthorizationStep, HandleConnectorLoginStep, SetConnectorStep,
       HandleConnectorCallbackStep, FinalizeLoginStep, HandleApprovalStep,
       DeleteAuthRequestStep, CreateAuthCodeStep, RespondStep, AbortStep,
       ExchangeCodeStep, TickStep, StartCollectionStep, CollectRequestStep,
       ListCodesStep, CollectCodeStep, EndCollectionStep
    DEF Next, Handle, GarbageCollect
  <1> QED
    BY <1>1, <1>2

LEMMA TypeInit == Init => TypeInv
  <1> SUFFICES ASSUME Init PROVE TypeInv
    OBVIOUS
  <1>1. ControlOK
    BY IdleType DEF Init, ControlOK, PCs, SetAt, Approving
  <1>2. CollectorsOK
    BY CollectingType DEF Init, CollectorsOK, Waiting
  <1>3. CodesOK
    BY SMTT(30), Z3T(30), TimeAssumption DEF Init, CodesOK
  <1> QED
    BY <1>1, <1>2, <1>3 DEF Init, TypeInv, RequestsOK, HistoryOK

\* Every variable keeps its type: in particular a stored request has Claims if
\* and only if it is LoggedIn.
THEOREM TypeCorrect == Spec => []TypeOK
  <1>1. TypeInv => TypeOK
    BY DEF TypeInv, TypeOK, ControlOK, RequestsOK, CodesOK, CollectorsOK, HistoryOK
  <1> QED
    BY <1>1, TypeInit, TypeStep, PTL DEF Spec

-----------------------------------------------------------------------------
(***************************************************************************)
(* Claims come from logins: a stored request that is LoggedIn, and one     *)
(* that is being approved, carry Claims some login wrote into it.          *)
(***************************************************************************)
StoredFromLogin ==
    \A k \in Keys : HasRequest(k) /\ reqs[k].LoggedIn =>
        [key |-> k, Claims |-> reqs[k].Claims] \in logins
ReadFromLogin ==
    \A h \in Handlers : pc[h] \in Approving =>
        [key |-> loc[h].key, Claims |-> loc[h].authReq.Claims] \in logins
ToldFromLogin == \A x \in responses : [key |-> x.key, Claims |-> x.Claims] \in logins
LoginInv == StoredFromLogin /\ ReadFromLogin /\ ToldFromLogin

\* What keeps LoginInv: nothing is logged in or approved, or answered, but by
\* what logins hold or LoginInv says they do.
LoginSteps ==
    /\ logins \subseteq logins'
    /\ \A k \in Keys : HasRequest(k)' /\ reqs'[k].LoggedIn =>
          \/ HasRequest(k) /\ reqs[k].LoggedIn /\ reqs'[k].Claims = reqs[k].Claims
          \/ [key |-> k, Claims |-> reqs'[k].Claims] \in logins'
    /\ \A h \in Handlers : pc'[h] \in Approving =>
          \/ pc[h] \in Approving /\ loc'[h] = loc[h]
          \/ [key |-> loc'[h].key, Claims |-> loc'[h].authReq.Claims] \in logins
    /\ \A x \in responses' :
          x \in responses \/ [key |-> x.key, Claims |-> x.Claims] \in logins

LEMMA LoginKept == LoginInv /\ LoginSteps => LoginInv'
  <1> SUFFICES ASSUME LoginInv, LoginSteps PROVE LoginInv'
    OBVIOUS
  <1>1. StoredFromLogin'
    <2> SUFFICES ASSUME NEW k \in Keys, HasRequest(k)', reqs'[k].LoggedIn
                 PROVE  [key |-> k, Claims |-> reqs'[k].Claims] \in logins'
      BY DEF StoredFromLogin
    <2> QED
      BY DEF LoginInv, StoredFromLogin, LoginSteps
  <1>2. ReadFromLogin'
    <2> SUFFICES ASSUME NEW h \in Handlers, pc'[h] \in Approving
                 PROVE  [key |-> loc'[h].key, Claims |-> loc'[h].authReq.Claims] \in logins'
      BY DEF ReadFromLogin
    <2> QED
      BY DEF LoginInv, ReadFromLogin, LoginSteps
  <1>3. ToldFromLogin'
    BY DEF LoginInv, ToldFromLogin, LoginSteps
  <1> QED
    BY <1>1, <1>2, <1>3 DEF LoginInv

\* A handler that does not go on to approve leaves what is being approved.
LEMMA MovesAway ==
    ASSUME NEW h \in Handlers, NEW label, NEW l, Moves(h, label, l), label \notin Approving
    PROVE  \A i \in Handlers : pc'[i] \in Approving =>
              /\ i # h /\ pc[i] \in Approving /\ loc'[i] = loc[i] /\ pc'[i] = pc[i]
  BY DEF Moves

LEMMA LoginHandlers == TypeInv /\ LoginInv /\ (\E h \in Handlers : Handle(h)) => LoginInv'
  <1> SUFFICES ASSUME TypeInv, LoginInv, NEW h \in Handlers, Handle(h) PROVE LoginInv'
    OBVIOUS
  <1>0. "idle" \notin Approving /\ "finalize" \notin Approving /\ "setConnector" \notin Approving
    BY DEF Approving
  <1>1. ASSUME NEW k \in Keys, NEW c \in Connectors,
               HandleConnectorLogin(h, k, c) \/ HandleConnectorCallback(h, k, c)
        PROVE  LoginInv'
    <2>1. \A i \in Handlers : pc'[i] \in Approving => pc[i] \in Approving /\ loc'[i] = loc[i]
      BY <1>0, <1>1, HandleConnectorLoginStep, HandleConnectorCallbackStep, MovesAway
    <2> QED
      BY <1>1, <2>1, LoginKept
      DEF LoginSteps, HandleConnectorLogin, HandleConnectorCallback, store, history, HasRequest
  <1>2. ASSUME NEW k \in Keys, HandleApproval(h, k)
        PROVE  LoginInv'
    <2>1. Moves(h, "delete", Locals(k, "", reqs[k], NoIdentity))
      BY <1>2, HandleApprovalStep
    <2>2. loc'[h].key = k /\ loc'[h].authReq = reqs[k]
      <3> DEFINE l == Locals(k, "", reqs[k], NoIdentity)
      <3>1. l.key = k /\ l.authReq = reqs[k]
        BY DEF Locals
      <3>2. loc'[h] = l
        BY <2>1 DEF Moves
      <3> HIDE DEF l
      <3> QED
        BY <3>1, <3>2
    <2>3. [key |-> k, Claims |-> reqs[k].Claims] \in logins
      BY <1>2 DEF HandleApproval, LoginInv, StoredFromLogin
    <2>4. \A i \in Handlers : pc'[i] \in Approving =>
             \/ pc[i] \in Approving /\ loc'[i] = loc[i]
             \/ [key |-> loc'[i].key, Claims |-> loc'[i].authReq.Claims] \in logins
      BY <2>1, <2>2, <2>3 DEF Moves
    <2> QED
      BY <1>2, <2>4, LoginKept DEF LoginSteps, HandleApproval, store, history, HasRequest
  <1>3. CASE SetConnector(h)
    <2> DEFINE k == loc[h].key
               r == Current(k)
               new == Request(r.ID, loc[h].conn, r.LoggedIn, r.Claims, r.Expiry)
    <2>1. \A i \in Handlers : pc'[i] \in Approving => pc[i] \in Approving /\ loc'[i] = loc[i]
      BY <1>0, <1>3, SetConnectorStep, MovesAway
    <2>2. reqs' = reqs \/ reqs' = [reqs EXCEPT ![k] = new]
      BY <1>3 DEF SetConnector
    <2>3. new.LoggedIn = r.LoggedIn /\ new.Claims = r.Claims
      BY DEF Request
    <2>4. r.LoggedIn => HasRequest(k) /\ r = reqs[k]
      <3>1. ZeroRequest.LoggedIn = FALSE
        BY DEF ZeroRequest, Request
      <3> QED
        BY <3>1 DEF Current
    <2>5. \A j \in Keys : HasRequest(j)' /\ reqs'[j].LoggedIn =>
             HasRequest(j) /\ reqs[j].LoggedIn /\ reqs'[j].Claims = reqs[j].Claims
      BY <2>2, <2>3, <2>4 DEF HasRequest, TypeInv, RequestsOK
    <2> QED
      BY <1>3, <2>1, <2>5, LoginKept DEF LoginSteps, SetConnector, history
  <1>4. CASE FinalizeLogin(h)
    <2> DEFINE k == loc[h].authReq.ID
               r == Current(k)
               new == Request(r.ID, r.ConnectorID, TRUE, loc[h].identity, r.Expiry)
    <2>1. \A i \in Handlers : pc'[i] \in Approving => pc[i] \in Approving /\ loc'[i] = loc[i]
      BY <1>0, <1>4, FinalizeLoginStep, MovesAway
    <2>2. \/ reqs' = reqs /\ logins' = logins
          \/ /\ reqs' = [reqs EXCEPT ![k] = new]
             /\ logins' = logins \cup {[key |-> k, Claims |-> loc[h].identity]}
      BY <1>4 DEF FinalizeLogin
    <2>3. new.Claims = loc[h].identity
      BY DEF Request
    <2>4. \A j \in Keys : HasRequest(j)' /\ reqs'[j].LoggedIn =>
             \/ HasRequest(j) /\ reqs[j].LoggedIn /\ reqs'[j].Claims = reqs[j].Claims
             \/ [key |-> j, Claims |-> reqs'[j].Claims] \in logins'
      BY <2>2, <2>3 DEF HasRequest, TypeInv, RequestsOK
    <2> QED
      BY <1>4, <2>1, <2>2, <2>4, LoginKept DEF LoginSteps, FinalizeLogin
  <1>5. CASE DeleteAuthRequest(h)
    <2>1. \A i \in Handlers : pc'[i] \in Approving => pc[i] \in Approving /\ loc'[i] = loc[i]
      BY <1>0, <1>5, DeleteAuthRequestStep, MovesAway DEF DeleteAuthRequest, Moves, Approving
    <2>2. \A k \in Keys : HasRequest(k)' => reqs'[k] = reqs[k] /\ HasRequest(k)
      BY <1>5, DeleteAuthRequestStep DEF HasRequest, TypeInv, RequestsOK
    <2> QED
      BY <1>5, <2>1, <2>2, LoginKept DEF LoginSteps, DeleteAuthRequest, history
  <1>6. CASE CreateAuthCode(h)
    <2>1. \A i \in Handlers : pc'[i] \in Approving => pc[i] \in Approving /\ loc'[i] = loc[i]
      BY <1>6, CreateAuthCodeStep DEF CreateAuthCode, Moves, Approving
    <2> QED
      BY <1>6, <2>1, LoginKept DEF LoginSteps, CreateAuthCode, HasRequest
  <1>7. CASE Respond(h)
    <2> DEFINE x == [key |-> loc[h].key, ConnectorID |-> loc[h].authReq.ConnectorID,
                     Claims |-> loc[h].authReq.Claims]
    <2>1. \A i \in Handlers : pc'[i] \in Approving => pc[i] \in Approving /\ loc'[i] = loc[i]
      BY <1>0, <1>7, RespondStep, MovesAway
    <2>2. [key |-> x.key, Claims |-> x.Claims] \in logins
      BY <1>7 DEF Respond, LoginInv, ReadFromLogin, Approving
    <2>3. responses' = responses \cup {x}
      BY <1>7 DEF Respond
    <2> QED
      BY <1>7, <2>1, <2>2, <2>3, LoginKept DEF LoginSteps, Respond, store, HasRequest
  <1>8. CASE Abort(h)
    <2>1. \A i \in Handlers : pc'[i] \in Approving => pc[i] \in Approving /\ loc'[i] = loc[i]
      BY <1>0, <1>8, AbortStep, MovesAway
    <2> QED
      BY <1>8, <2>1, LoginKept DEF LoginSteps, Abort, store, history, HasRequest
  <1> QED
    BY <1>1, <1>2, <1>3, <1>4, <1>5, <1>6, <1>7, <1>8 DEF Handle

LEMMA LoginStep == TypeInv /\ LoginInv /\ [Next]_vars => LoginInv'
  <1> SUFFICES ASSUME TypeInv, LoginInv, [Next]_vars PROVE LoginInv'
    OBVIOUS
  <1>1. ASSUME NEW k \in AuthReqs, HandleAuthorization(k) PROVE LoginInv'
    <2> DEFINE new == Request(k, "", FALSE, NoIdentity, now + ValidFor)
    <2>1. new.LoggedIn = FALSE
      BY DEF Request
    <2>2. \A j \in Keys : HasRequest(j)' /\ reqs'[j].LoggedIn =>
             HasRequest(j) /\ reqs'[j] = reqs[j]
      BY <1>1, <2>1 DEF HandleAuthorization, HasRequest, TypeInv, RequestsOK
    <2> QED
      BY <1>1, <2>2, LoginKept DEF LoginSteps, HandleAuthorization
  <1>2. ASSUME NEW g \in Collectors, GarbageCollect(g) PROVE LoginInv'
    <2>1. \A k \in Keys : HasRequest(k)' => reqs'[k] = reqs[k] /\ HasRequest(k)
      BY <1>2 DEF GarbageCollect, StartCollection, CollectRequest, ListCodes, CollectCode,
                  EndCollection, WithoutRequests, HasRequest, TypeInv, RequestsOK, store
    <2>2. UNCHANGED <<pc, loc, logins, responses>>
      BY <1>2 DEF GarbageCollect, StartCollection, CollectRequest, ListCodes, CollectCode,
                  EndCollection, history
    <2> QED
      BY <2>1, <2>2, LoginKept DEF LoginSteps
  <1>3. CASE Tick \/ UNCHANGED vars \/ \E i \in CodeIDs : ExchangeCode(i)
    BY <1>3, LoginKept DEF LoginSteps, Tick, ExchangeCode, vars, store, history, HasRequest
  <1> QED
    BY <1>1, <1>2, <1>3, LoginHandlers DEF Next

LEMMA LoginInit == Init => LoginInv
  BY DEF Init, LoginInv, StoredFromLogin, ReadFromLogin, ToldFromLogin, HasRequest, Approving

-----------------------------------------------------------------------------
(***************************************************************************)
(* One answer.  Unless updates create what is missing, an ID that was used *)
(* is in one place only: the request is stored, or one handler has deleted *)
(* it and is answering, or it is answered or lost.                         *)
(***************************************************************************)
KnownUsed ==
    /\ \A k \in Keys : HasRequest(k) => k \in used /\ reqs[k].ID = k
    /\ \A h \in Handlers : pc[h] # "idle" => loc[h].authReq.ID \in used
    /\ \A k \in Keys : k \notin used => answered[k] = 0
StoredUnanswered == \A k \in Keys : HasRequest(k) => answered[k] = 0
DeletedUnanswered ==
    \A h \in Handlers : pc[h] \in Answering =>
        ~HasRequest(loc[h].authReq.ID) /\ answered[loc[h].authReq.ID] = 0
AnsweringAlone ==
    \A h, i \in Handlers : pc[h] \in Answering /\ pc[i] \in Answering
                           /\ loc[h].authReq.ID = loc[i].authReq.ID => h = i
OnceInv ==
    backend # "etcd" => /\ KnownUsed /\ StoredUnanswered /\ DeletedUnanswered
                        /\ AnsweringAlone /\ \A k \in Keys : answered[k] =< 1

\* A step that stores no request anew, gets no handler to answer, and answers
\* nothing.
QuietStep ==
    /\ backend' = backend /\ answered' = answered /\ used' = used
    /\ \A k \in Keys : HasRequest(k)' => HasRequest(k) /\ reqs'[k].ID = reqs[k].ID
    /\ \A h \in Handlers :
          /\ pc'[h] # "idle" => loc'[h].authReq.ID \in used
          /\ pc'[h] \in Answering => pc[h] \in Answering /\ loc'[h] = loc[h]

LEMMA QuietKeeps == TypeInv /\ OnceInv /\ QuietStep => OnceInv'
  <1> SUFFICES ASSUME TypeInv, OnceInv, QuietStep, backend # "etcd"
               PROVE  /\ KnownUsed' /\ StoredUnanswered' /\ DeletedUnanswered'
                      /\ AnsweringAlone' /\ \A k \in Keys : answered'[k] =< 1
    BY DEF OnceInv, QuietStep
  <1> USE DEF OnceInv, QuietStep
  <1>1. KnownUsed'
    BY DEF KnownUsed
  <1>2. StoredUnanswered'
    BY DEF StoredUnanswered
  <1>3. DeletedUnanswered'
    <2> SUFFICES ASSUME NEW h \in Handlers, pc'[h] \in Answering
                 PROVE  /\ reqs'[loc'[h].authReq.ID] = NoRequest
                        /\ answered'[loc'[h].authReq.ID] = 0
      BY DEF DeletedUnanswered, HasRequest
    <2>1. /\ pc[h] \in Answering /\ loc'[h] = loc[h]
          /\ ~HasRequest(loc[h].authReq.ID) /\ answered[loc[h].authReq.ID] = 0
      BY DEF DeletedUnanswered
    <2>2. loc[h].authReq.ID \in Keys
      BY <2>1 DEF KnownUsed, Answering, TypeInv, HistoryOK, Keys
    <2> QED
      BY SMTT(30), Z3T(30), <2>1, <2>2 DEF HasRequest
  <1>4. AnsweringAlone'
    BY DEF AnsweringAlone
  <1> QED
    BY <1>1, <1>2, <1>3, <1>4

LEMMA AuthorizationOnce ==
    ASSUME TypeInv, OnceInv, NEW k \in AuthReqs, HandleAuthorization(k)
    PROVE  OnceInv'
  <1> SUFFICES ASSUME backend # "etcd"
               PROVE  /\ KnownUsed' /\ StoredUnanswered' /\ DeletedUnanswered'
                      /\ AnsweringAlone' /\ \A j \in Keys : answered'[j] =< 1
    BY DEF OnceInv, HandleAuthorization
  <1> DEFINE new == Request(k, "", FALSE, NoIdentity, now + ValidFor)
  <1>0. k \in Keys /\ k \notin used /\ used' = used \cup {k}
        /\ UNCHANGED <<pc, loc, answered>>
    BY DEF HandleAuthorization, Keys
  <1>1. reqs' = [reqs EXCEPT ![k] = new] /\ new.ID = k
    BY DEF HandleAuthorization, Request
  <1> HIDE DEF new
  <1>2. \A j \in Keys : j # k => (HasRequest(j)' <=> HasRequest(j)) /\ reqs'[j] = reqs[j]
    BY <1>1 DEF HasRequest, TypeInv, RequestsOK
  <1>3. reqs'[k] = new
    BY <1>0, <1>1 DEF TypeInv, RequestsOK
  <1>4. KnownUsed'
    BY SMTT(30), Z3T(30), <1>0, <1>1, <1>2, <1>3 DEF OnceInv, KnownUsed
  <1>5. StoredUnanswered'
    BY <1>0, <1>2 DEF OnceInv, KnownUsed, StoredUnanswered
  <1>6. DeletedUnanswered'
    <2> SUFFICES ASSUME NEW h \in Handlers, pc[h] \in Answering
                 PROVE  /\ ~HasRequest(loc[h].authReq.ID)'
                        /\ answered[loc[h].authReq.ID] = 0
      BY <1>0 DEF DeletedUnanswered, HasRequest
    <2>1. loc[h].authReq.ID \in used
      BY DEF OnceInv, KnownUsed, Answering
    <2>2. loc[h].authReq.ID \in Keys /\ loc[h].authReq.ID # k
      BY <1>0, <2>1 DEF TypeInv, HistoryOK, Keys
    <2>3. reqs'[loc[h].authReq.ID] = reqs[loc[h].authReq.ID]
      BY <1>2, <2>2
    <2> QED
      BY <1>0, <2>3 DEF OnceInv, DeletedUnanswered, HasRequest
  <1> QED
    BY <1>0, <1>4, <1>5, <1>6 DEF OnceInv, AnsweringAlone

LEMMA DeleteOnce ==
    ASSUME TypeInv, OnceInv, NEW h \in Handlers, DeleteAuthRequest(h)
    PROVE  OnceInv'
  <1> DEFINE k == loc[h].authReq.ID
  <1>0. /\ k \in Keys /\ pc[h] = "delete"
        /\ UNCHANGED <<backend, used, answered>>
    BY DeleteAuthRequestStep DEF DeleteAuthRequest, history
  <1>1. CASE Moves(h, "idle", NoLocal) /\ reqs' = reqs /\ backend # "etcd"
    <2>1. QuietStep
      BY <1>0, <1>1 DEF QuietStep, Moves, Answering, OnceInv, KnownUsed, HasRequest
    <2> QED
      BY <2>1, QuietKeeps
  <1>2. CASE /\ HasRequest(k) /\ reqs' = [reqs EXCEPT ![k] = NoRequest]
             /\ Moves(h, "create", loc[h]) \/ Moves(h, "respond", loc[h])
             /\ backend # "etcd"
    <2>1. /\ \A j \in Keys \ {k} : (HasRequest(j)' <=> HasRequest(j)) /\ reqs'[j] = reqs[j]
          /\ reqs'[k] = NoRequest
      BY <1>0, <1>2 DEF HasRequest, TypeInv, RequestsOK
    <2>2. /\ loc' = loc /\ pc'[h] \in Answering
          /\ \A i \in Handlers \ {h} : pc'[i] = pc[i]
      BY <1>2 DEF DeleteAuthRequest, Goto, Moves, Answering, TypeInv, ControlOK
    <2>3. \A i \in Handlers : pc[i] \in Answering => loc[i].authReq.ID # k
      BY <1>2 DEF OnceInv, DeletedUnanswered
    <2>4. k \in used /\ answered[k] = 0
      BY <1>0, <1>2 DEF OnceInv, KnownUsed, StoredUnanswered
    <2>5. KnownUsed'
      BY SMTT(30), Z3T(30), <1>0, <1>2, <2>1, <2>2, <2>4 DEF OnceInv, KnownUsed, HasRequest
    <2>6. StoredUnanswered'
      BY <1>0, <1>2, <2>1 DEF OnceInv, StoredUnanswered, HasRequest
    <2>7. DeletedUnanswered'
      <3> SUFFICES ASSUME NEW i \in Handlers, pc'[i] \in Answering
                   PROVE  reqs'[loc[i].authReq.ID] = NoRequest /\ answered[loc[i].authReq.ID] = 0
        BY <1>0, <2>2 DEF DeletedUnanswered, HasRequest
      <3>1. CASE i = h
        BY <2>1, <2>4, <3>1
      <3>2. CASE i # h
        <4>1. pc[i] \in Answering /\ loc[i].authReq.ID # k
          BY <2>2, <2>3, <3>2
        <4>2. /\ loc[i].authReq.ID \in Keys
              /\ ~HasRequest(loc[i].authReq.ID) /\ answered[loc[i].authReq.ID] = 0
          BY <1>2, <4>1 DEF OnceInv, KnownUsed, DeletedUnanswered, Answering, TypeInv, HistoryOK,
                            Keys
        <4> QED
          BY <2>1, <4>1, <4>2 DEF HasRequest
      <3> QED
        BY <3>1, <3>2
    <2>8. AnsweringAlone'
      BY <1>2, <2>2, <2>3 DEF OnceInv, AnsweringAlone
    <2> QED
      BY <1>0, <1>2, <2>5, <2>6, <2>7, <2>8 DEF OnceInv
  <1> QED
    BY <1>0, <1>1, <1>2, DeleteAuthRequestStep DEF OnceInv

LEMMA RespondOnce ==
    ASSUME TypeInv, OnceInv, NEW h \in Handlers, Respond(h)
    PROVE  OnceInv'
  <1> SUFFICES ASSUME backend # "etcd"
               PROVE  /\ KnownUsed' /\ StoredUnanswered' /\ DeletedUnanswered'
                      /\ AnsweringAlone' /\ \A k \in Keys : answered'[k] =< 1
    BY DEF OnceInv, Respond, store
  <1> DEFINE k == loc[h].authReq.ID
  <1>0. /\ k \in Keys /\ pc[h] \in Answering /\ Moves(h, "idle", NoLocal)
        /\ UNCHANGED <<reqs, used>>
    BY RespondStep DEF Respond, Answering, store
  <1>1. k \in used /\ ~HasRequest(k) /\ answered[k] = 0
    BY <1>0 DEF OnceInv, KnownUsed, DeletedUnanswered, Answering
  <1>2. answered'[k] = 1 /\ \A j \in Keys \ {k} : answered'[j] = answered[j]
    <2>1. answered' = [answered EXCEPT ![k] = @ + 1] /\ answered \in [Keys -> Nat]
      BY DEF Respond, TypeInv, HistoryOK
    <2>2. answered' = [answered EXCEPT ![k] = 1]
      BY SMTT(30), Z3T(30), <1>0, <1>1, <2>1
    <2> QED
      BY <1>0, <2>1, <2>2
  <1>3. \A i \in Handlers : pc'[i] # "idle" => i # h /\ pc[i] = pc'[i] /\ loc'[i] = loc[i]
    BY <1>0 DEF Moves
  <1>4. KnownUsed'
    BY SMTT(30), Z3T(30), <1>0, <1>1, <1>2, <1>3 DEF OnceInv, KnownUsed, HasRequest
  <1>5. StoredUnanswered'
    BY <1>0, <1>1, <1>2 DEF OnceInv, StoredUnanswered, HasRequest
  <1>6. DeletedUnanswered'
    <2> SUFFICES ASSUME NEW i \in Handlers, pc'[i] \in Answering
                 PROVE  /\ reqs[loc'[i].authReq.ID] = NoRequest
                        /\ answered'[loc'[i].authReq.ID] = 0
      BY <1>0 DEF DeletedUnanswered, HasRequest
    <2>1. i # h /\ pc[i] \in Answering /\ loc'[i] = loc[i]
      BY <1>3 DEF Answering
    <2>2. loc[i].authReq.ID # k
      BY <1>0, <2>1 DEF OnceInv, AnsweringAlone
    <2>3. /\ loc[i].authReq.ID \in Keys
          /\ ~HasRequest(loc[i].authReq.ID) /\ answered[loc[i].authReq.ID] = 0
      BY <2>1 DEF OnceInv, KnownUsed, DeletedUnanswered, Answering, TypeInv, HistoryOK, Keys
    <2> QED
      BY <1>2, <2>1, <2>2, <2>3 DEF HasRequest
  <1>7. AnsweringAlone'
    <2>1. \A i \in Handlers : pc'[i] \in Answering => pc[i] \in Answering /\ loc'[i] = loc[i]
      BY <1>3 DEF Answering
    <2> QED
      BY <2>1 DEF OnceInv, AnsweringAlone
  <1>8. \A j \in Keys : answered'[j] =< 1
    BY SMTT(30), Z3T(30), <1>2 DEF OnceInv
  <1> QED
    BY <1>4, <1>5, <1>6, <1>7, <1>8

\* What an update stores, without etcd, has the ID it had.
LEMMA UpdateKeepsID ==
    ASSUME TypeInv, NEW k \in Keys, HasRequest(k), NEW conn, NEW loggedIn, NEW claims,
           NEW expiry,
           reqs' = [reqs EXCEPT ![k] = Request(Current(k).ID, conn, loggedIn, claims, expiry)]
    PROVE  \A j \in Keys : HasRequest(j)' => HasRequest(j) /\ reqs'[j].ID = reqs[j].ID
  <1> DEFINE new == Request(Current(k).ID, conn, loggedIn, claims, expiry)
  <1>1. new.ID = reqs[k].ID
    BY DEF Request, Current
  <1>2. reqs' = [reqs EXCEPT ![k] = new]
    OBVIOUS
  <1> HIDE DEF new
  <1> QED
    BY <1>1, <1>2 DEF HasRequest, TypeInv, RequestsOK

LEMMA HandlersOnce ==
    TypeInv /\ OnceInv /\ backend # "etcd" /\ (\E h \in Handlers : Handle(h)) => OnceInv'
  <1> SUFFICES ASSUME TypeInv, OnceInv, backend # "etcd", NEW h \in Handlers, Handle(h)
               PROVE  OnceInv'
    OBVIOUS
  <1>0. /\ \A i \in Handlers : pc[i] # "idle" => loc[i].authReq.ID \in used
        /\ \A k \in Keys : HasRequest(k) => reqs[k].ID \in used
    BY DEF OnceInv, KnownUsed
  <1>1. ASSUME NEW label \in PCs \ Answering, NEW key, NEW conn, NEW r, NEW identity,
               Moves(h, label, Locals(key, conn, r, identity)), r.ID \in used
        PROVE  \A i \in Handlers :
                 /\ pc'[i] # "idle" => loc'[i].authReq.ID \in used
                 /\ pc'[i] \in Answering => pc[i] \in Answering /\ loc'[i] = loc[i]
    <2> DEFINE l == Locals(key, conn, r, identity)
    <2>1. l.authReq = r
      BY DEF Locals
    <2>2. Moves(h, label, l)
      BY <1>1
    <2> HIDE DEF l
    <2> QED
      BY <1>0, <1>1, <2>1, <2>2 DEF Moves
  <1>2. ASSUME Moves(h, "idle", NoLocal)
        PROVE  \A i \in Handlers :
                 /\ pc'[i] # "idle" => loc'[i].authReq.ID \in used
                 /\ pc'[i] \in Answering => pc[i] \in Answering /\ loc'[i] = loc[i]
    BY <1>0, <1>2 DEF Moves, Answering
  <1>l. "finalize" \in PCs \ Answering /\ "setConnector" \in PCs \ Answering
        /\ "delete" \in PCs \ Answering
    BY DEF PCs, Answering
  <1>3. ASSUME NEW k \in Keys, NEW c \in Connectors, HandleConnectorLogin(h, k, c)
        PROVE  OnceInv'
    <2>1. reqs[k].ID \in used
      BY <1>0, <1>3 DEF HandleConnectorLogin
    <2>2. \A i \in Handlers :
             /\ pc'[i] # "idle" => loc'[i].authReq.ID \in used
             /\ pc'[i] \in Answering => pc[i] \in Answering /\ loc'[i] = loc[i]
      BY <1>1, <1>2, <1>l, <1>3, <2>1, HandleConnectorLoginStep
    <2>3. QuietStep
      BY <1>3, <2>2 DEF QuietStep, HandleConnectorLogin, store, history, HasRequest
    <2> QED
      BY <2>3, QuietKeeps
  <1>4. ASSUME NEW k \in Keys, NEW c \in Connectors, HandleConnectorCallback(h, k, c)
        PROVE  OnceInv'
    <2>1. reqs[k].ID \in used
      BY <1>0, <1>4 DEF HandleConnectorCallback
    <2>2. \A i \in Handlers :
             /\ pc'[i] # "idle" => loc'[i].authReq.ID \in used
             /\ pc'[i] \in Answering => pc[i] \in Answering /\ loc'[i] = loc[i]
      BY <1>1, <1>l, <1>4, <2>1, HandleConnectorCallbackStep
    <2>3. QuietStep
      BY <1>4, <2>2 DEF QuietStep, HandleConnectorCallback, store, history, HasRequest
    <2> QED
      BY <2>3, QuietKeeps
  <1>5. ASSUME NEW k \in Keys, HandleApproval(h, k)
        PROVE  OnceInv'
    <2>1. reqs[k].ID \in used
      BY <1>0, <1>5 DEF HandleApproval
    <2>2. \A i \in Handlers :
             /\ pc'[i] # "idle" => loc'[i].authReq.ID \in used
             /\ pc'[i] \in Answering => pc[i] \in Answering /\ loc'[i] = loc[i]
      BY <1>1, <1>l, <1>5, <2>1, HandleApprovalStep
    <2>3. QuietStep
      BY <1>5, <2>2 DEF QuietStep, HandleApproval, store, history, HasRequest
    <2> QED
      BY <2>3, QuietKeeps
  <1>6. CASE SetConnector(h)
    <2>1. loc[h].authReq.ID \in used /\ loc[h].key \in Keys
      BY <1>0, <1>6, SetConnectorStep DEF SetConnector
    <2>2. \A i \in Handlers :
             /\ pc'[i] # "idle" => loc'[i].authReq.ID \in used
             /\ pc'[i] \in Answering => pc[i] \in Answering /\ loc'[i] = loc[i]
      BY <1>1, <1>2, <1>l, <1>6, <2>1, SetConnectorStep
    <2>3. \A k \in Keys : HasRequest(k)' => HasRequest(k) /\ reqs'[k].ID = reqs[k].ID
      <3>1. CASE reqs' = reqs
        BY <3>1 DEF HasRequest
      <3>2. CASE reqs' # reqs
        BY <1>6, <2>1, <3>2, UpdateKeepsID DEF SetConnector, Updatable
      <3> QED
        BY <3>1, <3>2
    <2>4. QuietStep
      BY <1>6, <2>2, <2>3 DEF QuietStep, SetConnector, history
    <2> QED
      BY <2>4, QuietKeeps
  <1>7. CASE FinalizeLogin(h)
    <2>1. loc[h].authReq.ID \in Keys
      BY <1>7, FinalizeLoginStep
    <2>2. \A i \in Handlers :
             /\ pc'[i] # "idle" => loc'[i].authReq.ID \in used
             /\ pc'[i] \in Answering => pc[i] \in Answering /\ loc'[i] = loc[i]
      BY <1>2, <1>7, FinalizeLoginStep
    <2>3. \A k \in Keys : HasRequest(k)' => HasRequest(k) /\ reqs'[k].ID = reqs[k].ID
      <3>1. CASE reqs' = reqs
        BY <3>1 DEF HasRequest
      <3>2. CASE reqs' # reqs
        BY <1>7, <2>1, <3>2, UpdateKeepsID DEF FinalizeLogin, Updatable
      <3> QED
        BY <3>1, <3>2
    <2>4. QuietStep
      BY <1>7, <2>2, <2>3 DEF QuietStep, FinalizeLogin
    <2> QED
      BY <2>4, QuietKeeps
  <1>8. CASE CreateAuthCode(h)
    <2>1. Moves(h, "respond", loc[h]) /\ pc[h] = "create"
      BY <1>8, CreateAuthCodeStep DEF CreateAuthCode
    <2>2. QuietStep
      BY <1>0, <1>8, <2>1 DEF QuietStep, CreateAuthCode, Moves, Answering, HasRequest
    <2> QED
      BY <2>2, QuietKeeps
  <1>9. CASE Abort(h)
    <2>1. QuietStep
      BY <1>2, <1>9, AbortStep DEF QuietStep, Abort, store, history, HasRequest
    <2> QED
      BY <2>1, QuietKeeps
  <1> QED
    BY <1>3, <1>4, <1>5, <1>6, <1>7, <1>8, <1>9, DeleteOnce, RespondOnce DEF Handle

LEMMA OnceStep == TypeInv /\ OnceInv /\ [Next]_vars => OnceInv'
  <1> SUFFICES ASSUME TypeInv, OnceInv, [Next]_vars PROVE OnceInv'
    OBVIOUS
  <1>0. backend' = backend
    <2>1. ASSUME NEW h \in Handlers, Handle(h) PROVE backend' = backend
      <3>1. ASSUME NEW k \in Keys, NEW c \in Connectors,
                   HandleConnectorLogin(h, k, c) \/ HandleConnectorCallback(h, k, c)
            PROVE  backend' = backend
        BY <3>1 DEF HandleConnectorLogin, HandleConnectorCallback, store
      <3>2. ASSUME NEW k \in Keys, HandleApproval(h, k) PROVE backend' = backend
        BY <3>2 DEF HandleApproval, store
      <3>3. ASSUME SetConnector(h) \/ FinalizeLogin(h) \/ DeleteAuthRequest(h)
            PROVE  backend' = backend
        BY <3>3 DEF SetConnector, FinalizeLogin, DeleteAuthRequest, store
      <3>4. ASSUME CreateAuthCode(h) \/ Respond(h) \/ Abort(h) PROVE backend' = backend
        BY <3>4 DEF CreateAuthCode, Respond, Abort, store
      <3> QED
        BY <2>1, <3>1, <3>2, <3>3, <3>4 DEF Handle
    <2>2. ASSUME NEW g \in Collectors, GarbageCollect(g) PROVE backend' = backend
      BY <2>2 DEF GarbageCollect, StartCollection, CollectRequest, ListCodes, CollectCode,
                  EndCollection, store
    <2>3. ASSUME NEW k \in AuthReqs, HandleAuthorization(k) PROVE backend' = backend
      BY <2>3 DEF HandleAuthorization
    <2>4. ASSUME NEW i \in CodeIDs, ExchangeCode(i) PROVE backend' = backend
      BY <2>4 DEF ExchangeCode
    <2>5. ASSUME Tick \/ UNCHANGED vars PROVE backend' = backend
      BY <2>5 DEF Tick, vars, store
    <2> QED
      BY <2>1, <2>2, <2>3, <2>4, <2>5 DEF Next
  <1> SUFFICES ASSUME backend # "etcd" PROVE OnceInv'
    BY <1>0 DEF OnceInv
  <1>1. ASSUME NEW g \in Collectors, GarbageCollect(g) PROVE OnceInv'
    <2>1. \A k \in Keys : HasRequest(k)' => reqs'[k] = reqs[k] /\ HasRequest(k)
      BY <1>1 DEF GarbageCollect, StartCollection, CollectRequest, ListCodes, CollectCode,
                  EndCollection, WithoutRequests, HasRequest, TypeInv, RequestsOK, store
    <2>2. UNCHANGED <<pc, loc, answered, used>>
      BY <1>1 DEF GarbageCollect, StartCollection, CollectRequest, ListCodes, CollectCode,
                  EndCollection, history
    <2>3. QuietStep
      BY <1>0, <2>1, <2>2 DEF QuietStep, OnceInv, KnownUsed
    <2> QED
      BY <2>3, QuietKeeps
  <1>2. CASE Tick \/ UNCHANGED vars \/ \E i \in CodeIDs : ExchangeCode(i)
    <2>1. UNCHANGED <<pc, loc, reqs, answered, used>>
      BY <1>2 DEF Tick, ExchangeCode, vars, store, history
    <2>2. QuietStep
      BY <1>0, <2>1 DEF QuietStep, OnceInv, KnownUsed, HasRequest
    <2> QED
      BY <2>2, QuietKeeps
  <1> QED
    BY <1>1, <1>2, HandlersOnce, AuthorizationOnce DEF Next

\* A client is answered at most once for each request: no interleaving of
\* approvals, logins, collectors and crashes gets two handlers past the delete.
THEOREM AnsweredOnce == Spec => []ResponseOnce
  <1>1. Init => OnceInv
    BY SMTT(30), Z3T(30)
    DEF Init, OnceInv, KnownUsed, StoredUnanswered, DeletedUnanswered, AnsweringAlone,
           HasRequest, Answering
  <1>2. OnceInv => ResponseOnce
    BY DEF OnceInv, ResponseOnce
  <1> QED
    BY <1>1, <1>2, TypeInit, TypeStep, OnceStep, PTL DEF Spec

-----------------------------------------------------------------------------
(***************************************************************************)
(* Collectors.  What a collector has listed stays expired, or is gone: IDs *)
(* are not used again, and what etcd makes up has expired from the start.  *)
(***************************************************************************)
Known == used \cup {""}
StoredKnown ==
    \A k \in Keys : HasRequest(k) =>
        /\ k \in Known
        /\ \/ reqs[k].ID = "" /\ reqs[k].Expiry = 0
           \/ reqs[k].ID = k /\ k \in used
ReadKnown ==
    \A h \in Handlers : pc[h] # "idle" => loc[h].key \in Known /\ loc[h].authReq.ID \in Known
CodesNumbered == \A i \in CodeIDs : HasCode(i) => i =< lastCode

\* What collector c has listed has expired by the time it was called with.
Listed(c) ==
    /\ 1 =< c.at /\ c.at =< now
    /\ \A e \in c.requests :
          e.ID \in Known /\ (HasRequest(e.ID) => reqs[e.ID].Expiry < c.at)
    /\ \A i \in c.codes : i =< lastCode /\ (HasCode(i) => codes[i].Expiry < c.at)

ListInv ==
    /\ StoredKnown /\ ReadKnown /\ CodesNumbered /\ 1 =< now
    /\ \A g \in Collectors : gc[g].where # "wait" => Listed(gc[g])

\* A step that adds only what is new or expired.
Grows ==
    /\ used \subseteq used' /\ now' \in Nat /\ now =< now'
    /\ lastCode' \in Nat /\ lastCode =< lastCode'
    /\ \A k \in Keys : HasRequest(k)' =>
          \/ HasRequest(k) /\ reqs'[k].Expiry = reqs[k].Expiry
          \/ reqs'[k].Expiry = 0
          \/ k \notin Known
    /\ \A i \in CodeIDs : HasCode(i)' =>
          (HasCode(i) /\ codes'[i] = codes[i]) \/ (lastCode < i /\ i =< lastCode')

LEMMA Numbers ==
    ASSUME TypeInv
    PROVE  /\ now \in Nat /\ lastCode \in Nat
           /\ \A k \in Keys : HasRequest(k) => reqs[k] \in AuthRequest /\ reqs[k].Expiry \in Nat
           /\ \A i \in CodeIDs : i \in Nat /\ (HasCode(i) => codes[i].Expiry \in Nat)
           /\ \A g \in Collectors :
                 /\ gc[g].at \in Nat /\ gc[g].codes \subseteq CodeIDs
                 /\ \A e \in gc[g].requests : e.ID \in Keys
  <1>1. now \in Nat /\ lastCode \in Nat /\ \A i \in CodeIDs : i \in Nat
    <2>1. now \in Nat
      BY DEF TypeInv, HistoryOK
    <2>2. lastCode \in 0 .. MaxCodes
      BY DEF TypeInv, CodesOK
    <2> QED
      BY SMTT(30), Z3T(30), <2>1, <2>2, TimeAssumption DEF CodeIDs
  <1>2. \A k \in Keys : HasRequest(k) => reqs[k] \in AuthRequest /\ reqs[k].Expiry \in Nat
    BY RequestParts DEF TypeInv, RequestsOK, HasRequest
  <1>3. \A i \in CodeIDs : HasCode(i) => codes[i].Expiry \in Nat
    BY DEF TypeInv, CodesOK, HasCode, AuthCode
  <1>4. \A g \in Collectors : /\ gc[g].at \in Nat /\ gc[g].codes \subseteq CodeIDs
                              /\ \A e \in gc[g].requests : e.ID \in Keys
    BY SMTT(30), Z3T(30), CollectorParts DEF TypeInv, CollectorsOK
  <1> QED
    BY <1>1, <1>2, <1>3, <1>4

\* What a collector has listed stays listed, whatever the others do, and so
\* does what it has left of its list.
LEMMA ListKept ==
    ASSUME TypeInv, TypeInv', Grows, NEW g \in Collectors, NEW c, Listed(gc[g]),
           c.at = gc[g].at, c.requests \subseteq gc[g].requests, c.codes \subseteq gc[g].codes
    PROVE  /\ 1 =< c.at /\ c.at =< now'
           /\ \A e \in c.requests :
                 e.ID \in Known' /\ (HasRequest(e.ID)' => reqs'[e.ID].Expiry < c.at)
           /\ \A i \in c.codes : i =< lastCode' /\ (HasCode(i)' => codes'[i].Expiry < c.at)
  <1>1. 1 =< c.at /\ c.at =< now' /\ c.at \in Nat
    BY SMTT(30), Z3T(30), Numbers DEF Listed, Grows
  <1>2. ASSUME NEW e \in c.requests
        PROVE  e.ID \in Known' /\ (HasRequest(e.ID)' => reqs'[e.ID].Expiry < c.at)
    <2>1. e.ID \in Keys /\ e.ID \in Known /\ (HasRequest(e.ID) => reqs[e.ID].Expiry < c.at)
      BY Numbers DEF Listed
    <2>2. e.ID \in Known'
      BY <2>1 DEF Grows, Known
    <2> QED
      BY SMTT(30), Z3T(30), <1>1, <2>1, <2>2 DEF Grows
  <1>3. ASSUME NEW i \in c.codes
        PROVE  i =< lastCode' /\ (HasCode(i)' => codes'[i].Expiry < c.at)
    <2>1. i \in CodeIDs /\ i =< lastCode /\ (HasCode(i) => codes[i].Expiry < c.at)
      BY Numbers DEF Listed
    <2>2. i \in Nat /\ lastCode \in Nat /\ lastCode' \in Nat /\ lastCode =< lastCode'
      BY <2>1, Numbers DEF Grows
    <2>3. i =< lastCode' /\ ~(lastCode < i)
      BY SMTT(30), Z3T(30), <2>1, <2>2
    <2> QED
      BY <2>1, <2>3 DEF Grows
  <1> QED
    BY <1>1, <1>2, <1>3

\* What is left to show of a step that leaves the collectors alone.
LEMMA GrowsKeeps ==
    ASSUME TypeInv, TypeInv', ListInv, Grows, UNCHANGED gc, StoredKnown', ReadKnown'
    PROVE  ListInv'
  <1>1. CodesNumbered'
    <2> SUFFICES ASSUME NEW i \in CodeIDs, HasCode(i)' PROVE i =< lastCode'
      BY DEF CodesNumbered
    <2>1. i \in Nat /\ lastCode \in Nat /\ lastCode' \in Nat /\ lastCode =< lastCode'
      BY Numbers DEF Grows
    <2>2. (HasCode(i) /\ i =< lastCode) \/ i =< lastCode'
      BY DEF Grows, ListInv, CodesNumbered
    <2> QED
      BY SMTT(30), Z3T(30), <2>1, <2>2
  <1>2. 1 =< now'
    BY SMTT(30), Z3T(30), Numbers DEF Grows, ListInv
  <1>3. ASSUME NEW g \in Collectors, gc'[g].where # "wait" PROVE Listed(gc[g])'
    <2>1. Listed(gc[g])
      BY <1>3 DEF ListInv
    <2> QED
      BY <2>1, ListKept DEF Listed
  <1> QED
    BY <1>1, <1>2, <1>3 DEF ListInv

\* The handler that moves knows what it has read.
LEMMA MovesKnown ==
    ASSUME ReadKnown, used \subseteq used', NEW h \in Handlers, NEW label, NEW key, NEW conn,
           NEW r, NEW identity, key \in Known, r.ID \in Known,
           Moves(h, label, Locals(key, conn, r, identity))
    PROVE  ReadKnown'
  <1> DEFINE l == Locals(key, conn, r, identity)
  <1>1. l.key = key /\ l.authReq = r
    BY DEF Locals
  <1>2. Moves(h, label, l)
    OBVIOUS
  <1> HIDE DEF l
  <1> QED
    BY <1>1, <1>2 DEF Moves, ReadKnown, Known

LEMMA ReturnKnown ==
    ASSUME ReadKnown, used \subseteq used', NEW h \in Handlers, Moves(h, "idle", NoLocal)
    PROVE  ReadKnown'
  BY DEF Moves, ReadKnown, Known

\* An update of a known key leaves ID and Expiry, or makes up what has expired.
LEMMA UpdateKnown ==
    ASSUME TypeInv, StoredKnown, NEW k \in Keys, k \in Known, used' = used,
           NEW conn, NEW loggedIn, NEW claims,
           reqs' = [reqs EXCEPT ![k] = Request(Current(k).ID, conn, loggedIn, claims,
                                               Current(k).Expiry)]
    PROVE  /\ StoredKnown'
           /\ \A j \in Keys : HasRequest(j)' =>
                 \/ HasRequest(j) /\ reqs'[j].Expiry = reqs[j].Expiry
                 \/ reqs'[j].Expiry = 0
  <1> DEFINE new == Request(Current(k).ID, conn, loggedIn, claims, Current(k).Expiry)
  <1>1. new.ID = Current(k).ID /\ new.Expiry = Current(k).Expiry
    BY DEF Request
  <1>2. ZeroRequest.ID = "" /\ ZeroRequest.Expiry = 0
    BY DEF ZeroRequest, Request
  <1>3. reqs' = [reqs EXCEPT ![k] = new]
    OBVIOUS
  <1> HIDE DEF new
  <1>4. /\ HasRequest(k) => new.ID = reqs[k].ID /\ new.Expiry = reqs[k].Expiry
        /\ ~HasRequest(k) => new.ID = "" /\ new.Expiry = 0
    BY <1>1, <1>2 DEF Current
  <1>5. reqs'[k] = new /\ \A j \in Keys \ {k} : reqs'[j] = reqs[j]
    BY <1>3 DEF TypeInv, RequestsOK
  <1>6. StoredKnown'
    BY <1>4, <1>5 DEF StoredKnown, HasRequest, Known
  <1> QED
    BY <1>4, <1>5, <1>6 DEF HasRequest

LEMMA ListHandlers ==
    TypeInv /\ TypeInv' /\ ListInv /\ (\E h \in Handlers : Handle(h)) => ListInv'
  <1> SUFFICES ASSUME TypeInv, TypeInv', ListInv, NEW h \in Handlers, Handle(h) PROVE ListInv'
    OBVIOUS
  <1>0. /\ now \in Nat /\ lastCode \in Nat /\ lastCode' \in Nat
        /\ StoredKnown /\ ReadKnown /\ CodesNumbered
    BY SMTT(30), Z3T(30), Numbers DEF ListInv, TypeInv, CodesOK
  <1>1. \A k \in Keys : HasRequest(k) => k \in Known /\ reqs[k].ID \in Known
    BY <1>0 DEF StoredKnown, Known
  <1>2. ASSUME UNCHANGED <<now, reqs, codes, gc, used, lastCode>>, ReadKnown'
        PROVE  ListInv'
    <2>1. Grows /\ StoredKnown'
      <3>1. now' \in Nat /\ now =< now' /\ lastCode =< lastCode'
        BY SMTT(30), Z3T(30), <1>0, <1>2
      <3>2. Grows
        BY <3>1, <1>0, <1>2 DEF Grows, HasRequest, HasCode
      <3>3. StoredKnown'
        BY <1>0, <1>2 DEF StoredKnown, Known, HasRequest
      <3> QED
        BY <3>2, <3>3
    <2> QED
      BY <1>2, <2>1, GrowsKeeps
  <1>3. ASSUME NEW k \in Keys, NEW c \in Connectors, HandleConnectorLogin(h, k, c)
        PROVE  ListInv'
    <2>1. UNCHANGED <<now, reqs, codes, gc, used, lastCode>> /\ HasRequest(k)
      BY <1>3 DEF HandleConnectorLogin, store, history
    <2>2. ReadKnown'
      BY <1>0, <1>1, <1>3, <2>1, HandleConnectorLoginStep, MovesKnown, ReturnKnown
    <2> QED
      BY <1>2, <2>1, <2>2
  <1>4. ASSUME NEW k \in Keys, NEW c \in Connectors, HandleConnectorCallback(h, k, c)
        PROVE  ListInv'
    <2>1. UNCHANGED <<now, reqs, codes, gc, used, lastCode>> /\ HasRequest(k)
      BY <1>4 DEF HandleConnectorCallback, store, history
    <2>2. ReadKnown'
      BY <1>0, <1>1, <1>4, <2>1, HandleConnectorCallbackStep, MovesKnown
    <2> QED
      BY <1>2, <2>1, <2>2
  <1>5. ASSUME NEW k \in Keys, HandleApproval(h, k)
        PROVE  ListInv'
    <2>1. UNCHANGED <<now, reqs, codes, gc, used, lastCode>> /\ HasRequest(k)
      BY <1>5 DEF HandleApproval, store, history
    <2>2. ReadKnown'
      BY <1>0, <1>1, <1>5, <2>1, HandleApprovalStep, MovesKnown
    <2> QED
      BY <1>2, <2>1, <2>2
  <1>6. CASE SetConnector(h)
    <2>1. /\ UNCHANGED <<now, codes, gc, used, lastCode>>
          /\ loc[h].key \in Keys /\ loc[h].key \in Known /\ loc[h].authReq.ID \in Known
      BY <1>0, <1>6, SetConnectorStep DEF SetConnector, history, ReadKnown
    <2>2. ReadKnown'
      BY <1>0, <1>6, <2>1, SetConnectorStep, MovesKnown, ReturnKnown
    <2>3. CASE reqs' = reqs
      BY <1>2, <2>1, <2>2, <2>3
    <2>4. CASE reqs' # reqs
      <3>1. /\ StoredKnown'
            /\ \A j \in Keys : HasRequest(j)' =>
                  \/ HasRequest(j) /\ reqs'[j].Expiry = reqs[j].Expiry
                  \/ reqs'[j].Expiry = 0
        BY <1>0, <1>6, <2>1, <2>4, UpdateKnown DEF SetConnector
      <3>2. Grows
        BY SMTT(30), Z3T(30), <1>0, <2>1, <3>1 DEF Grows, HasCode
      <3> QED
        BY <2>1, <2>2, <3>1, <3>2, GrowsKeeps
    <2> QED
      BY <2>3, <2>4
  <1>7. CASE FinalizeLogin(h)
    <2>1. /\ UNCHANGED <<now, codes, gc, used, lastCode>>
          /\ loc[h].authReq.ID \in Keys /\ loc[h].authReq.ID \in Known
      BY <1>0, <1>7, FinalizeLoginStep DEF FinalizeLogin, ReadKnown
    <2>2. ReadKnown'
      BY <1>0, <1>7, <2>1, FinalizeLoginStep, ReturnKnown
    <2>3. CASE reqs' = reqs
      BY <1>2, <2>1, <2>2, <2>3
    <2>4. CASE reqs' # reqs
      <3>1. /\ StoredKnown'
            /\ \A j \in Keys : HasRequest(j)' =>
                  \/ HasRequest(j) /\ reqs'[j].Expiry = reqs[j].Expiry
                  \/ reqs'[j].Expiry = 0
        BY <1>0, <1>7, <2>1, <2>4, UpdateKnown DEF FinalizeLogin
      <3>2. Grows
        BY SMTT(30), Z3T(30), <1>0, <2>1, <3>1 DEF Grows, HasCode
      <3> QED
        BY <2>1, <2>2, <3>1, <3>2, GrowsKeeps
    <2> QED
      BY <2>3, <2>4
  <1>8. CASE DeleteAuthRequest(h)
    <2>1. UNCHANGED <<now, codes, gc, used, lastCode>> /\ pc[h] = "delete"
      BY <1>8 DEF DeleteAuthRequest, history
    <2>2. ReadKnown'
      BY <1>0, <1>8, <2>1, DeleteAuthRequestStep, ReturnKnown DEF Moves, ReadKnown, Known
    <2>3. \A k \in Keys : HasRequest(k)' => reqs'[k] = reqs[k] /\ HasRequest(k)
      BY <1>8, DeleteAuthRequestStep DEF HasRequest, TypeInv, RequestsOK
    <2>4. Grows /\ StoredKnown'
      <3>1. now' \in Nat /\ now =< now' /\ lastCode =< lastCode'
        BY SMTT(30), Z3T(30), <1>0, <2>1, <2>3
      <3>2. Grows
        BY <3>1, <1>0, <2>1, <2>3 DEF Grows, HasCode
      <3>3. StoredKnown'
        BY <1>0, <2>1, <2>3 DEF StoredKnown, Known
      <3> QED
        BY <3>2, <3>3
    <2> QED
      BY <2>1, <2>2, <2>4, GrowsKeeps
  <1>9. CASE CreateAuthCode(h)
    <2> DEFINE new == [ConnectorID |-> loc[h].authReq.ConnectorID,
                       Claims |-> loc[h].authReq.Claims, Expiry |-> now + CodeValidFor]
    <2>1. /\ UNCHANGED <<now, reqs, gc, used>> /\ pc[h] = "create"
          /\ codes' = [codes EXCEPT ![lastCode + 1] = new]
          /\ lastCode' = lastCode + 1
      BY <1>9 DEF CreateAuthCode
    <2>2. Moves(h, "respond", loc[h]) /\ lastCode + 1 \in CodeIDs
      BY <1>9, CreateAuthCodeStep
    <2>3. ReadKnown'
      BY <1>0, <2>1, <2>2 DEF Moves, ReadKnown, Known
    <2> HIDE DEF new
    <2>4. \A i \in CodeIDs : HasCode(i)' =>
             (HasCode(i) /\ codes'[i] = codes[i]) \/ (lastCode < i /\ i =< lastCode')
      <3>1. \A i \in CodeIDs : i # lastCode + 1 => codes'[i] = codes[i]
        BY <2>1 DEF TypeInv, CodesOK
      <3>2. lastCode < lastCode + 1 /\ lastCode + 1 =< lastCode'
        BY SMTT(30), Z3T(30), <1>0, <2>1
      <3> QED
        BY <3>1, <3>2 DEF HasCode
    <2>5. lastCode =< lastCode' /\ now =< now'
      BY SMTT(30), Z3T(30), <1>0, <2>1
    <2>6. Grows /\ StoredKnown'
      BY <1>0, <2>1, <2>4, <2>5 DEF Grows, StoredKnown, Known, HasRequest
    <2> QED
      BY <2>1, <2>3, <2>6, GrowsKeeps
  <1>10. CASE Respond(h)
    <2>1. UNCHANGED <<now, reqs, codes, gc, used, lastCode>>
      BY <1>10 DEF Respond, store
    <2> QED
      BY <1>0, <1>2, <1>10, <2>1, RespondStep, ReturnKnown
  <1>11. CASE Abort(h)
    <2>1. UNCHANGED <<now, reqs, codes, gc, used, lastCode>>
      BY <1>11 DEF Abort, store, history
    <2> QED
      BY <1>0, <1>2, <1>11, <2>1, AbortStep, ReturnKnown
  <1> QED
    BY <1>3, <1>4, <1>5, <1>6, <1>7, <1>8, <1>9, <1>10, <1>11 DEF Handle

\* A collector takes away, and leaves the other collectors' lists alone.
Shrinks(g) ==
    /\ UNCHANGED <<now, pc, loc, used, lastCode>>
    /\ \A k \in Keys : HasRequest(k)' => HasRequest(k) /\ reqs'[k] = reqs[k]
    /\ \A i \in CodeIDs : HasCode(i)' => HasCode(i) /\ codes'[i] = codes[i]
    /\ \A f \in Collectors \ {g} : gc'[f] = gc[f]

LEMMA ShrinksGrows ==
    ASSUME TypeInv, ListInv, NEW g, Shrinks(g)
    PROVE  Grows /\ StoredKnown' /\ ReadKnown' /\ CodesNumbered' /\ 1 =< now'
  <1>1. now \in Nat /\ lastCode \in Nat /\ now' = now /\ lastCode' = lastCode
    BY Numbers DEF Shrinks
  <1>2. now' \in Nat /\ now =< now' /\ lastCode' \in Nat /\ lastCode =< lastCode'
    BY SMTT(30), Z3T(30), <1>1
  <1>3. Grows
    BY <1>2 DEF Shrinks, Grows
  <1>4. StoredKnown' /\ ReadKnown'
    BY DEF Shrinks, ListInv, StoredKnown, ReadKnown, Known
  <1>5. CodesNumbered' /\ 1 =< now'
    BY DEF Shrinks, ListInv, CodesNumbered
  <1> QED
    BY <1>3, <1>4, <1>5

LEMMA ShrinksKeeps ==
    ASSUME TypeInv, TypeInv', ListInv, NEW g \in Collectors, Shrinks(g),
           gc'[g].where # "wait" => Listed(gc[g])'
    PROVE  ListInv'
  <1>1. Grows /\ StoredKnown' /\ ReadKnown' /\ CodesNumbered' /\ 1 =< now'
    BY ShrinksGrows
  <1>2. ASSUME NEW f \in Collectors, f # g, gc'[f].where # "wait" PROVE Listed(gc[f])'
    <2>1. gc'[f] = gc[f] /\ Listed(gc[f])
      BY <1>2 DEF Shrinks, ListInv
    <2> QED
      BY <1>1, <2>1, ListKept DEF Listed
  <1> QED
    BY <1>1, <1>2 DEF ListInv

LEMMA StartCollectionLists ==
    ASSUME TypeInv, TypeInv', ListInv, NEW g \in Collectors, StartCollection(g)
    PROVE  ListInv'
  <1> DEFINE listed == {[key |-> k, ID |-> Named(k)] : k \in ExpiredRequests(now)}
  <1>1. Shrinks(g)
    BY DEF StartCollection, Shrinks, WithoutRequests, WithoutCodes, HasRequest, HasCode,
           TypeInv, RequestsOK, CodesOK, CollectorsOK, history
  <1>2. \A e \in listed : e.ID \in Known /\ (HasRequest(e.ID) => reqs[e.ID].Expiry < now)
    <2> SUFFICES ASSUME NEW k \in Keys, HasRequest(k), now > reqs[k].Expiry
                 PROVE  /\ Named(k) \in Known
                        /\ HasRequest(Named(k)) => reqs[Named(k)].Expiry < now
      BY SMTT(30), Z3T(30) DEF ExpiredRequests, After
    <2>1. now \in Nat /\ 1 =< now /\ reqs[k].Expiry \in Nat
      BY Numbers DEF ListInv
    <2>2. CASE Named(k) = k
      <3>1. k \in Known
        BY DEF ListInv, StoredKnown
      <3> QED
        BY <2>1, <2>2, <3>1
    <2>3. CASE Named(k) = ""
      <3>1. "" \in Keys /\ "" \in Known /\ "" \notin used
        BY AuthAssumption DEF Keys, Known, TypeInv, HistoryOK
      <3>2. HasRequest("") => reqs[""].Expiry = 0
        BY <3>1 DEF ListInv, StoredKnown
      <3>3. 0 < now
        BY SMTT(30), Z3T(30), <2>1
      <3>4. HasRequest("") => reqs[""].Expiry < now
        BY <3>2, <3>3
      <3> QED
        BY <2>3, <3>1, <3>4
    <2> QED
      BY <2>2, <2>3 DEF Named, ListInv, StoredKnown
  <1>3. now \in Nat /\ 1 =< now /\ now =< now' /\ Grows
    BY <1>1, Numbers, ShrinksGrows DEF ListInv, Grows
  <1>4. CASE gc' = gc
    <2>1. gc'[g].where = "wait"
      BY <1>4 DEF StartCollection
    <2> QED
      BY <1>1, <2>1, ShrinksKeeps
  <1>5. CASE gc' = [gc EXCEPT ![g] = Collecting("codes", now, {}, {}, FALSE)]
    <2>1. gc'[g] = Collecting("codes", now, {}, {}, FALSE)
      BY <1>5 DEF TypeInv, CollectorsOK
    <2>2. gc'[g].at = now /\ gc'[g].requests = {} /\ gc'[g].codes = {}
      BY SMTT(30), Z3T(30), <2>1 DEF Collecting
    <2>3. Listed(gc[g])'
      BY <1>3, <2>2 DEF Listed
    <2> QED
      BY <1>1, <2>3, ShrinksKeeps
  <1>6. CASE /\ gc' = [gc EXCEPT ![g] = Collecting("requests", now, listed, {}, FALSE)]
             /\ UNCHANGED <<reqs, codes>>
    <2>1. gc'[g] = Collecting("requests", now, listed, {}, FALSE)
      BY <1>6 DEF TypeInv, CollectorsOK
    <2>2. gc'[g].at = now /\ gc'[g].requests = listed /\ gc'[g].codes = {}
      BY SMTT(30), Z3T(30), <2>1 DEF Collecting
    <2>3. Known' = Known
      BY <1>1 DEF Shrinks, Known
    <2> HIDE DEF listed
    <2>4. Listed(gc[g])'
      BY <1>2, <1>3, <1>6, <2>2, <2>3 DEF Listed, HasRequest
    <2> QED
      BY <1>1, <2>4, ShrinksKeeps
  <1> QED
    BY <1>4, <1>5, <1>6 DEF StartCollection

\* A collector that goes on has the list it had, or less of it.
LEMMA ShorterLists ==
    ASSUME TypeInv, TypeInv', ListInv, NEW g \in Collectors, Shrinks(g),
           gc[g].where # "wait", gc'[g].at = gc[g].at,
           gc'[g].requests \subseteq gc[g].requests, gc'[g].codes \subseteq gc[g].codes
    PROVE  ListInv'
  <1>1. Grows
    BY ShrinksGrows
  <1>2. Listed(gc[g])
    BY DEF ListInv
  <1>3. Listed(gc[g])'
    <2> DEFINE c == gc'[g]
    <2>1. /\ 1 =< c.at /\ c.at =< now'
          /\ \A e \in c.requests :
                 e.ID \in Known' /\ (HasRequest(e.ID)' => reqs'[e.ID].Expiry < c.at)
          /\ \A i \in c.codes : i =< lastCode' /\ (HasCode(i)' => codes'[i].Expiry < c.at)
      BY <1>1, <1>2, ListKept
    <2> QED
      BY <2>1 DEF Listed
  <1> QED
    BY <1>3, ShrinksKeeps

LEMMA GarbageCollectLists ==
    ASSUME TypeInv, TypeInv', ListInv, NEW g \in Collectors, GarbageCollect(g)
    PROVE  ListInv'
  <1>1. CASE CollectRequest(g)
    <2>1. PICK e \in gc[g].requests :
            /\ reqs' = [reqs EXCEPT ![e.ID] = NoRequest]
            /\ gc' = [gc EXCEPT ![g] =
                         Collecting("requests", gc[g].at, gc[g].requests \ {e}, {},
                                    gc[g].failed \/ ~HasRequest(e.ID))]
      BY <1>1 DEF CollectRequest
    <2>2. Shrinks(g)
      BY <1>1, <2>1 DEF CollectRequest, Shrinks, HasRequest, HasCode, TypeInv, RequestsOK,
                        CollectorsOK, history
    <2>3. /\ gc'[g].at = gc[g].at /\ gc'[g].requests \subseteq gc[g].requests
          /\ gc'[g].codes = {}
      BY SMTT(30), Z3T(30), <2>1, CollectingFields DEF TypeInv, CollectorsOK
    <2> QED
      BY <1>1, <2>2, <2>3, ShorterLists DEF CollectRequest
  <1>2. CASE ListCodes(g)
    <2> DEFINE listed == ExpiredCodes(gc[g].at)
    <2>1. Shrinks(g)
      BY <1>2 DEF ListCodes, Shrinks, HasRequest, HasCode, TypeInv, CollectorsOK, store, history
    <2>2. Listed(gc[g]) /\ now' = now /\ lastCode' = lastCode /\ codes' = codes
      BY <1>2 DEF ListCodes, ListInv, store, history
    <2>3. CASE gc'[g] = Waiting
      <3>1. gc'[g].where = "wait"
        BY <2>3, WaitingWaits
      <3> QED
        BY <2>1, <3>1, ShrinksKeeps
    <2>4. CASE gc'[g] = Collecting("codes", gc[g].at, {}, listed, FALSE)
      <3>1. gc'[g].at = gc[g].at /\ gc'[g].requests = {} /\ gc'[g].codes = listed
        BY SMTT(30), Z3T(30), <2>4 DEF Collecting
      <3>2. \A i \in listed : i =< lastCode /\ codes[i].Expiry < gc[g].at
        <4>1. \A i \in listed : i \in CodeIDs /\ HasCode(i) /\ gc[g].at > codes[i].Expiry
          BY DEF ExpiredCodes, After
        <4>2. \A i \in listed : gc[g].at \in Nat /\ codes[i].Expiry \in Nat
          BY <4>1, Numbers
        <4> QED
          BY <4>1, <4>2 DEF ListInv, CodesNumbered
      <3> HIDE DEF listed
      <3>3. Listed(gc[g])'
        BY <2>2, <3>1, <3>2 DEF Listed
      <3> QED
        BY <2>1, <3>3, ShrinksKeeps
    <2> QED
      BY <1>2, <2>3, <2>4 DEF ListCodes, TypeInv, CollectorsOK
  <1>3. CASE CollectCode(g)
    <2>1. PICK i \in gc[g].codes :
            /\ codes' = [codes EXCEPT ![i] = NoCode]
            /\ gc' = [gc EXCEPT ![g] =
                         Collecting("codes", gc[g].at, {}, gc[g].codes \ {i}, FALSE)]
      BY <1>3 DEF CollectCode
    <2>2. Shrinks(g)
      BY SMTT(30), Z3T(30), <1>3, <2>1
      DEF CollectCode, Shrinks, HasRequest, HasCode, TypeInv, CodesOK,
                        CollectorsOK, history
    <2>3. /\ gc'[g].at = gc[g].at /\ gc'[g].requests = {}
          /\ gc'[g].codes \subseteq gc[g].codes
      <3>1. gc'[g] = Collecting("codes", gc[g].at, {}, gc[g].codes \ {i}, FALSE)
        BY <2>1 DEF TypeInv, CollectorsOK
      <3> QED
        BY SMTT(30), Z3T(30), <3>1 DEF Collecting
    <2> QED
      BY <1>3, <2>2, <2>3, ShorterLists DEF CollectCode
  <1>4. CASE EndCollection(g)
    <2>1. Shrinks(g)
      BY <1>4 DEF EndCollection, Shrinks, WithoutCodes, HasRequest, HasCode, TypeInv, CodesOK,
                  CollectorsOK, history
    <2>2. gc'[g] = Waiting
      BY <1>4 DEF EndCollection, TypeInv, CollectorsOK
    <2>3. gc'[g].where = "wait"
      BY <2>2, WaitingWaits
    <2> QED
      BY <2>1, <2>3, ShrinksKeeps
  <1> QED
    BY <1>1, <1>2, <1>3, <1>4, StartCollectionLists DEF GarbageCollect

LEMMA ListStep == TypeInv /\ ListInv /\ [Next]_vars => ListInv'
  <1> SUFFICES ASSUME TypeInv, ListInv, [Next]_vars PROVE ListInv'
    OBVIOUS
  <1>0. TypeInv' /\ now \in Nat /\ lastCode \in Nat
    BY TypeStep, Numbers
  <1>1. ASSUME NEW k \in AuthReqs, HandleAuthorization(k) PROVE ListInv'
    <2> DEFINE new == Request(k, "", FALSE, NoIdentity, now + ValidFor)
    <2>1. new.ID = k /\ reqs' = [reqs EXCEPT ![k] = new]
      BY <1>1 DEF HandleAuthorization, Request
    <2>2. /\ k \in Keys /\ k \notin used /\ k # "" /\ used' = used \cup {k}
          /\ UNCHANGED <<now, codes, pc, loc, gc, lastCode>>
      BY <1>1, AuthAssumption DEF HandleAuthorization, Keys
    <2> HIDE DEF new
    <2>3. reqs'[k] = new /\ \A j \in Keys \ {k} : reqs'[j] = reqs[j]
      BY <2>1, <2>2 DEF TypeInv, RequestsOK
    <2>4. StoredKnown' /\ ReadKnown'
      BY <2>1, <2>2, <2>3 DEF ListInv, StoredKnown, ReadKnown, Known, HasRequest
    <2>5. now' \in Nat /\ now =< now' /\ lastCode' \in Nat /\ lastCode =< lastCode'
      <3>1. now' = now /\ lastCode' = lastCode
        BY <2>2
      <3> QED
        BY SMTT(30), Z3T(30), <1>0, <3>1
    <2>6. Grows
      BY <2>2, <2>3, <2>5 DEF Grows, HasRequest, HasCode, Known
    <2> QED
      BY <1>0, <2>2, <2>4, <2>6, GrowsKeeps
  <1>2. CASE Tick \/ UNCHANGED vars \/ \E i \in CodeIDs : ExchangeCode(i)
    <2>1. /\ UNCHANGED <<reqs, pc, loc, gc, used, lastCode>>
          /\ now' = now \/ now' = now + 1
      BY <1>2 DEF Tick, ExchangeCode, vars, store, history
    <2>2. \A i \in CodeIDs : HasCode(i)' => HasCode(i) /\ codes'[i] = codes[i]
      BY <1>2 DEF Tick, ExchangeCode, vars, store, HasCode, TypeInv, CodesOK
    <2>3. now' \in Nat /\ now =< now' /\ lastCode' \in Nat /\ lastCode =< lastCode'
      BY SMTT(30), Z3T(30), <1>0, <2>1
    <2>4. Grows
      BY <2>1, <2>2, <2>3 DEF Grows, HasRequest
    <2>5. StoredKnown' /\ ReadKnown'
      BY <2>1 DEF ListInv, StoredKnown, ReadKnown, Known, HasRequest
    <2> QED
      BY <1>0, <2>1, <2>4, <2>5, GrowsKeeps
  <1> QED
    BY <1>0, <1>1, <1>2, ListHandlers, GarbageCollectLists DEF Next

LEMMA ListInit == Init => ListInv
  <1> SUFFICES ASSUME Init PROVE ListInv
    OBVIOUS
  <1>1. \A g \in Collectors : gc[g].where = "wait"
    BY WaitingWaits DEF Init
  <1> QED
    BY SMTT(30), Z3T(30), <1>1
    DEF Init, ListInv, StoredKnown, ReadKnown, CodesNumbered, HasRequest, HasCode

\* What an approval or an exchange does not take, collectors take only when it
\* has expired.
LEMMA TakesExpired ==
    ASSUME TypeInv, ListInv, NEW g \in Collectors, GarbageCollect(g)
    PROVE  /\ \A k \in Keys : HasRequest(k) /\ ~HasRequest(k)' => now > reqs[k].Expiry
           /\ \A i \in CodeIDs : HasCode(i) /\ ~HasCode(i)' => now > codes[i].Expiry
  <1>1. CASE StartCollection(g)
    BY <1>1 DEF StartCollection, WithoutRequests, WithoutCodes, ExpiredRequests, ExpiredCodes,
                After, HasRequest, HasCode, TypeInv, RequestsOK, CodesOK
  <1>2. CASE CollectRequest(g)
    <2>1. PICK e \in gc[g].requests : reqs' = [reqs EXCEPT ![e.ID] = NoRequest]
      BY <1>2 DEF CollectRequest
    <2>2. Listed(gc[g]) /\ codes' = codes
      BY <1>2 DEF CollectRequest, ListInv
    <2>3. HasRequest(e.ID) => reqs[e.ID].Expiry < gc[g].at /\ gc[g].at =< now
      BY <2>2 DEF Listed
    <2>4. e.ID \in Keys /\ now \in Nat /\ gc[g].at \in Nat
          /\ (HasRequest(e.ID) => reqs[e.ID].Expiry \in Nat)
      BY Numbers
    <2>5. HasRequest(e.ID) => now > reqs[e.ID].Expiry
      BY SMTT(30), Z3T(30), <2>3, <2>4
    <2> QED
      BY <2>1, <2>2, <2>5 DEF HasRequest, HasCode, TypeInv, RequestsOK
  <1>3. CASE CollectCode(g)
    <2>1. PICK i \in gc[g].codes : codes' = [codes EXCEPT ![i] = NoCode]
      BY <1>3 DEF CollectCode
    <2>2. Listed(gc[g]) /\ reqs' = reqs
      BY <1>3 DEF CollectCode, ListInv
    <2>3. HasCode(i) => codes[i].Expiry < gc[g].at /\ gc[g].at =< now
      BY <2>2 DEF Listed
    <2>4. i \in CodeIDs /\ now \in Nat /\ gc[g].at \in Nat
          /\ (HasCode(i) => codes[i].Expiry \in Nat)
      BY Numbers
    <2>5. HasCode(i) => now > codes[i].Expiry
      BY SMTT(30), Z3T(30), <2>3, <2>4
    <2> QED
      BY <2>1, <2>2, <2>5 DEF HasRequest, HasCode, TypeInv, CodesOK
  <1>4. CASE EndCollection(g)
    <2>1. Listed(gc[g]) /\ reqs' = reqs
      BY <1>4 DEF EndCollection, ListInv
    <2>2. \A i \in CodeIDs : HasCode(i) /\ ~HasCode(i)' => gc[g].at > codes[i].Expiry
      BY <1>4 DEF EndCollection, WithoutCodes, ExpiredCodes, After, HasCode
    <2>3. gc[g].at =< now /\ gc[g].at \in Nat /\ now \in Nat
      BY <2>1, Numbers DEF Listed
    <2> QED
      BY SMTT(30), Z3T(30), <2>1, <2>2, <2>3, Numbers DEF HasRequest
  <1>5. CASE ListCodes(g)
    BY <1>5 DEF ListCodes, store, HasRequest, HasCode
  <1> QED
    BY <1>1, <1>2, <1>3, <1>4, <1>5 DEF GarbageCollect

\* Only DeleteAuthRequest takes a request away in a handler, and no handler
\* takes a code.
LEMMA HandlersTake ==
    ASSUME TypeInv, NEW h \in Handlers, Handle(h)
    PROVE  /\ \A k \in Keys : HasRequest(k) /\ ~HasRequest(k)' =>
                 /\ pc[h] = "delete" /\ pc'[h] \in {"create", "respond"}
                 /\ loc[h].authReq.ID = k
           /\ \A i \in CodeIDs : HasCode(i) => HasCode(i)'
  <1>1. CASE DeleteAuthRequest(h)
    <2>1. UNCHANGED codes /\ pc[h] = "delete"
      BY <1>1 DEF DeleteAuthRequest
    <2> QED
      BY SMTT(30), Z3T(30), <1>1, <2>1, DeleteAuthRequestStep
      DEF Moves, HasRequest, HasCode, TypeInv, RequestsOK
  <1>2. CASE CreateAuthCode(h)
    <2>1. TypeInv' /\ lastCode + 1 \in CodeIDs /\ reqs' = reqs
      BY <1>2, CreateAuthCodeStep DEF CreateAuthCode
    <2>2. [ConnectorID |-> loc[h].authReq.ConnectorID, Claims |-> loc[h].authReq.Claims,
           Expiry |-> now + CodeValidFor] # NoCode
      <3>1. loc[h].authReq.ConnectorID \in Connectors \cup {""}
        BY <1>2, RequestParts DEF CreateAuthCode, TypeInv, ControlOK, SetAt
      <3>2. loc[h].authReq.ConnectorID # "absent"
        BY <3>1, AuthAssumption
      <3> QED
        BY <3>2 DEF NoCode
    <2> QED
      BY <1>2, <2>1, <2>2 DEF CreateAuthCode, HasRequest, HasCode, TypeInv, CodesOK
  <1>3. CASE SetConnector(h)
    <2>1. RequestsOK' /\ codes' = codes
      BY <1>3, SetConnectorStep DEF SetConnector, TypeInv
    <2>2. PICK r \in AuthRequest : reqs' = reqs \/ reqs' = [reqs EXCEPT ![loc[h].key] = r]
      <3>1. ASSUME Updatable(loc[h].key)
            PROVE  Request(Current(loc[h].key).ID, loc[h].conn, Current(loc[h].key).LoggedIn,
                           Current(loc[h].key).Claims, Current(loc[h].key).Expiry)
                     \in AuthRequest
        BY <1>3, SetConnectorStep, RequestParts, RequestType
      <3> QED
        BY <1>3, <3>1, ZeroType DEF SetConnector
    <2>3. r # NoRequest
      BY RequestParts
    <2> QED
      BY <2>1, <2>2, <2>3 DEF HasRequest, HasCode, TypeInv, RequestsOK
  <1>4. CASE FinalizeLogin(h)
    <2>1. RequestsOK' /\ codes' = codes
      BY <1>4, FinalizeLoginStep DEF FinalizeLogin, TypeInv
    <2>2. PICK r \in AuthRequest : reqs' = reqs \/ reqs' = [reqs EXCEPT ![loc[h].authReq.ID] = r]
      <3>1. Request(Current(loc[h].authReq.ID).ID, Current(loc[h].authReq.ID).ConnectorID, TRUE,
                    loc[h].identity, Current(loc[h].authReq.ID).Expiry) \in AuthRequest
        BY <1>4, FinalizeLoginStep, RequestParts, RequestType
      <3> QED
        BY <1>4, <3>1, ZeroType DEF FinalizeLogin
    <2>3. r # NoRequest
      BY RequestParts
    <2> QED
      BY <2>1, <2>2, <2>3 DEF HasRequest, HasCode, TypeInv, RequestsOK
  <1>5. CASE UNCHANGED <<reqs, codes>>
    BY <1>5 DEF HasRequest, HasCode
  <1> QED
    BY <1>1, <1>2, <1>3, <1>4, <1>5
    DEF Handle, HandleConnectorLogin, HandleConnectorCallback, HandleApproval, Respond, Abort,
        store

\* Collectors that work from an old list or an old time, several at once and
\* over any storage, take nothing that has not expired.
THEOREM CollectorsKeepUnexpired == Spec => UnexpiredKept
  <1>1. TypeInv /\ ListInv /\ [Next]_vars =>
          [/\ \A k \in Keys : HasRequest(k) /\ ~HasRequest(k)' /\ now =< reqs[k].Expiry =>
                 \E h \in Handlers : /\ pc[h] = "delete" /\ pc'[h] \in {"create", "respond"}
                                     /\ loc[h].authReq.ID = k
           /\ \A i \in CodeIDs : HasCode(i) /\ ~HasCode(i)' /\ now =< codes[i].Expiry =>
                 i \in exchanged']_vars
    <2> SUFFICES ASSUME TypeInv, ListInv, Next
                 PROVE  /\ \A k \in Keys :
                              HasRequest(k) /\ ~HasRequest(k)' /\ now =< reqs[k].Expiry =>
                                 \E h \in Handlers :
                                    /\ pc[h] = "delete" /\ pc'[h] \in {"create", "respond"}
                                    /\ loc[h].authReq.ID = k
                        /\ \A i \in CodeIDs :
                              HasCode(i) /\ ~HasCode(i)' /\ now =< codes[i].Expiry =>
                                 i \in exchanged'
      OBVIOUS
    <2>1. ASSUME NEW k \in AuthReqs, HandleAuthorization(k)
          PROVE  codes' = codes /\ \A j \in Keys : HasRequest(j) => HasRequest(j)'
      <3> DEFINE new == Request(k, "", FALSE, NoIdentity, now + ValidFor)
      <3>1. new.ID = k /\ NoRequest.ID = "absent" /\ k # "absent"
        BY AuthAssumption DEF Request, NoRequest
      <3>2. new # NoRequest
        BY <3>1
      <3> QED
        BY <2>1, <3>2 DEF HandleAuthorization, HasRequest, TypeInv, RequestsOK
    <2>2. ASSUME NEW i \in CodeIDs, ExchangeCode(i)
          PROVE  /\ reqs' = reqs /\ i \in exchanged'
                 /\ \A j \in CodeIDs \ {i} : codes'[j] = codes[j]
      BY <2>2 DEF ExchangeCode, TypeInv, CodesOK
    <2>3. ASSUME NEW g \in Collectors, GarbageCollect(g)
          PROVE  /\ \A k \in Keys : HasRequest(k) /\ ~HasRequest(k)' => ~(now =< reqs[k].Expiry)
                 /\ \A i \in CodeIDs : HasCode(i) /\ ~HasCode(i)' => ~(now =< codes[i].Expiry)
      <3>1. /\ \A k \in Keys : HasRequest(k) /\ ~HasRequest(k)' => now > reqs[k].Expiry
            /\ \A i \in CodeIDs : HasCode(i) /\ ~HasCode(i)' => now > codes[i].Expiry
        BY <2>3, TakesExpired
      <3>2. /\ now \in Nat
            /\ \A k \in Keys : HasRequest(k) => reqs[k].Expiry \in Nat
            /\ \A i \in CodeIDs : HasCode(i) => codes[i].Expiry \in Nat
        BY Numbers
      <3>3. \A a, b \in Nat : a > b => ~(a =< b)
        BY SMTT(30), Z3T(30)
      <3> QED
        BY <3>1, <3>2, <3>3
    <2>4. CASE Tick
      BY <2>4 DEF Tick, HasRequest, HasCode
    <2>5. CASE \E k \in AuthReqs : HandleAuthorization(k)
      BY <2>1, <2>5 DEF HasCode
    <2>6. CASE \E i \in CodeIDs : ExchangeCode(i)
      BY <2>2, <2>6 DEF HasRequest, HasCode
    <2>7. CASE \E h \in Handlers : Handle(h)
      BY <2>7, HandlersTake
    <2>8. CASE \E g \in Collectors : GarbageCollect(g)
      BY <2>3, <2>8
    <2> QED
      BY <2>4, <2>5, <2>6, <2>7, <2>8 DEF Next
  <1> QED
    BY <1>1, TypeInit, TypeStep, ListInit, ListStep, PTL DEF Spec, UnexpiredKept

-----------------------------------------------------------------------------
(***************************************************************************)
(* Connectors come from choices: a ConnectorID, and the connector of the   *)
(* Claims, are ones the user was sent to for that request.  Only an object *)
(* that etcd made up may have Claims and no ConnectorID, or the Claims of  *)
(* another request, and it has expired.                                    *)
(***************************************************************************)
Chose(S, k, c) == [key |-> k, conn |-> c] \in S
NamedOrMadeUp(k, r) == r.ID \in {k, ""}

\* What is so of a request r that is stored under k.
RequestChosen(S, k, r) ==
    /\ r.ConnectorID # "" => Chose(S, k, r.ConnectorID)
    /\ r.ID # "" /\ (\E c \in Connectors : Chose(S, k, c)) => r.ConnectorID # ""
    /\ k # "" /\ r.LoggedIn => Chose(S, k, r.Claims.Connector)

\* What is so of a handler that is at label with locals l.
LocalChosen(S, label, l) ==
    /\ label # "idle" => NamedOrMadeUp(l.key, l.authReq)
    /\ label = "finalize" => Chose(S, l.key, l.identity.Connector)
    /\ label \in Approving => /\ Chose(S, l.key, l.authReq.ConnectorID)
                              /\ Chose(S, l.key, l.authReq.Claims.Connector)

StoredChosen == \A k \in Keys : HasRequest(k) => RequestChosen(chosen, k, reqs[k])
ReadChosen == \A h \in Handlers : LocalChosen(chosen, pc[h], loc[h])
ToldChosen ==
    \A x \in responses : /\ Chose(chosen, x.key, x.ConnectorID)
                         /\ Chose(chosen, x.key, x.Claims.Connector)
ChosenKnown == \A x \in chosen : x.key \in Known
ChosenInv == StoredChosen /\ ReadChosen /\ ToldChosen /\ ChosenKnown

\* A step that chooses nothing and leaves or deletes each request.
LEMMA ChosenKept ==
    ASSUME ChosenInv, UNCHANGED <<chosen, responses>>, used \subseteq used', ReadChosen',
           \A k \in Keys : HasRequest(k)' => HasRequest(k) /\ reqs'[k] = reqs[k]
    PROVE  ChosenInv'
  <1>1. StoredChosen'
    BY DEF ChosenInv, StoredChosen
  <1>2. ToldChosen' /\ ChosenKnown'
    BY DEF ChosenInv, ToldChosen, ChosenKnown, Known
  <1> QED
    BY <1>1, <1>2 DEF ChosenInv

\* Choices are only added to, so it is enough to look at the handler that moves.
LEMMA LocalKept ==
    ASSUME NEW S, NEW T, S \subseteq T, NEW label, NEW l, LocalChosen(S, label, l)
    PROVE  LocalChosen(T, label, l)
  BY DEF LocalChosen, Chose

LEMMA MovesChosen ==
    ASSUME ReadChosen, chosen \subseteq chosen', NEW h \in Handlers, NEW label, NEW l,
           Moves(h, label, l), LocalChosen(chosen', label, l)
    PROVE  ReadChosen'
  <1> SUFFICES ASSUME NEW i \in Handlers PROVE LocalChosen(chosen', pc'[i], loc'[i])
    BY DEF ReadChosen
  <1>1. CASE i = h
    BY <1>1 DEF Moves
  <1>2. CASE i # h
    <2>1. pc'[i] = pc[i] /\ loc'[i] = loc[i]
      BY <1>2 DEF Moves
    <2>2. LocalChosen(chosen, pc[i], loc[i])
      BY DEF ReadChosen
    <2> QED
      BY <2>1, <2>2, LocalKept
  <1> QED
    BY <1>1, <1>2

LEMMA ReturnChosen ==
    ASSUME ReadChosen, chosen \subseteq chosen', NEW h \in Handlers, Moves(h, "idle", NoLocal)
    PROVE  ReadChosen'
  <1>1. LocalChosen(chosen', "idle", NoLocal)
    BY DEF LocalChosen, Approving
  <1> QED
    BY <1>1, MovesChosen

\* A handler goes on with what it has read: to log in with a connector that
\* was chosen, or to set one.
LEMMA GoesOnChosen ==
    ASSUME NEW S, NEW k, NEW c, NEW r, NEW identity, NamedOrMadeUp(k, r)
    PROVE  /\ LocalChosen(S, "setConnector", Locals(k, c, r, identity))
           /\ Chose(S, k, identity.Connector) =>
                 LocalChosen(S, "finalize", Locals(k, c, r, identity))
  <1> DEFINE l == Locals(k, c, r, identity)
  <1>1. l.key = k /\ l.authReq = r /\ l.identity = identity
    BY DEF Locals
  <1> HIDE DEF l
  <1>2. /\ LocalChosen(S, "setConnector", l)
        /\ Chose(S, k, identity.Connector) => LocalChosen(S, "finalize", l)
    BY <1>1 DEF LocalChosen, Approving
  <1> QED
    BY <1>2 DEF l

LEMMA LoginChosen ==
    ASSUME TypeInv, ListInv, ChosenInv, NEW h \in Handlers, NEW k \in Keys,
           NEW c \in Connectors,
           HandleConnectorLogin(h, k, c) \/ HandleConnectorCallback(h, k, c)
    PROVE  ChosenInv'
  <1>1. UNCHANGED <<reqs, chosen, responses, used>> /\ HasRequest(k)
    BY DEF HandleConnectorLogin, HandleConnectorCallback, store, history
  <1>2. NamedOrMadeUp(k, reqs[k]) /\ c # ""
    BY <1>1, AuthAssumption DEF ListInv, StoredKnown, NamedOrMadeUp
  <1>3. reqs[k].ConnectorID = c => Chose(chosen, k, c)
    BY <1>1, <1>2 DEF ChosenInv, StoredChosen, RequestChosen
  <1>4. \/ Moves(h, "idle", NoLocal)
        \/ Moves(h, "setConnector", Locals(k, c, reqs[k], NoIdentity))
        \/ /\ Chose(chosen, k, c)
           /\ \E u \in Users :
                 Moves(h, "finalize", Locals(k, c, reqs[k], [Connector |-> c, User |-> u]))
    <2>1. CASE HandleConnectorCallback(h, k, c)
      BY <1>3, <2>1, HandleConnectorCallbackStep DEF HandleConnectorCallback
    <2>2. CASE HandleConnectorLogin(h, k, c) /\ reqs[k].ConnectorID = c
      BY <1>3, <2>2, HandleConnectorLoginStep
    <2>3. CASE HandleConnectorLogin(h, k, c) /\ reqs[k].ConnectorID # c
      <3>1. Goto(h, "setConnector", Locals(k, c, reqs[k], NoIdentity))
        BY <2>3 DEF HandleConnectorLogin
      <3> QED
        BY <3>1 DEF Goto, Moves, TypeInv, ControlOK
    <2> QED
      BY <2>1, <2>2, <2>3
  <1>5. ReadChosen'
    <2>1. ASSUME Moves(h, "setConnector", Locals(k, c, reqs[k], NoIdentity))
          PROVE  ReadChosen'
      <3>1. LocalChosen(chosen', "setConnector", Locals(k, c, reqs[k], NoIdentity))
        BY <1>2, GoesOnChosen
      <3> QED
        BY <1>1, <2>1, <3>1, MovesChosen DEF ChosenInv
    <2>2. ASSUME NEW u \in Users, Chose(chosen, k, c),
                 Moves(h, "finalize", Locals(k, c, reqs[k], [Connector |-> c, User |-> u]))
          PROVE  ReadChosen'
      <3> DEFINE identity == [Connector |-> c, User |-> u]
      <3>1. identity.Connector = c /\ Moves(h, "finalize", Locals(k, c, reqs[k], identity))
        BY <2>2
      <3> HIDE DEF identity
      <3>2. LocalChosen(chosen', "finalize", Locals(k, c, reqs[k], identity))
        BY <1>1, <1>2, <2>2, <3>1, GoesOnChosen
      <3> QED
        BY <1>1, <3>1, <3>2, MovesChosen DEF ChosenInv
    <2> QED
      BY <1>1, <1>4, <2>1, <2>2, ReturnChosen DEF ChosenInv
  <1> QED
    BY <1>1, <1>5, ChosenKept DEF HasRequest

LEMMA SetConnectorChosen ==
    ASSUME TypeInv, ListInv, ChosenInv, NEW h \in Handlers, SetConnector(h)
    PROVE  ChosenInv'
  <1> DEFINE k == loc[h].key
             c == loc[h].conn
             r == Current(k)
             new == Request(r.ID, c, r.LoggedIn, r.Claims, r.Expiry)
  <1>0. k \in Keys /\ c \in Connectors /\ c # "" /\ pc[h] = "setConnector"
    BY SetConnectorStep, AuthAssumption DEF SetConnector
  <1>1. k \in Known /\ NamedOrMadeUp(k, loc[h].authReq)
    BY <1>0 DEF ListInv, ReadKnown, ChosenInv, ReadChosen, LocalChosen
  <1>2. UNCHANGED <<responses, used>>
    BY DEF SetConnector
  <1>3. CASE ~Updatable(k)
    <2>1. UNCHANGED <<reqs, chosen>> /\ Return(h)
      BY <1>3 DEF SetConnector
    <2>2. Moves(h, "idle", NoLocal)
      BY <2>1, ReturnMoves DEF TypeInv
    <2> QED
      BY <1>2, <2>1, <2>2, ReturnChosen, ChosenKept DEF HasRequest, ChosenInv
  <1>4. CASE Updatable(k)
    <2>1. /\ reqs' = [reqs EXCEPT ![k] = new]
          /\ chosen' = chosen \cup {[key |-> k, conn |-> c]}
      BY <1>4 DEF SetConnector
    <2>2. Chose(chosen', k, c) /\ chosen \subseteq chosen'
      BY <2>1 DEF Chose
    <2>3. \A j, d : j # k => (Chose(chosen', j, d) <=> Chose(chosen, j, d))
      <3> SUFFICES ASSUME NEW j, NEW d, j # k
                   PROVE  [key |-> j, conn |-> d] # [key |-> k, conn |-> c]
        BY <2>1 DEF Chose
      <3>1. [key |-> j, conn |-> d].key = j /\ [key |-> k, conn |-> c].key = k
        OBVIOUS
      <3> QED
        BY <3>1
    <2>4. ReadChosen'
      <3>1. ASSUME NEW u \in Users,
                   Moves(h, "finalize", Locals(k, c, loc[h].authReq,
                                               [Connector |-> c, User |-> u]))
            PROVE  ReadChosen'
        <4> DEFINE identity == [Connector |-> c, User |-> u]
        <4>1. /\ identity.Connector = c
              /\ Moves(h, "finalize", Locals(k, c, loc[h].authReq, identity))
          BY <3>1
        <4> HIDE DEF identity
        <4>2. LocalChosen(chosen', "finalize", Locals(k, c, loc[h].authReq, identity))
          BY <1>1, <2>2, <4>1, GoesOnChosen
        <4> QED
          BY <2>2, <4>1, <4>2, MovesChosen DEF ChosenInv
      <3> QED
        BY <2>2, <3>1, SetConnectorStep, ReturnChosen DEF ChosenInv
    <2>5. StoredChosen'
      <3>1. /\ new.ConnectorID = c /\ new.LoggedIn = r.LoggedIn
            /\ new.Claims = r.Claims
        BY DEF Request
      <3> HIDE DEF new
      <3>2. reqs'[k] = new /\ \A j \in Keys \ {k} : reqs'[j] = reqs[j]
        BY <1>0, <2>1 DEF TypeInv, RequestsOK
      <3>3. r.LoggedIn => HasRequest(k) /\ r = reqs[k]
        <4>1. ZeroRequest.LoggedIn = FALSE
          BY DEF ZeroRequest, Request
        <4> QED
          BY <4>1 DEF Current
      <3>4. k # "" /\ new.LoggedIn => Chose(chosen', k, new.Claims.Connector)
        BY <1>0, <2>1, <3>1, <3>3 DEF ChosenInv, StoredChosen, RequestChosen, Chose
      <3>5. RequestChosen(chosen', k, new)
        BY <1>0, <2>2, <3>1, <3>4 DEF RequestChosen
      <3>6. ASSUME NEW j \in Keys, j # k, HasRequest(j)'
            PROVE  RequestChosen(chosen', j, reqs'[j])
        <4>1. reqs'[j] = reqs[j] /\ RequestChosen(chosen, j, reqs[j])
          BY <3>2, <3>6 DEF HasRequest, ChosenInv, StoredChosen
        <4> QED
          BY <2>3, <3>6, <4>1 DEF RequestChosen
      <3> QED
        BY <3>2, <3>5, <3>6 DEF StoredChosen
    <2>6. ToldChosen'
      BY <1>2, <2>2 DEF ChosenInv, ToldChosen, Chose
    <2>7. ChosenKnown'
      <3>1. [key |-> k, conn |-> c].key = k
        OBVIOUS
      <3> QED
        BY <1>1, <1>2, <2>1, <3>1 DEF ChosenInv, ChosenKnown, Known
    <2> QED
      BY <2>4, <2>5, <2>6, <2>7 DEF ChosenInv
  <1> QED
    BY <1>3, <1>4

LEMMA FinalizeLoginChosen ==
    ASSUME TypeInv, ListInv, ChosenInv, NEW h \in Handlers, FinalizeLogin(h)
    PROVE  ChosenInv'
  <1> DEFINE k == loc[h].authReq.ID
             r == Current(k)
             new == Request(r.ID, r.ConnectorID, TRUE, loc[h].identity, r.Expiry)
  <1>0. k \in Keys /\ pc[h] = "finalize" /\ Moves(h, "idle", NoLocal)
    BY FinalizeLoginStep DEF FinalizeLogin
  <1>1. UNCHANGED <<responses, used, chosen>>
    BY DEF FinalizeLogin
  <1>2. ReadChosen'
    BY <1>0, <1>1, ReturnChosen DEF ChosenInv
  <1>3. k # "" => Chose(chosen, k, loc[h].identity.Connector)
    BY <1>0 DEF ChosenInv, ReadChosen, LocalChosen, NamedOrMadeUp
  <1>4. CASE reqs' = reqs
    BY <1>1, <1>2, <1>4, ChosenKept DEF HasRequest
  <1>5. CASE reqs' = [reqs EXCEPT ![k] = new]
    <2>1. /\ new.ConnectorID = r.ConnectorID /\ new.ID = r.ID
          /\ new.Claims = loc[h].identity
      BY DEF Request
    <2>2. ZeroRequest.ID = "" /\ ZeroRequest.ConnectorID = ""
      BY DEF ZeroRequest, Request
    <2> HIDE DEF new
    <2>3. reqs'[k] = new /\ \A j \in Keys \ {k} : reqs'[j] = reqs[j]
      BY <1>0, <1>5 DEF TypeInv, RequestsOK
    <2>4. /\ r.ConnectorID # "" => Chose(chosen, k, r.ConnectorID)
          /\ r.ID # "" /\ (\E c \in Connectors : Chose(chosen, k, c)) => r.ConnectorID # ""
      BY <1>0, <2>2 DEF Current, ChosenInv, StoredChosen, RequestChosen
    <2>5. RequestChosen(chosen, k, new)
      BY <1>3, <2>1, <2>4 DEF RequestChosen
    <2>6. StoredChosen'
      BY <1>1, <2>3, <2>5 DEF HasRequest, ChosenInv, StoredChosen
    <2> QED
      BY <1>1, <1>2, <2>6 DEF ChosenInv, ToldChosen, ChosenKnown, Known
  <1> QED
    BY <1>4, <1>5 DEF FinalizeLogin

LEMMA HandleApprovalChosen ==
    ASSUME TypeInv, ListInv, ChosenInv, NEW h \in Handlers, NEW k \in Keys,
           HandleApproval(h, k)
    PROVE  ChosenInv'
  <1> DEFINE l == Locals(k, "", reqs[k], NoIdentity)
  <1>1. /\ UNCHANGED <<reqs, chosen, responses, used>>
        /\ HasRequest(k) /\ reqs[k].LoggedIn /\ ~(now > reqs[k].Expiry)
    BY DEF HandleApproval, After, store, history
  <1>2. Moves(h, "delete", l) /\ reqs[k] \in AuthRequest
    BY HandleApprovalStep
  <1>3. reqs[k].ID = k /\ k # "" /\ reqs[k].ID # ""
    <2>1. now \in Nat /\ 1 =< now
      BY Numbers DEF ListInv
    <2>2. now > 0
      BY SMTT(30), Z3T(30), <2>1
    <2>3. reqs[k].ID = k /\ k \in used
      BY <1>1, <2>2 DEF ListInv, StoredKnown
    <2> QED
      BY <2>3, AuthAssumption DEF TypeInv, HistoryOK
  <1>4. Chose(chosen, k, reqs[k].Claims.Connector)
    BY <1>1, <1>3 DEF ChosenInv, StoredChosen, RequestChosen
  <1>5. reqs[k].Claims.Connector \in Connectors
    BY <1>1, <1>2, RequestParts DEF Identity
  <1>6. Chose(chosen, k, reqs[k].ConnectorID)
    BY <1>1, <1>3, <1>4, <1>5 DEF ChosenInv, StoredChosen, RequestChosen
  <1>7. l.key = k /\ l.authReq = reqs[k]
    BY DEF Locals
  <1> HIDE DEF l
  <1>8. LocalChosen(chosen', "delete", l)
    BY <1>1, <1>3, <1>4, <1>6, <1>7 DEF LocalChosen, NamedOrMadeUp
  <1>9. ReadChosen'
    BY <1>1, <1>2, <1>8, MovesChosen DEF ChosenInv
  <1> QED
    BY <1>1, <1>9, ChosenKept DEF HasRequest

LEMMA ChosenHandlers ==
    TypeInv /\ ListInv /\ ChosenInv /\ (\E h \in Handlers : Handle(h)) => ChosenInv'
  <1> SUFFICES ASSUME TypeInv, ListInv, ChosenInv, NEW h \in Handlers, Handle(h)
               PROVE  ChosenInv'
    OBVIOUS
  <1>0. LocalChosen(chosen, pc[h], loc[h])
    BY DEF ChosenInv, ReadChosen
  <1>1. ASSUME pc[h] \in Approving
        PROVE  LocalChosen(chosen, "create", loc[h]) /\ LocalChosen(chosen, "respond", loc[h])
    BY <1>0, <1>1 DEF LocalChosen, Approving
  <1>2. CASE DeleteAuthRequest(h)
    <2>1. UNCHANGED <<chosen, responses, used>> /\ pc[h] \in Approving
      BY <1>2 DEF DeleteAuthRequest, history, Approving
    <2>2. ReadChosen'
      BY <1>1, <1>2, <2>1, DeleteAuthRequestStep, MovesChosen, ReturnChosen DEF ChosenInv
    <2>3. \A k \in Keys : HasRequest(k)' => HasRequest(k) /\ reqs'[k] = reqs[k]
      BY <1>2, DeleteAuthRequestStep DEF HasRequest, TypeInv, RequestsOK
    <2> QED
      BY <2>1, <2>2, <2>3, ChosenKept
  <1>3. CASE CreateAuthCode(h)
    <2>1. UNCHANGED <<chosen, responses, used, reqs>> /\ pc[h] \in Approving
      BY <1>3 DEF CreateAuthCode, Approving
    <2>2. ReadChosen'
      BY <1>1, <1>3, <2>1, CreateAuthCodeStep, MovesChosen DEF ChosenInv
    <2> QED
      BY <2>1, <2>2, ChosenKept DEF HasRequest
  <1>4. CASE Respond(h)
    <2> DEFINE x == [key |-> loc[h].key, ConnectorID |-> loc[h].authReq.ConnectorID,
                     Claims |-> loc[h].authReq.Claims]
    <2>1. UNCHANGED <<chosen, used, reqs>> /\ responses' = responses \cup {x}
      BY <1>4 DEF Respond, store
    <2>2. ReadChosen'
      BY <1>4, <2>1, RespondStep, ReturnChosen DEF ChosenInv
    <2>3. /\ Chose(chosen, loc[h].key, loc[h].authReq.ConnectorID)
          /\ Chose(chosen, loc[h].key, loc[h].authReq.Claims.Connector)
      BY <1>0, <1>4 DEF Respond, LocalChosen, Approving
    <2>4. /\ x.key = loc[h].key /\ x.ConnectorID = loc[h].authReq.ConnectorID
          /\ x.Claims = loc[h].authReq.Claims
      OBVIOUS
    <2> HIDE DEF x
    <2>5. ToldChosen'
      BY <2>1, <2>3, <2>4 DEF ChosenInv, ToldChosen
    <2> QED
      BY <2>1, <2>2, <2>5 DEF ChosenInv, StoredChosen, HasRequest, ChosenKnown, Known
  <1>5. CASE Abort(h)
    <2>1. UNCHANGED <<chosen, responses, used, reqs>>
      BY <1>5 DEF Abort, store, history
    <2>2. ReadChosen'
      BY <1>5, <2>1, AbortStep, ReturnChosen DEF ChosenInv
    <2> QED
      BY <2>1, <2>2, ChosenKept DEF HasRequest
  <1> QED
    BY <1>2, <1>3, <1>4, <1>5, LoginChosen, SetConnectorChosen, FinalizeLoginChosen,
       HandleApprovalChosen DEF Handle

LEMMA ChosenStep == TypeInv /\ ListInv /\ ChosenInv /\ [Next]_vars => ChosenInv'
  <1> SUFFICES ASSUME TypeInv, ListInv, ChosenInv, [Next]_vars PROVE ChosenInv'
    OBVIOUS
  <1>1. ASSUME NEW k \in AuthReqs, HandleAuthorization(k) PROVE ChosenInv'
    <2> DEFINE new == Request(k, "", FALSE, NoIdentity, now + ValidFor)
    <2>1. new.ConnectorID = "" /\ new.LoggedIn = FALSE
      BY DEF Request
    <2>2. reqs' = [reqs EXCEPT ![k] = new]
      BY <1>1 DEF HandleAuthorization
    <2> HIDE DEF new
    <2>3. /\ k \in Keys /\ k \notin Known /\ used' = used \cup {k}
          /\ UNCHANGED <<chosen, responses, pc, loc>>
      BY <1>1, AuthAssumption DEF HandleAuthorization, Keys, Known
    <2>4. \A c \in Connectors : ~Chose(chosen, k, c)
      <3> SUFFICES ASSUME NEW c \in Connectors, [key |-> k, conn |-> c] \in chosen PROVE FALSE
        BY DEF Chose
      <3>1. [key |-> k, conn |-> c].key = k
        OBVIOUS
      <3> QED
        BY <2>3, <3>1 DEF ChosenInv, ChosenKnown
    <2>5. RequestChosen(chosen, k, new)
      BY <2>1, <2>4 DEF RequestChosen
    <2>6. StoredChosen'
      <3>1. reqs'[k] = new /\ \A j \in Keys \ {k} : reqs'[j] = reqs[j]
        BY <2>2, <2>3 DEF TypeInv, RequestsOK
      <3> QED
        BY <2>3, <2>5, <3>1 DEF ChosenInv, StoredChosen, HasRequest
    <2> QED
      BY <2>3, <2>6 DEF ChosenInv, ReadChosen, ToldChosen, ChosenKnown, Known
  <1>2. ASSUME NEW g \in Collectors, GarbageCollect(g) PROVE ChosenInv'
    <2>1. \A k \in Keys : HasRequest(k)' => HasRequest(k) /\ reqs'[k] = reqs[k]
      BY <1>2 DEF GarbageCollect, StartCollection, CollectRequest, ListCodes, CollectCode,
                  EndCollection, WithoutRequests, HasRequest, TypeInv, RequestsOK, store
    <2>2. UNCHANGED <<pc, loc, chosen, responses, used>>
      BY <1>2 DEF GarbageCollect, StartCollection, CollectRequest, ListCodes, CollectCode,
                  EndCollection, history
    <2> QED
      BY <2>1, <2>2, ChosenKept DEF ChosenInv, ReadChosen
  <1>3. CASE Tick \/ UNCHANGED vars \/ \E i \in CodeIDs : ExchangeCode(i)
    <2>1. UNCHANGED <<reqs, pc, loc, chosen, responses, used>>
      BY <1>3 DEF Tick, ExchangeCode, vars, store, history
    <2> QED
      BY <2>1, ChosenKept DEF ChosenInv, ReadChosen, HasRequest
  <1> QED
    BY <1>1, <1>2, <1>3, ChosenHandlers DEF Next

\* Whatever a client is told about its user, a login that succeeded wrote into
\* that request, and it names only connectors the user was sent to for that
\* request, in sub (ConnectorID) and in the Claims: with any number of logins,
\* connectors, approvals, collectors and crashes.
THEOREM AnswersFromLogins == Spec => []AnsweredFromLogin
  <1>1. Init => ChosenInv
    BY DEF Init, ChosenInv, StoredChosen, ReadChosen, LocalChosen, ToldChosen, ChosenKnown,
           HasRequest, Approving
  <1>2. LoginInv /\ ChosenInv => AnsweredFromLogin
    BY DEF LoginInv, ToldFromLogin, ChosenInv, ToldChosen, Chose, AnsweredFromLogin
  <1> QED
    BY <1>1, <1>2, TypeInit, TypeStep, LoginInit, LoginStep, ListInit, ListStep, ChosenStep,
       PTL DEF Spec

=============================================================================
