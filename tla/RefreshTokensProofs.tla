------------------------ MODULE RefreshTokensProofs ------------------------
(***************************************************************************)
(* Proofs about RefreshTokens, for any number of requests, clients, codes  *)
(* and failures.                                                           *)
(***************************************************************************)
EXTENDS RefreshTokens, TLAPS

\* The provers are tried in turn: those a leaf cites, or else Zenon before SMT.
USE ZenonT(30), SMTT(30)

\* Where handleAuthCode runs, and where a request works on a refresh token.
Exchanging == {"deleteCode", "connector", "create", "getSession",
               "createSession", "deleteOld", "updateSession", "cleanup",
               "respond"}
Holding == {"getSession", "createSession", "deleteOld", "updateSession",
            "cleanup", "touchSession", "claim", "answer", "revokeDelete"}

\* The locals a handler has set before it gets to a line.
SetAt(label, l) ==
    /\ label \in Exchanging => l.code \in Codes
    /\ label # "idle" => l.client \in Clients
    /\ label \in Holding => l.id # 0
    /\ l.id # 0 /\ label # "revokeDelete" => l.seen # 0
    /\ label = "deleteOld" => l.old # 0

ControlOK ==
    /\ pc \in [Requests -> PCs]
    /\ loc \in [Requests -> Local]
    /\ \A r \in Requests : SetAt(pc[r], loc[r])

DataOK ==
    /\ codes \in SUBSET Codes
    /\ refresh \in [IDs -> RefreshToken \cup {NoToken}]
    /\ session \in Session
    /\ lastID \in 0 .. MaxIDs
    /\ issued \in SUBSET [id: IDs, Token: IDs]
    /\ claims \in SUBSET [id: IDs, old: IDs, new: IDs]
    /\ redeemed \in [Codes -> Nat]
    /\ revoked \in SUBSET IDs
    /\ faults \in 0 .. MaxFaults

TypeInv == ControlOK /\ DataOK

\* What a step does to the request it is of, and to the others.
Moves(r, label, l) ==
    /\ pc'[r] = label /\ loc'[r] = l
    /\ \A q \in Requests \ {r} : pc'[q] = pc[q] /\ loc'[q] = loc[q]

LEMMA GotoMoves ==
    ASSUME ControlOK, NEW r \in Requests, NEW label \in PCs, Goto(r, label),
           label = "idle" \/ SetAt(label, loc[r])
    PROVE  /\ ControlOK'
           /\ Moves(r, label, IF label = "idle" THEN NoLocal ELSE loc[r])
  <1>1. NoLocal \in Local /\ SetAt("idle", NoLocal)
    BY DEF NoLocal, Locals, Local, SetAt, Exchanging, Holding
  <1>2. CASE label = "idle"
    BY <1>1, <1>2 DEF Goto, ControlOK, Moves
  <1>3. CASE label # "idle"
    BY <1>3 DEF Goto, ControlOK, Moves
  <1> QED
    BY <1>2, <1>3

LEMMA GotoWithMoves ==
    ASSUME ControlOK, NEW r \in Requests, NEW label \in PCs, NEW l \in Local,
           GotoWith(r, label, l), SetAt(label, l)
    PROVE  ControlOK' /\ Moves(r, label, l)
  BY DEF GotoWith, ControlOK, Moves

\* A storage call that took effect moves the request on, or fails it.
LEMMA AnsweredMoves ==
    ASSUME TypeInv, NEW r \in Requests, NEW label \in PCs, Answered(r, label),
           label # "idle", SetAt(label, loc[r])
    PROVE  /\ ControlOK'
           /\ faults' \in 0 .. MaxFaults
           /\ \/ faults' = faults /\ Moves(r, label, loc[r])
              \/ faults' > 0 /\ Moves(r, "idle", NoLocal)
              \/ /\ faults' > 0 /\ Moves(r, "cleanup", loc[r])
                 /\ pc[r] \in {"getSession", "createSession", "deleteOld",
                              "updateSession"}
  <1>1. CASE Goto(r, label) /\ UNCHANGED faults
    BY <1>1, GotoMoves DEF TypeInv, DataOK
  <1>2. CASE Goto(r, OnError(pc[r])) /\ faults < MaxFaults /\ faults' = faults + 1
    <2>1. faults' \in 0 .. MaxFaults /\ faults' > 0
      BY SMTT(30), Z3T(30), <1>2, RefreshAssumption DEF TypeInv, DataOK
    <2>2. CASE OnError(pc[r]) = "idle"
      BY <1>2, <2>1, <2>2, GotoMoves DEF TypeInv, PCs
    <2>3. CASE pc[r] \in {"getSession", "createSession", "deleteOld",
                          "updateSession"}
      <3>1. SetAt("cleanup", loc[r])
        BY <2>3 DEF TypeInv, ControlOK, SetAt, Exchanging, Holding
      <3> QED
        BY <1>2, <2>1, <2>3, <3>1, GotoMoves DEF TypeInv, PCs, OnError
    <2> QED
      BY <2>2, <2>3 DEF OnError
  <1> QED
    BY <1>1, <1>2 DEF Answered

LEMMA Labels ==
    /\ "idle" \in PCs /\ "deleteCode" \in PCs /\ "connector" \in PCs
    /\ "create" \in PCs /\ "getSession" \in PCs /\ "createSession" \in PCs
    /\ "deleteOld" \in PCs /\ "updateSession" \in PCs /\ "cleanup" \in PCs
    /\ "respond" \in PCs /\ "touchSession" \in PCs /\ "claim" \in PCs
    /\ "answer" \in PCs /\ "revokeDelete" \in PCs
  BY DEF PCs

-----------------------------------------------------------------------------
(***************************************************************************)
(* One lemma per action: the types are kept, and where the request goes.   *)
(***************************************************************************)
LEMMA GetAuthCodeStep ==
    ASSUME TypeInv, NEW r \in Requests, NEW c \in Codes, GetAuthCode(r, c)
    PROVE  /\ TypeInv'
           /\ Moves(r, "deleteCode", Locals(c, CodeClient[c], 0, 0, 0))
  <1> DEFINE l == Locals(c, CodeClient[c], 0, 0, 0)
  <1>1. l \in Local /\ SetAt("deleteCode", l)
    BY RefreshAssumption DEF Locals, Local, SetAt, Exchanging, Holding
  <1> QED
    BY <1>1, GotoWithMoves, Labels DEF GetAuthCode, TypeInv, DataOK

LEMMA DeleteAuthCodeStep ==
    ASSUME TypeInv, NEW r \in Requests, DeleteAuthCode(r)
    PROVE  /\ TypeInv'
           /\ \/ loc[r].code \in codes /\ Moves(r, "connector", loc[r])
              \/ Moves(r, "idle", NoLocal)
  <1>1. SetAt("connector", loc[r]) /\ pc[r] \notin Holding
    BY DEF DeleteAuthCode, TypeInv, ControlOK, SetAt, Exchanging, Holding
  <1> QED
    BY <1>1, GotoMoves, AnsweredMoves, Labels DEF DeleteAuthCode, TypeInv, DataOK

LEMMA ReqRefreshStep ==
    ASSUME TypeInv, NEW r \in Requests, ReqRefresh(r)
    PROVE  /\ TypeInv'
           /\ Moves(r, "create", loc[r]) \/ Moves(r, "respond", loc[r])
  <1>1. SetAt("create", loc[r]) /\ SetAt("respond", loc[r])
    BY DEF ReqRefresh, TypeInv, ControlOK, SetAt, Exchanging, Holding
  <1> QED
    BY <1>1, GotoMoves, Labels DEF ReqRefresh, TypeInv, DataOK

LEMMA CreateRefreshStep ==
    ASSUME TypeInv, NEW r \in Requests, CreateRefresh(r)
    PROVE  /\ TypeInv'
           /\ lastID + 1 \in IDs /\ loc[r].client \in Clients
           /\ \/ Moves(r, "getSession", Locals(loc[r].code, loc[r].client,
                                               lastID + 1, lastID + 1, 0))
              \/ Moves(r, "idle", NoLocal) /\ faults' > 0
  <1> DEFINE l == Locals(loc[r].code, loc[r].client, lastID + 1, lastID + 1, 0)
  <1>1. lastID + 1 \in IDs /\ lastID + 1 # 0 /\ lastID + 1 \in 0 .. MaxIDs
    BY SMTT(30), Z3T(30), RefreshAssumption DEF CreateRefresh, TypeInv, DataOK, IDs
  <1>2. loc[r].client \in Clients /\ loc[r].code \in Codes
    BY DEF CreateRefresh, TypeInv, ControlOK, SetAt, Exchanging
  <1>3. l \in Local /\ SetAt("getSession", l)
    BY <1>1, <1>2 DEF Locals, Local, SetAt, Exchanging, Holding
  <1>4. [ClientID |-> loc[r].client, Token |-> lastID + 1] \in RefreshToken
    BY <1>1, <1>2 DEF RefreshToken
  <1>5. refresh' \in [IDs -> RefreshToken \cup {NoToken}]
    BY <1>1, <1>4 DEF CreateRefresh, TypeInv, DataOK
  <1>6. CASE GotoWith(r, "getSession", l) /\ UNCHANGED faults
    BY <1>1, <1>2, <1>3, <1>5, <1>6, GotoWithMoves, Labels
    DEF CreateRefresh, TypeInv, DataOK
  <1>7. CASE faults < MaxFaults /\ faults' = faults + 1 /\ Goto(r, "idle")
    <2>1. faults' \in 0 .. MaxFaults /\ faults' > 0
      BY SMTT(30), Z3T(30), <1>7, RefreshAssumption DEF TypeInv, DataOK
    <2> QED
      BY <1>1, <1>2, <1>5, <1>7, <2>1, GotoMoves, Labels
      DEF CreateRefresh, TypeInv, DataOK
  <1> QED
    BY <1>6, <1>7 DEF CreateRefresh

LEMMA GetOfflineSessionsStep ==
    ASSUME TypeInv, NEW r \in Requests, GetOfflineSessions(r)
    PROVE  /\ TypeInv'
           /\ \/ ~session.exists /\ Moves(r, "createSession", loc[r])
              \/ session.exists /\ Moves(r, "updateSession", loc[r])
              \/ /\ session.exists /\ session.Refresh[loc[r].client] # 0
                 /\ Moves(r, "deleteOld",
                          Locals(loc[r].code, loc[r].client, loc[r].id, loc[r].seen,
                                 session.Refresh[loc[r].client]))
  <1> DEFINE ref == session.Refresh[loc[r].client]
             l == Locals(loc[r].code, loc[r].client, loc[r].id, loc[r].seen, ref)
  <1>1. /\ loc[r].client \in Clients /\ loc[r].code \in Codes
        /\ loc[r].id \in IDs /\ loc[r].id # 0
        /\ loc[r].seen \in IDs /\ loc[r].seen # 0
        /\ ref \in IDs \cup {0}
    BY DEF GetOfflineSessions, TypeInv, ControlOK, DataOK, SetAt, Exchanging,
           Holding, Session, Local
  <1>2. l \in Local /\ (ref # 0 => SetAt("deleteOld", l))
    BY <1>1 DEF Locals, Local, SetAt, Exchanging, Holding
  <1>3. SetAt("createSession", loc[r]) /\ SetAt("updateSession", loc[r])
    BY <1>1 DEF SetAt, Exchanging, Holding
  <1>4. TypeInv' <=> ControlOK'
    BY DEF GetOfflineSessions, TypeInv, DataOK
  <1>5. CASE ~session.exists /\ Goto(r, "createSession")
    BY <1>3, <1>4, <1>5, GotoMoves, Labels DEF TypeInv
  <1>6. CASE session.exists /\ Goto(r, "updateSession")
    BY <1>3, <1>4, <1>6, GotoMoves, Labels DEF TypeInv
  <1>7. CASE session.exists /\ ref # 0 /\ GotoWith(r, "deleteOld", l)
    BY <1>2, <1>4, <1>7, GotoWithMoves, Labels DEF TypeInv
  <1> QED
    BY <1>5, <1>6, <1>7 DEF GetOfflineSessions

LEMMA CreateOfflineSessionsStep ==
    ASSUME TypeInv, NEW r \in Requests, CreateOfflineSessions(r)
    PROVE  /\ TypeInv'
           /\ loc[r].client \in Clients
           /\ \/ session' = session /\ Moves(r, "cleanup", loc[r])
              \/ /\ ~session.exists
                 /\ \/ Moves(r, "respond", loc[r])
                    \/ Moves(r, "cleanup", loc[r]) /\ faults' > 0
                    \/ Moves(r, "idle", NoLocal) /\ faults' > 0
  <1>1. SetAt("respond", loc[r]) /\ SetAt("cleanup", loc[r]) /\ loc[r].client \in Clients
    BY DEF CreateOfflineSessions, TypeInv, ControlOK, SetAt, Exchanging, Holding
  <1>2. [exists |-> TRUE, Refresh |-> [NoRefs EXCEPT ![loc[r].client] = loc[r].id]]
          \in Session
    BY DEF TypeInv, ControlOK, Session, NoRefs, Local
  <1>3. CASE session.exists
    BY <1>1, <1>3, GotoMoves, Labels DEF CreateOfflineSessions, TypeInv, DataOK
  <1>4. CASE ~session.exists
    BY <1>1, <1>2, <1>4, AnsweredMoves, Labels
    DEF CreateOfflineSessions, TypeInv, DataOK
  <1> QED
    BY <1>3, <1>4

LEMMA DeleteOldRefreshStep ==
    ASSUME TypeInv, NEW r \in Requests, DeleteOldRefresh(r)
    PROVE  /\ TypeInv'
           /\ \/ Stored(loc[r].old) /\ Moves(r, "updateSession", loc[r])
              \/ Moves(r, "cleanup", loc[r]) /\ (faults' > 0 \/ refresh' = refresh)
              \/ Moves(r, "idle", NoLocal) /\ faults' > 0
  <1>1. SetAt("updateSession", loc[r]) /\ SetAt("cleanup", loc[r])
    BY DEF DeleteOldRefresh, TypeInv, ControlOK, SetAt, Exchanging, Holding
  <1>2. CASE Stored(loc[r].old)
    <2>1. refresh' \in [IDs -> RefreshToken \cup {NoToken}]
      BY <1>2 DEF DeleteOldRefresh, TypeInv, DataOK
    <2> QED
      BY <1>1, <1>2, <2>1, AnsweredMoves, Labels DEF DeleteOldRefresh, TypeInv, DataOK
  <1>3. CASE ~Stored(loc[r].old)
    BY <1>1, <1>3, GotoMoves, Labels DEF DeleteOldRefresh, TypeInv, DataOK
  <1> QED
    BY <1>2, <1>3

LEMMA UpdateOfflineSessionsStep ==
    ASSUME TypeInv, NEW r \in Requests, UpdateOfflineSessions(r)
    PROVE  /\ TypeInv'
           /\ loc[r].client \in Clients
           /\ \/ Moves(r, "respond", loc[r])
              \/ Moves(r, "cleanup", loc[r]) /\ faults' > 0
              \/ Moves(r, "idle", NoLocal) /\ faults' > 0
  <1>1. SetAt("respond", loc[r]) /\ loc[r].client \in Clients
    BY DEF UpdateOfflineSessions, TypeInv, ControlOK, SetAt, Exchanging, Holding
  <1>2. session' \in Session
    BY DEF UpdateOfflineSessions, TypeInv, ControlOK, DataOK, Session, Local
  <1> QED
    BY <1>1, <1>2, AnsweredMoves, Labels DEF UpdateOfflineSessions, TypeInv, DataOK

LEMMA CleanupStep ==
    ASSUME TypeInv, NEW r \in Requests, Cleanup(r)
    PROVE  TypeInv' /\ Moves(r, "idle", NoLocal)
  <1>1. refresh' \in [IDs -> RefreshToken \cup {NoToken}]
    BY DEF Cleanup, TypeInv, DataOK
  <1> QED
    BY <1>1, GotoMoves, Labels DEF Cleanup, TypeInv, DataOK

LEMMA WriteCodeResponseStep ==
    ASSUME TypeInv, NEW r \in Requests, WriteCodeResponse(r)
    PROVE  TypeInv' /\ Moves(r, "idle", NoLocal) /\ loc[r].code \in Codes
  <1>1. loc[r].id # 0 =>
          [id |-> loc[r].id, Token |-> loc[r].seen] \in [id: IDs, Token: IDs]
    BY DEF WriteCodeResponse, TypeInv, ControlOK, SetAt, Local
  <1>2. loc[r].code \in Codes
    BY DEF WriteCodeResponse, TypeInv, ControlOK, SetAt, Exchanging
  <1>3. redeemed' \in [Codes -> Nat]
    BY SMTT(30), Z3T(30), <1>2 DEF WriteCodeResponse, TypeInv, DataOK
  <1>4. issued' \in SUBSET [id: IDs, Token: IDs]
    BY <1>1 DEF WriteCodeResponse, TypeInv, DataOK
  <1> QED
    BY <1>2, <1>3, <1>4, GotoMoves, Labels DEF WriteCodeResponse, TypeInv, DataOK

LEMMA GetRefreshStep ==
    ASSUME TypeInv, NEW r \in Requests, NEW t \in issued, GetRefresh(r, t)
    PROVE  /\ TypeInv'
           /\ t.id \in IDs /\ t.Token \in IDs
           /\ Moves(r, "touchSession",
                    Locals("none", refresh[t.id].ClientID, t.id, t.Token, 0))
  <1> DEFINE l == Locals("none", refresh[t.id].ClientID, t.id, t.Token, 0)
  <1>1. /\ t.id \in IDs /\ t.Token \in IDs
        /\ refresh[t.id].ClientID \in Clients
        /\ t.id # 0 /\ t.Token # 0
    BY SMTT(30), Z3T(30), RefreshAssumption
    DEF GetRefresh, Stored, TypeInv, DataOK, RefreshToken, IDs
  <1>2. l \in Local /\ SetAt("touchSession", l)
    BY <1>1 DEF Locals, Local, SetAt, Exchanging, Holding
  <1> QED
    BY <1>1, <1>2, GotoWithMoves, Labels DEF GetRefresh, TypeInv, DataOK

LEMMA TouchOfflineSessionsStep ==
    ASSUME TypeInv, NEW r \in Requests, TouchOfflineSessions(r)
    PROVE  /\ TypeInv'
           /\ Moves(r, "claim", loc[r]) \/ Moves(r, "idle", NoLocal)
  <1>1. SetAt("claim", loc[r])
    BY DEF TouchOfflineSessions, TypeInv, ControlOK, SetAt, Exchanging, Holding
  <1>2. CASE session.Refresh[loc[r].client] = loc[r].id
    BY <1>1, <1>2, AnsweredMoves, Labels DEF TouchOfflineSessions, TypeInv, DataOK
  <1>3. CASE session.Refresh[loc[r].client] # loc[r].id
    BY <1>3, GotoMoves, Labels DEF TouchOfflineSessions, TypeInv, DataOK
  <1> QED
    BY <1>2, <1>3

LEMMA UpdateRefreshTokenStep ==
    ASSUME TypeInv, NEW r \in Requests, UpdateRefreshToken(r)
    PROVE  /\ TypeInv'
           /\ loc[r].id \in IDs
           /\ \/ /\ Stored(loc[r].id) /\ refresh[loc[r].id].Token = loc[r].seen
                 /\ \/ Moves(r, "answer", Locals("none", loc[r].client, loc[r].id,
                                                 lastID + 1, 0))
                    \/ Moves(r, "idle", NoLocal) /\ faults' > 0
              \/ Moves(r, "idle", NoLocal) /\ UNCHANGED <<refresh, lastID, claims>>
  <1> DEFINE l == Locals("none", loc[r].client, loc[r].id, lastID + 1, 0)
             hit == Stored(loc[r].id) /\ refresh[loc[r].id].Token = loc[r].seen
  <1>1. lastID + 1 \in IDs /\ lastID + 1 # 0 /\ lastID + 1 \in 0 .. MaxIDs
    BY SMTT(30), Z3T(30), RefreshAssumption DEF UpdateRefreshToken, TypeInv, DataOK, IDs
  <1>2. /\ loc[r].client \in Clients
        /\ loc[r].id \in IDs /\ loc[r].id # 0 /\ loc[r].seen \in IDs
    BY DEF UpdateRefreshToken, TypeInv, ControlOK, SetAt, Holding, Local
  <1>3. l \in Local /\ SetAt("answer", l)
    BY <1>1, <1>2 DEF Locals, Local, SetAt, Exchanging, Holding
  <1>4. CASE ~hit
    BY <1>2, <1>4, GotoMoves, Labels DEF UpdateRefreshToken, TypeInv, DataOK
  <1>5. CASE hit
    <2>1. [ClientID |-> refresh[loc[r].id].ClientID, Token |-> lastID + 1] \in RefreshToken
      BY <1>1, <1>2, <1>5 DEF RefreshToken, TypeInv, DataOK, Stored
    <2>2. [id |-> loc[r].id, old |-> loc[r].seen, new |-> lastID + 1]
            \in [id: IDs, old: IDs, new: IDs]
      BY <1>1, <1>2
    <2>3. /\ refresh' \in [IDs -> RefreshToken \cup {NoToken}]
          /\ lastID' \in 0 .. MaxIDs
          /\ claims' \in SUBSET [id: IDs, old: IDs, new: IDs]
      BY SMTT(30), Z3T(30), <1>1, <1>5, <2>1, <2>2 DEF UpdateRefreshToken, TypeInv, DataOK
    <2>4. CASE GotoWith(r, "answer", l) /\ UNCHANGED faults
      BY <1>2, <1>3, <1>5, <2>3, <2>4, GotoWithMoves, Labels
      DEF UpdateRefreshToken, TypeInv, DataOK
    <2>5. CASE faults < MaxFaults /\ faults' = faults + 1 /\ Goto(r, "idle")
      <3>1. faults' \in 0 .. MaxFaults /\ faults' > 0
        BY SMTT(30), Z3T(30), <2>5, RefreshAssumption DEF TypeInv, DataOK
      <3> QED
        BY <1>2, <1>5, <2>3, <2>5, <3>1, GotoMoves, Labels
        DEF UpdateRefreshToken, TypeInv, DataOK
    <2> QED
      BY <1>5, <2>4, <2>5 DEF UpdateRefreshToken, Claimed
  <1> QED
    BY <1>4, <1>5

LEMMA WriteRefreshResponseStep ==
    ASSUME TypeInv, NEW r \in Requests, WriteRefreshResponse(r)
    PROVE  TypeInv' /\ Moves(r, "idle", NoLocal)
  <1>1. [id |-> loc[r].id, Token |-> loc[r].seen] \in [id: IDs, Token: IDs]
    BY DEF WriteRefreshResponse, TypeInv, ControlOK, SetAt, Holding, Local
  <1> QED
    BY <1>1, GotoMoves, Labels DEF WriteRefreshResponse, TypeInv, DataOK

LEMMA RevokeRefStep ==
    ASSUME TypeInv, NEW r \in Requests, NEW c \in Revocable, RevokeRef(r, c)
    PROVE  /\ TypeInv'
           /\ c \in Clients /\ session.Refresh[c] \in IDs
           /\ \/ Moves(r, "revokeDelete", Locals("none", c, session.Refresh[c], 0, 0))
              \/ UNCHANGED <<pc, loc>> /\ faults' > 0
  <1> DEFINE l == Locals("none", c, session.Refresh[c], 0, 0)
  <1>1. session.Refresh[c] \in IDs /\ c \in Clients /\ session.Refresh[c] # 0
    BY RefreshAssumption DEF RevokeRef, TypeInv, DataOK, Session
  <1>2. l \in Local /\ SetAt("revokeDelete", l)
    BY <1>1 DEF Locals, Local, SetAt, Exchanging, Holding
  <1>3. session' \in Session
    BY <1>1 DEF RevokeRef, TypeInv, DataOK, Session
  <1>4. CASE GotoWith(r, "revokeDelete", l) /\ UNCHANGED faults
    BY <1>1, <1>2, <1>3, <1>4, GotoWithMoves, Labels DEF RevokeRef, TypeInv, DataOK
  <1>5. CASE faults < MaxFaults /\ faults' = faults + 1 /\ UNCHANGED <<pc, loc>>
    <2>1. faults' \in 0 .. MaxFaults /\ faults' > 0
      BY SMTT(30), Z3T(30), <1>5, RefreshAssumption DEF TypeInv, DataOK
    <2> QED
      BY <1>1, <1>3, <1>5, <2>1 DEF RevokeRef, TypeInv, DataOK, ControlOK
  <1> QED
    BY <1>4, <1>5 DEF RevokeRef

LEMMA RevokeDeleteStep ==
    ASSUME TypeInv, NEW r \in Requests, RevokeDelete(r)
    PROVE  TypeInv' /\ Moves(r, "idle", NoLocal)
  <1>1. /\ refresh' \in [IDs -> RefreshToken \cup {NoToken}]
        /\ revoked' \in SUBSET IDs
    BY DEF RevokeDelete, TypeInv, DataOK, Stored
  <1> QED
    BY <1>1, GotoMoves, Labels DEF RevokeDelete, TypeInv, DataOK

LEMMA FailureStep ==
    ASSUME TypeInv, NEW r \in Requests, StorageError(r) \/ Crash(r)
    PROVE  /\ TypeInv'
           /\ faults' > 0
           /\ \/ Moves(r, "idle", NoLocal)
              \/ pc[r] \in Holding /\ pc[r] \in Exchanging /\ Moves(r, "cleanup", loc[r])
  <1>1. faults' \in 0 .. MaxFaults /\ faults' > 0
    BY SMTT(30), Z3T(30), RefreshAssumption DEF StorageError, Crash, TypeInv, DataOK
  <1>2. CASE Goto(r, "idle")
    BY <1>1, <1>2, GotoMoves, Labels DEF StorageError, Crash, TypeInv, DataOK
  <1>3. CASE StorageError(r) /\ pc[r] \in {"getSession", "createSession",
                                           "deleteOld", "updateSession"}
    <2>1. /\ SetAt("cleanup", loc[r])
          /\ pc[r] \in Holding /\ pc[r] \in Exchanging
      BY <1>3 DEF TypeInv, ControlOK, SetAt, Exchanging, Holding
    <2> QED
      BY <1>1, <1>3, <2>1, GotoMoves, Labels DEF StorageError, OnError, TypeInv, DataOK
  <1> QED
    BY <1>2, <1>3 DEF StorageError, Crash, OnError

\* An update the storage refuses changes nothing and fails the request.
LEMMA ConflictStep ==
    ASSUME TypeInv, NEW r \in Requests, Conflict(r)
    PROVE  /\ TypeInv'
           /\ \/ pc[r] = "touchSession" /\ Moves(r, "idle", NoLocal)
              \/ pc[r] = "updateSession" /\ Moves(r, "cleanup", loc[r])
  <1>1. CASE pc[r] = "touchSession"
    <2>1. Goto(r, "idle")
      BY <1>1 DEF Conflict, OnError
    <2> QED
      BY <1>1, <2>1, GotoMoves, Labels DEF Conflict, TypeInv, DataOK
  <1>2. CASE pc[r] = "updateSession"
    <2>1. Goto(r, "cleanup") /\ SetAt("cleanup", loc[r])
      BY <1>2 DEF Conflict, OnError, TypeInv, ControlOK, SetAt, Exchanging, Holding
    <2> QED
      BY <1>2, <2>1, GotoMoves, Labels DEF Conflict, TypeInv, DataOK
  <1> QED
    BY <1>1, <1>2 DEF Conflict

LEMMA TypeStep == TypeInv /\ [Next]_vars => TypeInv'
  <1> SUFFICES ASSUME TypeInv, [Next]_vars PROVE TypeInv'
    OBVIOUS
  <1>1. CASE UNCHANGED vars
    BY <1>1 DEF TypeInv, ControlOK, DataOK, vars
  <1>2. ASSUME NEW r \in Requests, HandleAuthCode(r) PROVE TypeInv'
    BY <1>2, GetAuthCodeStep, DeleteAuthCodeStep, ReqRefreshStep, CreateRefreshStep,
       GetOfflineSessionsStep, CreateOfflineSessionsStep, DeleteOldRefreshStep,
       UpdateOfflineSessionsStep, CleanupStep, WriteCodeResponseStep
    DEF HandleAuthCode
  <1>3. ASSUME NEW r \in Requests, HandleRefreshToken(r) PROVE TypeInv'
    BY <1>3, GetRefreshStep, TouchOfflineSessionsStep, UpdateRefreshTokenStep,
       WriteRefreshResponseStep
    DEF HandleRefreshToken
  <1>4. ASSUME NEW r \in Requests, RevokeRefresh(r) PROVE TypeInv'
    BY <1>4, RevokeRefStep, RevokeDeleteStep DEF RevokeRefresh
  <1>5. ASSUME NEW c \in Codes, CollectCode(c) PROVE TypeInv'
    BY <1>5 DEF CollectCode, TypeInv, ControlOK, DataOK
  <1> QED
    BY <1>1, <1>2, <1>3, <1>4, <1>5, ConflictStep, FailureStep DEF Next

LEMMA TypeInit == Init => TypeInv
  BY SMTT(30), Z3T(30), RefreshAssumption
  DEF Init, TypeInv, ControlOK, DataOK, SetAt, NoRefs, Session, NoLocal, Locals,
      Local, PCs, Exchanging, Holding

\* Races are between requests, and lost by clients.
RacesOK == raced \in SUBSET Requests /\ lost \in SUBSET Clients

LEMMA RacesStep == TypeInv /\ RacesOK /\ [Next]_vars => RacesOK'
  <1> SUFFICES ASSUME TypeInv, RacesOK, [Next]_vars PROVE RacesOK'
    OBVIOUS
  <1> USE DEF RacesOK
  <1>1. CASE UNCHANGED <<raced, lost>>
    BY <1>1
  <1>2. ASSUME NEW r \in Requests, HandleAuthCode(r) PROVE RacesOK'
    BY <1>1, <1>2
    DEF HandleAuthCode, GetAuthCode, DeleteAuthCode, ReqRefresh, CreateRefresh,
        GetOfflineSessions, CreateOfflineSessions, DeleteOldRefresh,
        UpdateOfflineSessions, Cleanup, WriteCodeResponse, Overtake
  <1>3. ASSUME NEW r \in Requests, HandleRefreshToken(r) PROVE RacesOK'
    BY <1>1, <1>3
    DEF HandleRefreshToken, GetRefresh, TouchOfflineSessions, UpdateRefreshToken,
        WriteRefreshResponse, Overtake
  <1>4. ASSUME NEW r \in Requests, RevokeRefresh(r) PROVE RacesOK'
    BY <1>1, <1>4 DEF RevokeRefresh, RevokeRef, RevokeDelete, Overtake
  <1>5. ASSUME NEW r \in Requests, Conflict(r) PROVE RacesOK'
    <2>1. pc[r] = "updateSession" => loc[r].client \in Clients
      BY DEF TypeInv, ControlOK, SetAt
    <2> QED
      BY <1>5, <2>1 DEF Conflict
  <1>6. ASSUME NEW r \in Requests, StorageError(r) \/ Crash(r) PROVE RacesOK'
    BY <1>6 DEF StorageError, Crash
  <1> QED
    BY <1>1, <1>2, <1>3, <1>4, <1>5, <1>6 DEF Next, CollectCode, vars

\* Every variable of RefreshTokens keeps its type, and a request has the locals
\* its handler set before the line it is at.
THEOREM TypeCorrect == Spec => []TypeOK
  <1>1. TypeInv /\ RacesOK => TypeOK
    BY DEF TypeInv, ControlOK, DataOK, RacesOK, TypeOK
  <1>2. Init => RacesOK
    BY DEF Init, RacesOK
  <1> QED
    BY <1>1, <1>2, TypeInit, TypeStep, RacesStep, PTL DEF Spec

-----------------------------------------------------------------------------
(***************************************************************************)
(* Claims and revocations.  A Token only ever grows, because every claim   *)
(* compares it and replaces it by a new number; so an old value never      *)
(* matches again.  An ID that was deleted is never used for a new token.   *)
(***************************************************************************)
TokensNumbered ==
    \A i \in IDs : Stored(i) => i =< lastID /\ refresh[i].Token =< lastID

ClaimsPast ==
    \A x \in claims : /\ x.id =< lastID
                      /\ Stored(x.id) => x.old < refresh[x.id].Token

RevokedGone == \A i \in revoked : i =< lastID /\ ~Stored(i)

HistoryInv == TokensNumbered /\ ClaimsPast /\ ClaimedOnce /\ RevokedGone

\* A step that only deletes refresh tokens keeps HistoryInv.
LEMMA DeletionKeepsHistory ==
    ASSUME TypeInv, HistoryInv, NEW i,
           refresh' = [refresh EXCEPT ![i] = NoToken],
           UNCHANGED <<lastID, claims>>,
           \/ revoked' = revoked
           \/ revoked' = revoked \cup {i} /\ Stored(i)
    PROVE  HistoryInv'
  <1>1. \A j \in IDs : Stored(j)' => Stored(j) /\ refresh'[j] = refresh[j]
    BY DEF TypeInv, DataOK, Stored
  <1>2. Stored(i) => ~Stored(i)' /\ i =< lastID
    BY DEF TypeInv, DataOK, Stored, HistoryInv, TokensNumbered
  <1>3. TokensNumbered'
    BY <1>1 DEF HistoryInv, TokensNumbered
  <1>4. ClaimsPast'
    BY <1>1 DEF HistoryInv, ClaimsPast, TypeInv, DataOK
  <1>5. RevokedGone'
    BY <1>1, <1>2 DEF HistoryInv, RevokedGone, TypeInv, DataOK, Stored
  <1> QED
    BY <1>3, <1>4, <1>5 DEF HistoryInv, ClaimedOnce

LEMMA HistoryStep == TypeInv /\ HistoryInv /\ [Next]_vars => HistoryInv'
  <1> SUFFICES ASSUME TypeInv, HistoryInv, [Next]_vars PROVE HistoryInv'
    OBVIOUS
  <1>1. CASE UNCHANGED <<refresh, lastID, claims, revoked>>
    BY <1>1 DEF HistoryInv, TokensNumbered, ClaimsPast, ClaimedOnce, RevokedGone, Stored
  <1>2. ASSUME NEW r \in Requests, CreateRefresh(r) PROVE HistoryInv'
    <2>1. lastID + 1 \in IDs /\ lastID' = lastID + 1 /\ lastID \in Nat
      <3>1. lastID + 1 \in IDs
        BY <1>2, CreateRefreshStep
      <3>2. lastID' = lastID + 1
        BY <1>2 DEF CreateRefresh
      <3> QED
        BY SMTT(30), Z3T(30), <3>1, <3>2, RefreshAssumption DEF TypeInv, DataOK
    <2>2. /\ refresh' = [refresh EXCEPT ![lastID + 1] =
                            [ClientID |-> loc[r].client, Token |-> lastID + 1]]
          /\ UNCHANGED <<claims, revoked>>
      BY <1>2 DEF CreateRefresh
    <2>3. \A j \in IDs : j # lastID + 1 =>
            (Stored(j)' <=> Stored(j)) /\ refresh'[j] = refresh[j]
      BY <2>2 DEF TypeInv, DataOK, Stored
    <2>4. refresh'[lastID + 1].Token = lastID + 1
      BY <2>1, <2>2 DEF TypeInv, DataOK
    <2>5. TokensNumbered'
      BY SMTT(30), Z3T(30), <2>1, <2>3, <2>4
      DEF HistoryInv, TokensNumbered, TypeInv, DataOK, RefreshToken, IDs, Stored
    <2>6. ClaimsPast'
      BY SMTT(30), Z3T(30), <2>1, <2>2, <2>3 DEF HistoryInv, ClaimsPast, TypeInv, DataOK, IDs
    <2>7. RevokedGone'
      BY SMTT(30), Z3T(30), <2>1, <2>2, <2>3 DEF HistoryInv, RevokedGone, TypeInv, DataOK, IDs
    <2> QED
      BY <2>2, <2>5, <2>6, <2>7 DEF HistoryInv, ClaimedOnce
  <1>3. ASSUME NEW r \in Requests, DeleteOldRefresh(r) PROVE HistoryInv'
    <2>1. /\ UNCHANGED <<lastID, claims, revoked>>
          /\ \/ refresh' = [refresh EXCEPT ![loc[r].old] = NoToken]
             \/ refresh' = refresh
      BY <1>3 DEF DeleteOldRefresh
    <2> QED
      BY <1>1, <2>1, DeletionKeepsHistory
  <1>4. ASSUME NEW r \in Requests, Cleanup(r) PROVE HistoryInv'
    <2>1. /\ UNCHANGED <<lastID, claims, revoked>>
          /\ refresh' = [refresh EXCEPT ![loc[r].id] = NoToken]
      BY <1>4 DEF Cleanup
    <2> QED
      BY <2>1, DeletionKeepsHistory
  <1>5. ASSUME NEW r \in Requests, RevokeDelete(r) PROVE HistoryInv'
    <2>1. /\ UNCHANGED <<lastID, claims>>
          /\ refresh' = [refresh EXCEPT ![loc[r].id] = NoToken]
          /\ \/ revoked' = revoked
             \/ revoked' = revoked \cup {loc[r].id} /\ Stored(loc[r].id)
      BY <1>5 DEF RevokeDelete
    <2> QED
      BY <2>1, DeletionKeepsHistory
  <1>6. ASSUME NEW r \in Requests, UpdateRefreshToken(r) PROVE HistoryInv'
    <2> DEFINE id == loc[r].id
               x == [id |-> id, old |-> loc[r].seen, new |-> lastID + 1]
    <2>1. CASE UNCHANGED <<refresh, lastID, claims>>
      BY <2>1, <1>6, <1>1 DEF UpdateRefreshToken
    <2>2. CASE Stored(id) /\ refresh[id].Token = loc[r].seen
      <3>0. id \in IDs /\ lastID \in Nat /\ refresh[id].Token \in Nat
        <4>1. id \in IDs /\ refresh[id] \in RefreshToken
          BY <2>2 DEF TypeInv, DataOK, Stored
        <4>2. lastID \in Nat
          BY SMTT(30), Z3T(30), RefreshAssumption DEF TypeInv, DataOK
        <4> QED
          BY SMTT(30), Z3T(30), <4>1, <4>2 DEF RefreshToken, IDs
      <3>1. /\ id \in IDs /\ lastID \in Nat /\ refresh[id].Token \in Nat
            /\ lastID' = lastID + 1
            /\ refresh' = [refresh EXCEPT ![id] =
                 [ClientID |-> refresh[id].ClientID, Token |-> lastID + 1]]
            /\ claims' = claims \cup {x}
            /\ UNCHANGED revoked
        BY <1>6, <2>2, <3>0 DEF UpdateRefreshToken
      <3>2. \A j \in IDs : j # id =>
              (Stored(j)' <=> Stored(j)) /\ refresh'[j] = refresh[j]
        BY <3>1 DEF TypeInv, DataOK, Stored
      <3>3. refresh'[id].Token = lastID + 1
        BY <3>1 DEF TypeInv, DataOK
      <3>4. id =< lastID /\ refresh[id].Token =< lastID
        BY <2>2, <3>1 DEF HistoryInv, TokensNumbered
      <3>5. TokensNumbered'
        <4> SUFFICES ASSUME NEW j \in IDs, Stored(j)'
                     PROVE  j =< lastID' /\ refresh'[j].Token =< lastID'
          BY DEF TokensNumbered
        <4>1. CASE j = id
          BY SMTT(30), Z3T(30), <3>1, <3>3, <3>4, <4>1 DEF IDs
        <4>2. CASE j # id
          <5>1. j =< lastID /\ refresh[j].Token =< lastID /\ refresh'[j] = refresh[j]
            BY <3>2, <4>2 DEF HistoryInv, TokensNumbered
          <5>2. refresh[j].Token \in Nat
            BY SMTT(30), Z3T(30) DEF TypeInv, DataOK, RefreshToken, IDs, NoToken
          <5> QED
            BY SMTT(30), Z3T(30), <3>1, <5>1, <5>2 DEF IDs
        <4> QED
          BY <4>1, <4>2
      <3>6. ClaimsPast'
        <4> SUFFICES ASSUME NEW y \in claims'
                     PROVE  /\ y.id =< lastID'
                            /\ Stored(y.id)' => y.old < refresh'[y.id].Token
          BY DEF ClaimsPast
        <4>1. CASE y = x
          BY SMTT(30), Z3T(30), <2>2, <3>1, <3>3, <3>4, <4>1 DEF IDs
        <4>2. CASE y \in claims
          <5>1. y.id \in IDs /\ y.old \in IDs /\ y.id =< lastID
                /\ (Stored(y.id) => y.old < refresh[y.id].Token)
            BY <4>2 DEF HistoryInv, ClaimsPast, TypeInv, DataOK
          <5>2. CASE y.id = id
            BY SMTT(30), Z3T(30), <2>2, <3>1, <3>3, <3>4, <5>1, <5>2 DEF IDs
          <5>3. CASE y.id # id
            BY SMTT(30), Z3T(30), <3>1, <3>2, <5>1, <5>3 DEF IDs
          <5> QED
            BY <5>2, <5>3
        <4> QED
          BY <3>1, <4>1, <4>2
      <3>7. ClaimedOnce'
        <4>1. \A y \in claims : ~(y.id = id /\ y.old = loc[r].seen)
          BY SMTT(30), Z3T(30), <2>2, <3>1 DEF HistoryInv, ClaimsPast
        <4> QED
          BY SMTT(30), Z3T(30), <3>1, <4>1 DEF HistoryInv, ClaimedOnce
      <3>8. RevokedGone'
        <4>1. id \notin revoked
          BY <2>2 DEF HistoryInv, RevokedGone
        <4> QED
          BY SMTT(30), Z3T(30), <3>1, <3>2, <4>1 DEF HistoryInv, RevokedGone, TypeInv, DataOK, IDs
      <3> QED
        BY <3>5, <3>6, <3>7, <3>8 DEF HistoryInv
    <2> QED
      BY <1>6, <2>1, <2>2 DEF UpdateRefreshToken
  <1>7. ASSUME NEW r \in Requests,
               HandleAuthCode(r) \/ HandleRefreshToken(r) \/ RevokeRefresh(r),
               ~CreateRefresh(r), ~DeleteOldRefresh(r), ~Cleanup(r),
               ~RevokeDelete(r), ~UpdateRefreshToken(r)
        PROVE  UNCHANGED <<refresh, lastID, claims, revoked>>
    BY <1>7
    DEF HandleAuthCode, HandleRefreshToken, RevokeRefresh, GetAuthCode,
        DeleteAuthCode, ReqRefresh, GetOfflineSessions, CreateOfflineSessions,
        UpdateOfflineSessions, WriteCodeResponse, GetRefresh,
        TouchOfflineSessions, WriteRefreshResponse, RevokeRef
  <1>8. ASSUME NEW r \in Requests, Conflict(r) \/ StorageError(r) \/ Crash(r)
        PROVE  UNCHANGED <<refresh, lastID, claims, revoked>>
    BY <1>8 DEF Conflict, StorageError, Crash
  <1> QED
    BY <1>1, <1>2, <1>3, <1>4, <1>5, <1>6, <1>7, <1>8 DEF Next, CollectCode, vars

LEMMA HistoryInit == Init => HistoryInv
  BY DEF Init, HistoryInv, TokensNumbered, ClaimsPast, ClaimedOnce, RevokedGone, Stored

\* However many requests present the same refresh token at once, and whatever
\* storage call fails or server dies, handleRefreshToken honours it once.
THEOREM TokensClaimedOnce == Spec => []ClaimedOnce
  <1>1. HistoryInv => ClaimedOnce
    BY DEF HistoryInv
  <1> QED
    BY <1>1, TypeInit, TypeStep, HistoryInit, HistoryStep, PTL DEF Spec

\* What RevokeRefresh reported revoked never comes back to storage.
THEOREM RevocationsFinal == Spec => []RevokedStaysRevoked
  <1>1. HistoryInv => RevokedStaysRevoked
    BY DEF HistoryInv, RevokedGone, RevokedStaysRevoked
  <1> QED
    BY <1>1, TypeInit, TypeStep, HistoryInit, HistoryStep, PTL DEF Spec

-----------------------------------------------------------------------------
(***************************************************************************)
(* Authorization codes.  A request past its DeleteAuthCode owns its code:  *)
(* the code is gone, unanswered, and no other request is past deleting it. *)
(***************************************************************************)
PastDelete == Exchanging \ {"deleteCode"}

CodeInv ==
    /\ \A r \in Requests : pc[r] \in PastDelete =>
          loc[r].code \notin codes /\ redeemed[loc[r].code] = 0
    /\ \A r, q \in Requests :
          pc[r] \in PastDelete /\ pc[q] \in PastDelete /\ loc[r].code = loc[q].code
              => r = q
    /\ \A c \in codes : redeemed[c] = 0
    /\ CodeRedeemedOnce

\* A step that does not touch codes keeps CodeInv if its request stays on the
\* same side of DeleteAuthCode or ends.
LEMMA MoveKeepsCodes ==
    ASSUME CodeInv, NEW r \in Requests, NEW label, NEW l, Moves(r, label, l),
           UNCHANGED <<codes, redeemed>>,
           \/ label \notin PastDelete
           \/ pc[r] \in PastDelete /\ l.code = loc[r].code
    PROVE  CodeInv'
  BY SMTT(30), Z3T(30) DEF CodeInv, Moves, CodeRedeemedOnce

LEMMA CodeStep == TypeInv /\ CodeInv /\ [Next]_vars => CodeInv'
  <1> SUFFICES ASSUME TypeInv, CodeInv, [Next]_vars PROVE CodeInv'
    OBVIOUS
  <1> USE DEF PastDelete, Exchanging
  <1>1. CASE UNCHANGED <<codes, redeemed, pc, loc>>
    BY <1>1 DEF CodeInv, CodeRedeemedOnce
  <1>2. ASSUME NEW r \in Requests, NEW c \in Codes, GetAuthCode(r, c) PROVE CodeInv'
    BY <1>2, GetAuthCodeStep, MoveKeepsCodes DEF GetAuthCode
  <1>3. ASSUME NEW r \in Requests, DeleteAuthCode(r) PROVE CodeInv'
    <2>1. CASE Moves(r, "connector", loc[r]) /\ loc[r].code \in codes
      <3>1. codes' = codes \ {loc[r].code} /\ redeemed' = redeemed
        BY <1>3, <2>1 DEF DeleteAuthCode
      <3>2. \A q \in Requests : pc[q] \in PastDelete => loc[q].code # loc[r].code
        BY <2>1 DEF CodeInv
      <3> QED
        BY SMTT(30), Z3T(30), <2>1, <3>1, <3>2 DEF CodeInv, Moves, CodeRedeemedOnce
    <2>2. CASE Moves(r, "idle", NoLocal)
      <3>1. codes' \subseteq codes /\ redeemed' = redeemed
        BY <1>3 DEF DeleteAuthCode
      <3> QED
        BY SMTT(30), Z3T(30), <2>2, <3>1 DEF CodeInv, Moves, CodeRedeemedOnce
    <2> QED
      BY <1>3, <2>1, <2>2, DeleteAuthCodeStep
  <1>4. ASSUME NEW r \in Requests, ReqRefresh(r) PROVE CodeInv'
    BY <1>4, ReqRefreshStep, MoveKeepsCodes DEF ReqRefresh
  <1>5. ASSUME NEW r \in Requests, CreateRefresh(r) PROVE CodeInv'
    BY <1>5, CreateRefreshStep, MoveKeepsCodes DEF CreateRefresh, Locals
  <1>6. ASSUME NEW r \in Requests, GetOfflineSessions(r) PROVE CodeInv'
    BY <1>6, GetOfflineSessionsStep, MoveKeepsCodes DEF GetOfflineSessions, Locals
  <1>7. ASSUME NEW r \in Requests, CreateOfflineSessions(r) PROVE CodeInv'
    BY <1>7, CreateOfflineSessionsStep, MoveKeepsCodes DEF CreateOfflineSessions
  <1>8. ASSUME NEW r \in Requests, DeleteOldRefresh(r) PROVE CodeInv'
    BY <1>8, DeleteOldRefreshStep, MoveKeepsCodes DEF DeleteOldRefresh
  <1>9. ASSUME NEW r \in Requests, UpdateOfflineSessions(r) PROVE CodeInv'
    BY <1>9, UpdateOfflineSessionsStep, MoveKeepsCodes DEF UpdateOfflineSessions
  <1>10. ASSUME NEW r \in Requests, Cleanup(r) PROVE CodeInv'
    BY <1>10, CleanupStep, MoveKeepsCodes DEF Cleanup
  <1>11. ASSUME NEW r \in Requests, WriteCodeResponse(r) PROVE CodeInv'
    <2>1. /\ Moves(r, "idle", NoLocal) /\ loc[r].code \in Codes
          /\ pc[r] \in PastDelete /\ codes' = codes
          /\ redeemed' = [redeemed EXCEPT ![loc[r].code] = @ + 1]
          /\ redeemed \in [Codes -> Nat]
      BY <1>11, WriteCodeResponseStep DEF WriteCodeResponse, TypeInv, DataOK
    <2>2. /\ redeemed'[loc[r].code] = 1 /\ loc[r].code \notin codes
          /\ \A c \in Codes \ {loc[r].code} : redeemed'[c] = redeemed[c]
      BY SMTT(30), Z3T(30), <2>1 DEF CodeInv
    <2>3. \A q \in Requests : pc'[q] \in PastDelete =>
            /\ q # r /\ pc[q] \in PastDelete /\ loc'[q] = loc[q]
            /\ loc[q].code \in Codes \ {loc[r].code}
      BY SMTT(30), Z3T(30), <2>1 DEF Moves, CodeInv, TypeInv, ControlOK, SetAt
    <2>4. CodeRedeemedOnce'
      BY SMTT(30), Z3T(30), <2>1, <2>2 DEF CodeInv, CodeRedeemedOnce
    <2> QED
      BY SMTT(30), Z3T(30), <2>1, <2>2, <2>3, <2>4 DEF CodeInv, TypeInv, DataOK
  <1>12. ASSUME NEW r \in Requests, NEW t \in issued, GetRefresh(r, t) PROVE CodeInv'
    BY <1>12, GetRefreshStep, MoveKeepsCodes DEF GetRefresh
  <1>13. ASSUME NEW r \in Requests, TouchOfflineSessions(r) PROVE CodeInv'
    BY <1>13, TouchOfflineSessionsStep, MoveKeepsCodes DEF TouchOfflineSessions
  <1>14. ASSUME NEW r \in Requests, UpdateRefreshToken(r) PROVE CodeInv'
    BY <1>14, UpdateRefreshTokenStep, MoveKeepsCodes DEF UpdateRefreshToken
  <1>15. ASSUME NEW r \in Requests, WriteRefreshResponse(r) PROVE CodeInv'
    BY <1>15, WriteRefreshResponseStep, MoveKeepsCodes DEF WriteRefreshResponse
  <1>16. ASSUME NEW r \in Requests, NEW c \in Revocable, RevokeRef(r, c) PROVE CodeInv'
    BY <1>1, <1>16, RevokeRefStep, MoveKeepsCodes DEF RevokeRef
  <1>17. ASSUME NEW r \in Requests, RevokeDelete(r) PROVE CodeInv'
    BY <1>17, RevokeDeleteStep, MoveKeepsCodes DEF RevokeDelete
  <1>18. ASSUME NEW r \in Requests, StorageError(r) \/ Crash(r) PROVE CodeInv'
    <2>1. UNCHANGED <<codes, redeemed>>
      BY <1>18 DEF StorageError, Crash
    <2> QED
      BY <1>18, <2>1, FailureStep, MoveKeepsCodes DEF Holding
  <1>19. ASSUME NEW c \in Codes, CollectCode(c) PROVE CodeInv'
    BY <1>19 DEF CollectCode, CodeInv, CodeRedeemedOnce
  <1>20. ASSUME NEW r \in Requests, Conflict(r) PROVE CodeInv'
    BY <1>20, ConflictStep, MoveKeepsCodes DEF Conflict
  <1> QED
    BY <1>1, <1>2, <1>3, <1>4, <1>5, <1>6, <1>7, <1>8, <1>9, <1>10, <1>11, <1>12,
       <1>13, <1>14, <1>15, <1>16, <1>17, <1>18, <1>19, <1>20
    DEF Next, HandleAuthCode, HandleRefreshToken, RevokeRefresh, vars

\* Concurrent exchanges of one code: at most one is answered with tokens.
THEOREM CodesRedeemedOnce == Spec => []CodeRedeemedOnce
  <1>1. Init => CodeInv
    BY SMTT(30), Z3T(30) DEF Init, CodeInv, CodeRedeemedOnce, PastDelete, Exchanging
  <1>2. CodeInv => CodeRedeemedOnce
    BY DEF CodeInv
  <1> QED
    BY <1>1, <1>2, TypeInit, TypeStep, CodeStep, PTL DEF Spec

-----------------------------------------------------------------------------
(***************************************************************************)
(* No lockout.  NoLockout is inductive as it stands.                       *)
(***************************************************************************)

\* Some request is about to send the value it stored for i.
Sending(i) ==
    \E r \in Requests : /\ pc[r] \in Storing
                        /\ loc[r].id = i /\ loc[r].seen = refresh[i].Token

\* What failed may lock out.
LEMMA FaultExcuses ==
    ASSUME faults' > 0
    PROVE  NoLockout'
  <1>1. faults' # 0
    BY SMTT(30), Z3T(30)
  <1> QED
    BY <1>1 DEF NoLockout

\* A step that stores no token value and keeps r's locals, or had none to send.
LEMMA MoveKeepsLockout ==
    ASSUME TypeInv, NoLockout, NEW r \in Requests, NEW label, NEW l,
           Moves(r, label, l),
           issued \subseteq issued', faults' = 0 => faults = 0,
           \A i \in IDs : Stored(i)' => Stored(i) /\ refresh'[i] = refresh[i],
           \/ pc[r] \notin Storing
           \/ label \in Storing /\ l.id = loc[r].id /\ l.seen = loc[r].seen
           \/ [id |-> loc[r].id, Token |-> loc[r].seen] \in issued'
           \/ \A i \in IDs : i = loc[r].id => ~Stored(i)'
    PROVE  NoLockout'
  <1> SUFFICES ASSUME faults' = 0, NEW i \in IDs, Stored(i)'
               PROVE  \/ [id |-> i, Token |-> refresh'[i].Token] \in issued'
                      \/ Sending(i)'
    BY DEF NoLockout, Sending
  <1>1. Stored(i) /\ refresh'[i] = refresh[i]
    OBVIOUS
  <1>2. CASE [id |-> i, Token |-> refresh[i].Token] \in issued
    BY <1>1, <1>2
  <1>3. ASSUME NEW q \in Requests, pc[q] \in Storing,
               loc[q].id = i, loc[q].seen = refresh[i].Token
        PROVE  \/ [id |-> i, Token |-> refresh'[i].Token] \in issued'
               \/ Sending(i)'
    <2>1. CASE q # r
      <3>1. q \in Requests \ {r}
        BY <2>1
      <3>2. pc'[q] = pc[q] /\ loc'[q] = loc[q]
        BY <3>1 DEF Moves
      <3> QED
        BY <1>1, <1>3, <3>2 DEF Sending
    <2>2. CASE q = r
      BY SMTT(30), Z3T(30), <1>1, <1>3, <2>2 DEF Moves, Sending
    <2> QED
      BY <2>1, <2>2
  <1> QED
    BY <1>1, <1>2, <1>3 DEF NoLockout

LEMMA LockoutStep == TypeInv /\ NoLockout /\ [Next]_vars => NoLockout'
  <1> SUFFICES ASSUME TypeInv, NoLockout, [Next]_vars PROVE NoLockout'
    OBVIOUS
  <1> USE DEF Storing
  <1>1. CASE UNCHANGED <<refresh, pc, loc, issued, faults>>
    BY SMTT(30), Z3T(30), <1>1 DEF NoLockout, Stored
  <1>2. ASSUME NEW r \in Requests, NEW c \in Codes, GetAuthCode(r, c) PROVE NoLockout'
    BY <1>2, GetAuthCodeStep, MoveKeepsLockout DEF GetAuthCode, Stored
  <1>3. ASSUME NEW r \in Requests, DeleteAuthCode(r) PROVE NoLockout'
    <2>1. faults' = 0 => faults = 0
      BY SMTT(30), Z3T(30), <1>3 DEF DeleteAuthCode, Answered, TypeInv, DataOK
    <2> QED
      BY <1>3, <2>1, DeleteAuthCodeStep, MoveKeepsLockout DEF DeleteAuthCode, Stored
  <1>4. ASSUME NEW r \in Requests, ReqRefresh(r) PROVE NoLockout'
    BY <1>4, ReqRefreshStep, MoveKeepsLockout DEF ReqRefresh, Stored
  <1>5. ASSUME NEW r \in Requests, CreateRefresh(r) PROVE NoLockout'
    <2> DEFINE new == lastID + 1
    <2>1. CASE faults' > 0
      BY <2>1, FaultExcuses
    <2>2. CASE Moves(r, "getSession", Locals(loc[r].code, loc[r].client, new, new, 0))
      <3>1. /\ new \in IDs /\ issued' = issued
            /\ refresh' = [refresh EXCEPT ![new] =
                              [ClientID |-> loc[r].client, Token |-> new]]
            /\ faults' = 0 => faults = 0
        <4>1. new \in IDs
          BY <1>5, CreateRefreshStep
        <4>2. faults' = 0 => faults = 0
          BY SMTT(30), Z3T(30), <1>5, RefreshAssumption DEF CreateRefresh, TypeInv, DataOK
        <4> QED
          BY <1>5, <4>1, <4>2 DEF CreateRefresh
      <3> SUFFICES ASSUME faults' = 0, NEW i \in IDs, Stored(i)'
                   PROVE  \/ [id |-> i, Token |-> refresh'[i].Token] \in issued'
                          \/ Sending(i)'
        BY DEF NoLockout, Sending
      <3>2. CASE i = new
        <4>1. refresh'[i].Token = new
          BY <3>1, <3>2 DEF TypeInv, DataOK
        <4> QED
          BY SMTT(30), Z3T(30), <2>2, <3>2, <4>1 DEF Moves, Locals, Sending
      <3>3. CASE i # new
        <4>1. refresh'[i] = refresh[i] /\ Stored(i)
          BY <3>1, <3>3 DEF TypeInv, DataOK, Stored
        <4>2. CASE [id |-> i, Token |-> refresh[i].Token] \in issued
          BY SMTT(30), Z3T(30), <3>1, <4>1, <4>2
        <4>3. ASSUME NEW q \in Requests, pc[q] \in Storing,
                     loc[q].id = i, loc[q].seen = refresh[i].Token
              PROVE  Sending(i)'
          <5>1. q # r
            BY <1>5, <4>3 DEF CreateRefresh
          <5>2. pc'[q] = pc[q] /\ loc'[q] = loc[q]
            BY <2>2, <5>1 DEF Moves
          <5> QED
            BY <4>1, <4>3, <5>2 DEF Sending
        <4> QED
          BY <3>1, <4>1, <4>2, <4>3 DEF NoLockout
      <3> QED
        BY <3>2, <3>3
    <2> QED
      BY <1>5, <2>1, <2>2, CreateRefreshStep
  <1>6. ASSUME NEW r \in Requests, GetOfflineSessions(r) PROVE NoLockout'
    BY <1>6, GetOfflineSessionsStep, MoveKeepsLockout
    DEF GetOfflineSessions, Stored, Locals
  <1>7. ASSUME NEW r \in Requests, CreateOfflineSessions(r) PROVE NoLockout'
    <2>1. faults' = 0 => faults = 0
      BY SMTT(30), Z3T(30), <1>7 DEF CreateOfflineSessions, Answered, TypeInv, DataOK
    <2>2. CASE faults' > 0
      BY SMTT(30), Z3T(30), <2>2 DEF NoLockout
    <2>3. CASE Moves(r, "cleanup", loc[r]) \/ Moves(r, "respond", loc[r])
      BY <1>7, <2>1, <2>3, MoveKeepsLockout DEF CreateOfflineSessions, Stored
    <2> QED
      BY <1>7, <2>2, <2>3, CreateOfflineSessionsStep
  <1>8. ASSUME NEW r \in Requests, DeleteOldRefresh(r) PROVE NoLockout'
    <2>1. faults' = 0 => faults = 0
      BY SMTT(30), Z3T(30), <1>8 DEF DeleteOldRefresh, Answered, TypeInv, DataOK
    <2>2. CASE faults' > 0
      BY SMTT(30), Z3T(30), <2>2 DEF NoLockout
    <2>3. CASE Moves(r, "cleanup", loc[r]) \/ Moves(r, "updateSession", loc[r])
      <3>1. \A i \in IDs : Stored(i)' => Stored(i) /\ refresh'[i] = refresh[i]
        BY <1>8 DEF DeleteOldRefresh, TypeInv, DataOK, Stored
      <3> QED
        BY <1>8, <2>1, <2>3, <3>1, MoveKeepsLockout DEF DeleteOldRefresh
    <2> QED
      BY <1>8, <2>2, <2>3, DeleteOldRefreshStep
  <1>9. ASSUME NEW r \in Requests, UpdateOfflineSessions(r) PROVE NoLockout'
    <2>1. faults' = 0 => faults = 0
      BY SMTT(30), Z3T(30), <1>9 DEF UpdateOfflineSessions, Answered, TypeInv, DataOK
    <2>2. CASE faults' > 0
      BY SMTT(30), Z3T(30), <2>2 DEF NoLockout
    <2>3. CASE Moves(r, "respond", loc[r])
      BY <1>9, <2>1, <2>3, MoveKeepsLockout DEF UpdateOfflineSessions, Stored
    <2> QED
      BY <1>9, <2>2, <2>3, UpdateOfflineSessionsStep
  <1>10. ASSUME NEW r \in Requests, Cleanup(r) PROVE NoLockout'
    <2>1. /\ \A i \in IDs : Stored(i)' => Stored(i) /\ refresh'[i] = refresh[i]
          /\ \A i \in IDs : i = loc[r].id => ~Stored(i)'
      BY <1>10 DEF Cleanup, TypeInv, DataOK, Stored
    <2> QED
      BY <1>10, <2>1, CleanupStep, MoveKeepsLockout DEF Cleanup
  <1>11. ASSUME NEW r \in Requests, WriteCodeResponse(r) PROVE NoLockout'
    <2>1. CASE loc[r].id = 0
      <3>1. \A i \in IDs : i # loc[r].id
        BY SMTT(30), Z3T(30), <2>1 DEF IDs
      <3> QED
        BY <1>11, <2>1, <3>1, WriteCodeResponseStep, MoveKeepsLockout
        DEF WriteCodeResponse, Stored
    <2>2. CASE loc[r].id # 0
      BY <1>11, <2>2, WriteCodeResponseStep, MoveKeepsLockout
      DEF WriteCodeResponse, Stored
    <2> QED
      BY <2>1, <2>2
  <1>12. ASSUME NEW r \in Requests, NEW t \in issued, GetRefresh(r, t) PROVE NoLockout'
    BY <1>12, GetRefreshStep, MoveKeepsLockout DEF GetRefresh, Stored
  <1>13. ASSUME NEW r \in Requests, TouchOfflineSessions(r) PROVE NoLockout'
    <2>1. faults' = 0 => faults = 0
      BY SMTT(30), Z3T(30), <1>13 DEF TouchOfflineSessions, Answered, TypeInv, DataOK
    <2> QED
      BY <1>13, <2>1, TouchOfflineSessionsStep, MoveKeepsLockout
      DEF TouchOfflineSessions, Stored
  <1>14. ASSUME NEW r \in Requests, UpdateRefreshToken(r) PROVE NoLockout'
    <2> DEFINE k == loc[r].id
               new == lastID + 1
    <2>1. CASE faults' > 0
      BY <2>1, FaultExcuses
    <2>2. CASE Moves(r, "idle", NoLocal) /\ UNCHANGED <<refresh, lastID, claims>>
      <3>1. faults' = 0 => faults = 0
        BY SMTT(30), Z3T(30), <1>14 DEF UpdateRefreshToken, TypeInv, DataOK
      <3> QED
        BY <1>14, <2>2, <3>1, MoveKeepsLockout DEF UpdateRefreshToken, Stored
    <2>3. CASE /\ Stored(k) /\ refresh[k].Token = loc[r].seen
               /\ Moves(r, "answer", Locals("none", loc[r].client, k, new, 0))
      <3>1. /\ k \in IDs /\ issued' = issued
            /\ refresh' = [refresh EXCEPT ![k] =
                 [ClientID |-> refresh[k].ClientID, Token |-> new]]
            /\ faults' = 0 => faults = 0
        <4>1. k \in IDs /\ issued' = issued
          BY <1>14, <2>3 DEF UpdateRefreshToken, Stored
        <4>2. refresh' = [refresh EXCEPT ![k] =
                 [ClientID |-> refresh[k].ClientID, Token |-> new]]
          BY <1>14, <2>3 DEF UpdateRefreshToken, Moves, Locals, NoLocal
        <4>3. faults' = 0 => faults = 0
          BY SMTT(30), Z3T(30), <1>14 DEF UpdateRefreshToken, Answered, TypeInv, DataOK
        <4> QED BY <4>1, <4>2, <4>3
      <3> SUFFICES ASSUME faults' = 0, NEW i \in IDs, Stored(i)'
                   PROVE  \/ [id |-> i, Token |-> refresh'[i].Token] \in issued'
                          \/ Sending(i)'
        BY DEF NoLockout, Sending
      <3>2. CASE i = k
        <4>1. refresh'[i].Token = new
          BY <3>1, <3>2 DEF TypeInv, DataOK
        <4> QED
          BY SMTT(30), Z3T(30), <2>3, <3>2, <4>1 DEF Moves, Locals, Sending
      <3>3. CASE i # k
        <4>1. refresh'[i] = refresh[i] /\ Stored(i)
          BY <3>1, <3>3 DEF TypeInv, DataOK, Stored
        <4>2. CASE [id |-> i, Token |-> refresh[i].Token] \in issued
          BY SMTT(30), Z3T(30), <3>1, <4>1, <4>2
        <4>3. ASSUME NEW q \in Requests, pc[q] \in Storing,
                     loc[q].id = i, loc[q].seen = refresh[i].Token
              PROVE  Sending(i)'
          <5>1. q # r
            BY <1>14, <4>3 DEF UpdateRefreshToken
          <5>2. pc'[q] = pc[q] /\ loc'[q] = loc[q]
            BY <2>3, <5>1 DEF Moves
          <5> QED
            BY <4>1, <4>3, <5>2 DEF Sending
        <4> QED
          BY <3>1, <4>1, <4>2, <4>3 DEF NoLockout
      <3> QED
        BY <3>2, <3>3
    <2> QED
      BY <1>14, <2>1, <2>2, <2>3, UpdateRefreshTokenStep
  <1>15. ASSUME NEW r \in Requests, WriteRefreshResponse(r) PROVE NoLockout'
    BY <1>15, WriteRefreshResponseStep, MoveKeepsLockout DEF WriteRefreshResponse, Stored
  <1>16. ASSUME NEW r \in Requests, NEW c \in Revocable, RevokeRef(r, c) PROVE NoLockout'
    <2>1. CASE faults' > 0
      BY <2>1, FaultExcuses
    <2>2. CASE UNCHANGED faults
      BY <1>16, <2>1, <2>2, RevokeRefStep, MoveKeepsLockout DEF RevokeRef, Stored
    <2> QED
      BY SMTT(30), Z3T(30), <1>16, <2>1, <2>2, RevokeRefStep DEF RevokeRef, TypeInv, DataOK
  <1>17. ASSUME NEW r \in Requests, RevokeDelete(r) PROVE NoLockout'
    <2>1. \A i \in IDs : Stored(i)' => Stored(i) /\ refresh'[i] = refresh[i]
      BY <1>17 DEF RevokeDelete, TypeInv, DataOK, Stored
    <2> QED
      BY <1>17, <2>1, RevokeDeleteStep, MoveKeepsLockout DEF RevokeDelete
  <1>18. ASSUME NEW r \in Requests, StorageError(r) \/ Crash(r) PROVE NoLockout'
    BY <1>18, FailureStep, FaultExcuses
  <1>19. ASSUME NEW c \in Codes, CollectCode(c) PROVE NoLockout'
    BY <1>1, <1>19 DEF CollectCode
  <1>20. ASSUME NEW r \in Requests, Conflict(r) PROVE NoLockout'
    BY <1>20, ConflictStep, MoveKeepsLockout DEF Conflict, Stored
  <1> QED
    BY <1>1, <1>2, <1>3, <1>4, <1>5, <1>6, <1>7, <1>8, <1>9, <1>10, <1>11, <1>12,
       <1>13, <1>14, <1>15, <1>16, <1>17, <1>18, <1>19, <1>20
    DEF Next, HandleAuthCode, HandleRefreshToken, RevokeRefresh, vars

\* Lost races among exchanges, refreshes and revocations never leave a stored
\* refresh token whose current value its client was not sent.
THEOREM NobodyLockedOut == Spec => []NoLockout
  <1>1. Init => NoLockout
    BY DEF Init, NoLockout, Stored
  <1> QED
    BY <1>1, TypeInit, TypeStep, LockoutStep, PTL DEF Spec

-----------------------------------------------------------------------------
(***************************************************************************)
(* Refs.  Until something fails: a ref belongs to one client; a request    *)
(* that has not yet put its new token in the session is alone in knowing   *)
(* it; and what a revocation is about to delete has no ref any more.       *)
(***************************************************************************)
Pending == {"getSession", "createSession", "deleteOld", "updateSession"}
Unreferenced == Pending \cup {"cleanup", "revokeDelete"}

\* Every ID a ref or a request names has been used up.
IDsPast ==
    /\ \A c \in Clients : session.Refresh[c] =< lastID
    /\ \A r \in Requests : loc[r].id =< lastID /\ loc[r].old =< lastID

RefsOwned ==
    /\ \A c \in Clients : Stored(session.Refresh[c]) =>
          refresh[session.Refresh[c]].ClientID = c
    /\ \A c, d \in Clients :
          session.Refresh[c] = session.Refresh[d] /\ session.Refresh[c] # 0 => c = d
    /\ \A r \in Requests : pc[r] = "deleteOld" /\ Stored(loc[r].old) =>
          refresh[loc[r].old].ClientID = loc[r].client

PendingStored ==
    \A r \in Requests : pc[r] \in Pending =>
        Stored(loc[r].id) /\ refresh[loc[r].id].ClientID = loc[r].client
NoRefTo ==
    \A r \in Requests : pc[r] \in Unreferenced =>
        \A c \in Clients : session.Refresh[c] # loc[r].id
KnownAlone ==
    \A r, q \in Requests : pc[r] \in Pending \cup {"cleanup"} =>
        /\ pc[q] \in Unreferenced /\ q # r => loc[q].id # loc[r].id
        /\ pc[q] = "deleteOld" => loc[q].old # loc[r].id

PendingPrivate == PendingStored /\ NoRefTo /\ KnownAlone

RefInv == IDsPast /\ (faults = 0 => RefsOwned /\ PendingPrivate) /\ RefsResolve

\* A request that moves to where it holds nothing unreferenced, with the
\* storage as it was, keeps RefInv.
LEMMA MoveKeepsRefs ==
    ASSUME TypeInv, RefInv, NEW r \in Requests, NEW label, NEW l,
           Moves(r, label, l), UNCHANGED <<refresh, session, lastID, lost>>,
           faults' = 0 => faults = 0 /\ pc[r] # "updateSession",
           label \notin Unreferenced, l.id =< lastID, l.old =< lastID
    PROVE  RefInv'
  <1>1. \A q \in Requests : pc'[q] \in Unreferenced => q # r /\ pc'[q] = pc[q] /\ loc'[q] = loc[q]
    BY DEF Moves
  <1>2. IDsPast'
    BY DEF RefInv, IDsPast, Moves
  <1>3. ASSUME faults' = 0 PROVE RefsOwned'
    BY SMTT(30), Z3T(30), <1>1, <1>3 DEF RefInv, RefsOwned, Unreferenced, Pending, Stored
  <1>4. ASSUME faults' = 0 PROVE PendingPrivate'
    BY SMTT(30), Z3T(30), <1>1, <1>4
    DEF RefInv, PendingPrivate, PendingStored, NoRefTo, KnownAlone, Unreferenced,
        Pending, Stored
  <1>5. RefsResolve'
    <2> SUFFICES ASSUME faults' = 0, NEW c \in Clients \ lost, session.Refresh[c] # 0,
                        ~(Stored(session.Refresh[c]) /\ refresh[session.Refresh[c]].ClientID = c)
                 PROVE  \E q \in Requests : /\ pc'[q] = "updateSession"
                                            /\ loc'[q].client = c
                                            /\ loc'[q].old = session.Refresh[c]
      BY DEF RefsResolve, Stored
    <2>1. PICK q \in Requests : /\ pc[q] = "updateSession"
                                /\ loc[q].client = c /\ loc[q].old = session.Refresh[c]
      BY DEF RefInv, RefsResolve
    <2>2. pc'[q] = pc[q] /\ loc'[q] = loc[q]
      BY <2>1 DEF Moves
    <2> QED
      BY <2>1, <2>2
  <1> QED
    BY <1>2, <1>3, <1>4, <1>5 DEF RefInv

\* After a failure only IDsPast is left to keep.
LEMMA FailureKeepsRefs ==
    ASSUME faults' > 0, IDsPast' PROVE RefInv'
  BY SMTT(30), Z3T(30) DEF RefInv, RefsResolve

\* IDs only ever come from lastID, which never goes back.
LEMMA IDsPastStep == TypeInv /\ HistoryInv /\ IDsPast /\ [Next]_vars => IDsPast'
  <1> SUFFICES ASSUME TypeInv, HistoryInv, IDsPast, [Next]_vars PROVE IDsPast'
    OBVIOUS
  <1>1. lastID \in Nat /\ NoLocal.id =< lastID /\ NoLocal.old =< lastID
    BY SMTT(30), Z3T(30), RefreshAssumption DEF TypeInv, DataOK, NoLocal, Locals
  <1>2. /\ \A r \in Requests : loc[r].id \in Int /\ loc[r].old \in Int
        /\ \A c \in Clients : session.Refresh[c] \in Int
    BY SMTT(30), Z3T(30) DEF TypeInv, ControlOK, DataOK, Local, Session, IDs
  <1>3. ASSUME UNCHANGED <<session, lastID>>, NEW r \in Requests, NEW label, NEW l,
               Moves(r, label, l), l.id =< lastID, l.old =< lastID
        PROVE  IDsPast'
    BY <1>3 DEF IDsPast, Moves
  <1>4. CASE UNCHANGED <<session, lastID, loc>>
    BY <1>4 DEF IDsPast
  <1>5. ASSUME NEW r \in Requests, NEW c \in Codes, GetAuthCode(r, c) PROVE IDsPast'
    BY SMTT(30), Z3T(30), <1>1, <1>3, <1>5, GetAuthCodeStep DEF GetAuthCode, Locals
  <1>6. ASSUME NEW r \in Requests, DeleteAuthCode(r) PROVE IDsPast'
    BY <1>1, <1>3, <1>6, DeleteAuthCodeStep DEF DeleteAuthCode, IDsPast
  <1>7. ASSUME NEW r \in Requests, ReqRefresh(r) PROVE IDsPast'
    BY <1>3, <1>7, ReqRefreshStep DEF ReqRefresh, IDsPast
  <1>8. ASSUME NEW r \in Requests, CreateRefresh(r) PROVE IDsPast'
    <2>1. lastID' = lastID + 1 /\ session' = session
      BY <1>8 DEF CreateRefresh
    <2>2. \A q \in Requests : q # r => loc'[q] = loc[q]
      BY <1>8, CreateRefreshStep DEF Moves
    <2>3. \/ loc'[r].id = lastID + 1 /\ loc'[r].old = 0
          \/ loc'[r].id = 0 /\ loc'[r].old = 0
      <3>1. \/ loc'[r] = Locals(loc[r].code, loc[r].client, lastID + 1, lastID + 1, 0)
            \/ loc'[r] = NoLocal
        BY <1>8, CreateRefreshStep DEF Moves
      <3> QED
        BY SMTT(30), Z3T(30), <3>1 DEF Locals, NoLocal
    <2> QED
      BY SMTT(30), Z3T(30), <1>1, <1>2, <2>1, <2>2, <2>3 DEF IDsPast
  <1>9. ASSUME NEW r \in Requests, GetOfflineSessions(r) PROVE IDsPast'
    <2>1. session.Refresh[loc[r].client] =< lastID
      BY <1>9 DEF GetOfflineSessions, IDsPast, TypeInv, ControlOK, SetAt
    <2> QED
      BY <1>3, <1>9, <2>1, GetOfflineSessionsStep DEF GetOfflineSessions, IDsPast, Locals
  <1>10. ASSUME NEW r \in Requests, CreateOfflineSessions(r) PROVE IDsPast'
    <2>1. \A c \in Clients : session'.Refresh[c] =< lastID
      BY SMTT(30), Z3T(30), <1>1, <1>10 DEF CreateOfflineSessions, IDsPast, NoRefs
    <2> QED
      BY <1>1, <1>10, <2>1, CreateOfflineSessionsStep
      DEF CreateOfflineSessions, IDsPast, Moves
  <1>11. ASSUME NEW r \in Requests, DeleteOldRefresh(r) PROVE IDsPast'
    BY <1>1, <1>3, <1>11, DeleteOldRefreshStep DEF DeleteOldRefresh, IDsPast
  <1>12. ASSUME NEW r \in Requests, UpdateOfflineSessions(r) PROVE IDsPast'
    <2>1. \A c \in Clients : session'.Refresh[c] =< lastID
      BY <1>12 DEF UpdateOfflineSessions, IDsPast, TypeInv, DataOK, Session
    <2> QED
      BY SMTT(30), Z3T(30), <1>1, <1>12, <2>1, UpdateOfflineSessionsStep
      DEF UpdateOfflineSessions, IDsPast, Moves
  <1>13. ASSUME NEW r \in Requests, Cleanup(r) PROVE IDsPast'
    BY <1>1, <1>3, <1>13, CleanupStep DEF Cleanup
  <1>14. ASSUME NEW r \in Requests, WriteCodeResponse(r) PROVE IDsPast'
    BY <1>1, <1>3, <1>14, WriteCodeResponseStep DEF WriteCodeResponse
  <1>15. ASSUME NEW r \in Requests, NEW t \in issued, GetRefresh(r, t)
         PROVE  IDsPast'
    <2>1. t.id =< lastID
      BY <1>15 DEF GetRefresh, HistoryInv, TokensNumbered, Stored
    <2> QED
      BY SMTT(30), Z3T(30), <1>1, <1>3, <1>15, <2>1, GetRefreshStep DEF GetRefresh, Locals
  <1>16. ASSUME NEW r \in Requests, TouchOfflineSessions(r) PROVE IDsPast'
    BY <1>1, <1>3, <1>16, TouchOfflineSessionsStep DEF TouchOfflineSessions, IDsPast
  <1>17. ASSUME NEW r \in Requests, UpdateRefreshToken(r) PROVE IDsPast'
    <2>1. lastID' \in {lastID, lastID + 1} /\ session' = session
      BY <1>17 DEF UpdateRefreshToken
    <2>2. \A q \in Requests : q # r => loc'[q] = loc[q]
      BY <1>17, UpdateRefreshTokenStep DEF Moves
    <2>3. loc'[r].id \in {0, loc[r].id} /\ loc'[r].old = 0
      <3>1. \/ loc'[r] = Locals("none", loc[r].client, loc[r].id, lastID + 1, 0)
            \/ loc'[r] = NoLocal
        BY <1>17, UpdateRefreshTokenStep DEF Moves
      <3> QED
        BY SMTT(30), Z3T(30), <3>1 DEF Locals, NoLocal
    <2> QED
      BY SMTT(30), Z3T(30), <1>1, <1>2, <2>1, <2>2, <2>3 DEF IDsPast
  <1>18. ASSUME NEW r \in Requests, WriteRefreshResponse(r) PROVE IDsPast'
    BY <1>1, <1>3, <1>18, WriteRefreshResponseStep DEF WriteRefreshResponse
  <1>19. ASSUME NEW r \in Requests, NEW c \in Revocable, RevokeRef(r, c) PROVE IDsPast'
    <2>1. \A d \in Clients : session'.Refresh[d] =< lastID
      BY SMTT(30), Z3T(30), <1>1, <1>19, RevokeRefStep
      DEF RevokeRef, IDsPast, TypeInv, DataOK, Session
    <2> QED
      BY SMTT(30), Z3T(30), <1>1, <1>19, <2>1, RevokeRefStep DEF RevokeRef, IDsPast, Moves, Locals
  <1>20. ASSUME NEW r \in Requests, RevokeDelete(r) PROVE IDsPast'
    BY <1>1, <1>3, <1>20, RevokeDeleteStep DEF RevokeDelete
  <1>21. ASSUME NEW r \in Requests, Conflict(r) \/ StorageError(r) \/ Crash(r)
         PROVE  IDsPast'
    BY <1>1, <1>3, <1>21, ConflictStep, FailureStep DEF Conflict, StorageError, Crash, IDsPast
  <1> QED
    BY SMTT(30), Z3T(30), <1>4, <1>5, <1>6, <1>7, <1>8, <1>9, <1>10, <1>11, <1>12, <1>13, <1>14,
       <1>15, <1>16, <1>17, <1>18, <1>19, <1>20, <1>21
    DEF Next, HandleAuthCode, HandleRefreshToken, RevokeRefresh, CollectCode, vars

LEMMA CreateKeepsRefs ==
    ASSUME TypeInv, RefInv, IDsPast', NEW r \in Requests, CreateRefresh(r)
    PROVE  RefInv'
  <1>0. PICK new : new = lastID + 1
    OBVIOUS
  <1> DEFINE l == Locals(loc[r].code, loc[r].client, new, new, 0)
  <1>1. CASE faults' > 0
    BY <1>1, FailureKeepsRefs
  <1>2. CASE Moves(r, "getSession", l) /\ faults' = faults
    <2>1. /\ new \in IDs /\ session' = session /\ lastID \in Nat
          /\ refresh' = [refresh EXCEPT ![new] =
                            [ClientID |-> loc[r].client, Token |-> new]]
      <3>1. new \in IDs
        BY <1>0, CreateRefreshStep
      <3> QED
        BY SMTT(30), Z3T(30), <1>0, <3>1, RefreshAssumption DEF CreateRefresh, TypeInv, DataOK
    <2>2. \A i \in IDs : i # new => refresh'[i] = refresh[i] /\ (Stored(i)' <=> Stored(i))
      BY <2>1 DEF TypeInv, DataOK, Stored
    <2>3. Stored(new)' /\ refresh'[new].ClientID = loc[r].client
      <3>1. refresh'[new] = [ClientID |-> loc[r].client, Token |-> new]
        BY <2>1 DEF TypeInv, DataOK
      <3>2. new # 0
        BY SMTT(30), Z3T(30), <2>1 DEF IDs
      <3> QED
        BY SMTT(30), Z3T(30), <2>1, <3>1, <3>2 DEF Stored, NoToken
    <2>4. /\ \A c \in Clients : session.Refresh[c] # new
          /\ \A q \in Requests : loc[q].id # new /\ loc[q].old # new
      BY SMTT(30), Z3T(30), <1>0, <2>1
      DEF RefInv, IDsPast, TypeInv, ControlOK, DataOK, Local, Session, IDs
    <2>5. /\ pc'[r] = "getSession" /\ loc'[r].id = new /\ loc'[r].client = loc[r].client
          /\ pc[r] = "create"
          /\ \A q \in Requests : q # r => pc'[q] = pc[q] /\ loc'[q] = loc[q]
      <3>1. l.id = new /\ l.client = loc[r].client
        BY DEF Locals
      <3>2. /\ pc'[r] = "getSession" /\ loc'[r] = l
            /\ \A q \in Requests : q # r => pc'[q] = pc[q] /\ loc'[q] = loc[q]
        BY <1>2 DEF Moves
      <3> QED
        BY <3>1, <3>2 DEF CreateRefresh
    <2>7. ASSUME faults' = 0 PROVE RefsOwned'
      <3>1. RefsOwned
        BY <1>2, <2>7 DEF RefInv
      <3> QED
        BY SMTT(30), Z3T(30), <2>1, <2>2, <2>4, <2>5, <3>1 DEF RefsOwned, Stored
    <2>8. ASSUME faults' = 0 PROVE PendingPrivate'
      <3>1. PendingPrivate
        BY <1>2, <2>8 DEF RefInv
      <3>2. PendingStored'
        BY SMTT(30), Z3T(30), <2>1, <2>2, <2>3, <2>4, <2>5, <3>1
        DEF PendingPrivate, PendingStored, Stored
      <3>3. NoRefTo'
        BY SMTT(30), Z3T(30), <2>1, <2>4, <2>5, <3>1 DEF PendingPrivate, NoRefTo
      <3>4. KnownAlone'
        BY SMTT(30), Z3T(30), <2>4, <2>5, <3>1 DEF PendingPrivate, KnownAlone, Pending
      <3> QED
        BY <3>2, <3>3, <3>4 DEF PendingPrivate
    <2>9. RefsResolve'
      <3> SUFFICES ASSUME faults' = 0 PROVE RefsResolve'
        BY DEF RefsResolve
      <3>1. RefsResolve /\ faults = 0
        BY <1>2 DEF RefInv
      <3>2. lost' = lost
        BY <1>0 DEF CreateRefresh
      <3> QED
        BY SMTT(30), Z3T(30), <2>1, <2>2, <2>4, <2>5, <3>1, <3>2 DEF RefsResolve, Stored
    <2> QED
      BY <2>7, <2>8, <2>9 DEF RefInv
  <1>3. faults' = faults \/ faults' > 0
    BY SMTT(30), Z3T(30), RefreshAssumption DEF CreateRefresh, TypeInv, DataOK
  <1> QED
    BY <1>0, <1>1, <1>2, <1>3, CreateRefreshStep

\* What is left to show for a step that is not a failure.
LEMMA RefInvParts ==
    ASSUME IDsPast',
           faults' = 0 => /\ RefsOwned' /\ PendingStored' /\ NoRefTo' /\ KnownAlone'
                          /\ RefsResolve'
    PROVE  RefInv'
  BY DEF RefInv, PendingPrivate, RefsResolve

LEMMA GetSessionKeepsRefs ==
    ASSUME TypeInv, RefInv, IDsPast', NEW r \in Requests, GetOfflineSessions(r)
    PROVE  RefInv'
  <1> SUFFICES ASSUME faults' = 0
               PROVE  /\ RefsOwned' /\ PendingStored' /\ NoRefTo' /\ KnownAlone'
                      /\ RefsResolve'
    BY RefInvParts
  <1> DEFINE ref == session.Refresh[loc[r].client]
             l == Locals(loc[r].code, loc[r].client, loc[r].id, loc[r].seen, ref)
  <1>1. /\ UNCHANGED <<refresh, session, lost>> /\ pc[r] = "getSession"
        /\ RefsOwned /\ PendingStored /\ NoRefTo /\ KnownAlone /\ RefsResolve
        /\ faults = 0 /\ loc[r].client \in Clients
    BY DEF GetOfflineSessions, RefInv, PendingPrivate, TypeInv, ControlOK, SetAt
  <1>2. /\ pc'[r] \in {"createSession", "updateSession", "deleteOld"}
        /\ loc'[r].id = loc[r].id /\ loc'[r].client = loc[r].client
        /\ pc'[r] = "deleteOld" => loc'[r].old = ref
        /\ \A q \in Requests : q # r => pc'[q] = pc[q] /\ loc'[q] = loc[q]
    <2>1. \/ pc'[r] \in {"createSession", "updateSession"} /\ loc'[r] = loc[r]
          \/ pc'[r] = "deleteOld" /\ loc'[r] = l
      BY GetOfflineSessionsStep DEF Moves
    <2>2. l.id = loc[r].id /\ l.client = loc[r].client /\ l.old = ref
      BY DEF Locals
    <2>3. \A q \in Requests : q # r => pc'[q] = pc[q] /\ loc'[q] = loc[q]
      BY SMTT(30), Z3T(30), GetOfflineSessionsStep DEF Moves
    <2> QED
      BY <2>1, <2>2, <2>3
  <1>3. RefsOwned'
    BY SMTT(30), Z3T(30), <1>1, <1>2 DEF RefsOwned, Stored
  <1>4. PendingStored'
    BY SMTT(30), Z3T(30), <1>1, <1>2 DEF PendingStored, Pending, Stored
  <1>5. NoRefTo'
    BY SMTT(30), Z3T(30), <1>1, <1>2 DEF NoRefTo, Unreferenced, Pending
  <1>6. KnownAlone'
    BY SMTT(30), Z3T(30), <1>1, <1>2 DEF KnownAlone, NoRefTo, Unreferenced, Pending
  <1>7. RefsResolve'
    BY SMTT(30), Z3T(30), <1>1, <1>2 DEF RefsResolve, Stored
  <1> QED
    BY <1>3, <1>4, <1>5, <1>6, <1>7

\* The two steps that put the new token's ref in the session.
LEMMA RefSetKeepsRefs ==
    ASSUME TypeInv, RefInv, IDsPast', NEW r \in Requests,
           CreateOfflineSessions(r) \/ UpdateOfflineSessions(r)
    PROVE  RefInv'
  <1> SUFFICES ASSUME faults' = 0
               PROVE  /\ RefsOwned' /\ PendingStored' /\ NoRefTo' /\ KnownAlone'
                      /\ RefsResolve'
    BY RefInvParts
  <1>1. faults = 0
    BY SMTT(30), Z3T(30) DEF CreateOfflineSessions, UpdateOfflineSessions, Answered, TypeInv, DataOK
  <1>2. /\ pc[r] \in {"createSession", "updateSession"}
        /\ refresh' = refresh
        /\ RefsOwned /\ PendingStored /\ NoRefTo /\ KnownAlone /\ RefsResolve
        /\ lost \ {loc[r].client} \subseteq lost'
        /\ pc[r] = "createSession" => lost' = lost
    BY <1>1 DEF CreateOfflineSessions, UpdateOfflineSessions, RefInv, PendingPrivate
  <1>3. loc[r].client \in Clients /\ loc[r].id \in IDs /\ loc[r].id # 0
    BY <1>2 DEF TypeInv, ControlOK, SetAt, Holding, Local
  <1>4. CASE session' = session /\ Moves(r, "cleanup", loc[r]) /\ pc[r] = "createSession"
    <2>1. /\ pc'[r] = "cleanup" /\ loc'[r] = loc[r]
          /\ \A q \in Requests : q # r => pc'[q] = pc[q] /\ loc'[q] = loc[q]
      BY <1>4 DEF Moves
    <2>2. RefsOwned' /\ PendingStored'
      BY SMTT(30), Z3T(30), <1>2, <1>4, <2>1 DEF RefsOwned, PendingStored, Pending, Stored
    <2>3. NoRefTo' /\ KnownAlone'
      BY SMTT(30), Z3T(30), <1>2, <1>4, <2>1 DEF NoRefTo, KnownAlone, Unreferenced, Pending
    <2>4. RefsResolve'
      BY SMTT(30), Z3T(30), <1>1, <1>2, <1>4, <2>1 DEF RefsResolve, Stored
    <2> QED
      BY <2>2, <2>3, <2>4
  <1>5. CASE /\ Moves(r, "respond", loc[r])
             /\ \A c \in Clients : \/ c = loc[r].client /\ session'.Refresh[c] = loc[r].id
                                   \/ /\ c # loc[r].client
                                      /\ session'.Refresh[c] \in {0, session.Refresh[c]}
    <2>1. /\ pc'[r] = "respond" /\ loc'[r] = loc[r]
          /\ \A q \in Requests : q # r => pc'[q] = pc[q] /\ loc'[q] = loc[q]
      BY <1>5 DEF Moves
    <2>2. /\ Stored(loc[r].id) /\ refresh[loc[r].id].ClientID = loc[r].client
          /\ \A c \in Clients : session.Refresh[c] # loc[r].id
      BY <1>2 DEF PendingStored, NoRefTo, Pending, Unreferenced
    <2>3. ~Stored(0)
      BY SMTT(30), Z3T(30) DEF Stored, IDs
    <2>4. RefsOwned'
      BY SMTT(30), Z3T(30), <1>2, <1>3, <1>5, <2>1, <2>2, <2>3 DEF RefsOwned, Stored
    <2>5. PendingStored'
      BY <1>2, <2>1 DEF PendingStored, Pending, Stored
    <2>6. NoRefTo'
      <3>1. \A q \in Requests : q # r /\ pc[q] \in Unreferenced => loc[q].id # loc[r].id
        BY <1>2 DEF KnownAlone, Pending
      <3>2. \A q \in Requests : pc[q] \in Unreferenced => loc[q].id # 0
        BY DEF TypeInv, ControlOK, SetAt, Unreferenced, Pending, Holding
      <3>3. pc'[r] \notin Unreferenced
        BY <2>1 DEF Unreferenced, Pending
      <3> QED
        BY SMTT(30), Z3T(30), <1>2, <1>5, <2>1, <3>1, <3>2, <3>3 DEF NoRefTo
    <2>7. KnownAlone'
      BY SMTT(30), Z3T(30), <1>2, <2>1 DEF KnownAlone, Unreferenced, Pending
    <2>8. RefsResolve'
      <3> SUFFICES ASSUME NEW c \in Clients \ lost', session'.Refresh[c] # 0
                   PROVE  \/ /\ Stored(session.Refresh[c])'
                             /\ refresh[session'.Refresh[c]].ClientID = c
                          \/ \E q \in Requests :
                                /\ pc'[q] = "updateSession" /\ loc'[q].client = c
                                /\ loc'[q].old = session'.Refresh[c]
        BY SMTT(30), Z3T(30), <1>2 DEF RefsResolve
      <3>1. CASE c = loc[r].client
        BY <1>2, <1>3, <1>5, <2>2, <3>1 DEF Stored
      <3>2. CASE c # loc[r].client
        <4>1. session'.Refresh[c] = session.Refresh[c]
          BY <1>5, <3>2
        <4>2. CASE Stored(session.Refresh[c]) /\ refresh[session.Refresh[c]].ClientID = c
          BY <1>2, <4>1, <4>2 DEF Stored
        <4>3. ASSUME NEW q \in Requests, pc[q] = "updateSession", loc[q].client = c,
                     loc[q].old = session.Refresh[c]
              PROVE  pc'[q] = pc[q] /\ loc'[q] = loc[q]
          BY <2>1, <3>2, <4>3
        <4>4. c \in Clients \ lost
          BY <1>2, <3>2
        <4> QED
          BY SMTT(30), Z3T(30), <1>1, <1>2, <4>1, <4>2, <4>3, <4>4 DEF RefsResolve
      <3> QED
        BY <3>1, <3>2
    <2> QED
      BY <2>4, <2>5, <2>6, <2>7, <2>8
  <1>6. CASE CreateOfflineSessions(r)
    <2>1. session' # session => \A c \in Clients :
            \/ c = loc[r].client /\ session'.Refresh[c] = loc[r].id
            \/ c # loc[r].client /\ session'.Refresh[c] = 0
      <3>1. session' # session =>
              session' = [exists  |-> TRUE,
                          Refresh |-> [NoRefs EXCEPT ![loc[r].client] = loc[r].id]]
        BY <1>6 DEF CreateOfflineSessions
      <3>2. \A c \in Clients : [NoRefs EXCEPT ![loc[r].client] = loc[r].id][c] =
                                 IF c = loc[r].client THEN loc[r].id ELSE 0
        BY <1>3 DEF NoRefs
      <3> DEFINE R == [NoRefs EXCEPT ![loc[r].client] = loc[r].id]
      <3>3. [exists |-> TRUE, Refresh |-> R].Refresh = R
        OBVIOUS
      <3>4. session' # session => session'.Refresh = R
        BY <3>1, <3>3
      <3>5. \A c \in Clients : R[c] = IF c = loc[r].client THEN loc[r].id ELSE 0
        BY <3>2
      <3> HIDE DEF R
      <3> QED
        BY <3>4, <3>5
    <2>2. ~session.exists => session' # session
      BY SMTT(30), Z3T(30), <1>6 DEF CreateOfflineSessions
    <2>3. \/ session' = session /\ Moves(r, "cleanup", loc[r])
          \/ ~session.exists /\ Moves(r, "respond", loc[r])
      BY SMTT(30), Z3T(30), <1>6, CreateOfflineSessionsStep
    <2>4. pc[r] = "createSession"
      BY <1>6 DEF CreateOfflineSessions
    <2>5. CASE session' = session /\ Moves(r, "cleanup", loc[r])
      BY <1>4, <2>4, <2>5
    <2>6. CASE ~session.exists /\ Moves(r, "respond", loc[r])
      BY <1>5, <2>1, <2>2, <2>6
    <2> QED
      BY <2>3, <2>5, <2>6
  <1>7. CASE UpdateOfflineSessions(r)
    <2>1. \A c \in Clients :
            \/ c = loc[r].client /\ session'.Refresh[c] = loc[r].id
            \/ c # loc[r].client /\ session'.Refresh[c] = session.Refresh[c]
      BY <1>7 DEF UpdateOfflineSessions, TypeInv, DataOK, Session
    <2> QED
      BY SMTT(30), Z3T(30), <1>5, <1>7, <2>1, UpdateOfflineSessionsStep
  <1> QED
    BY <1>6, <1>7

\* Deleting the token the session refers to: the request that does it is now
\* the one that replaces the ref.
LEMMA DeleteOldKeepsRefs ==
    ASSUME TypeInv, RefInv, IDsPast', NEW r \in Requests, DeleteOldRefresh(r)
    PROVE  RefInv'
  <1> SUFFICES ASSUME faults' = 0
               PROVE  /\ RefsOwned' /\ PendingStored' /\ NoRefTo' /\ KnownAlone'
                      /\ RefsResolve'
    BY RefInvParts
  <1>1. faults = 0
    BY SMTT(30), Z3T(30) DEF DeleteOldRefresh, Answered, TypeInv, DataOK
  <1>2. /\ pc[r] = "deleteOld" /\ session' = session /\ lost' = lost
        /\ RefsOwned /\ PendingStored /\ NoRefTo /\ KnownAlone /\ RefsResolve
    BY <1>1 DEF DeleteOldRefresh, RefInv, PendingPrivate
  <1>3. CASE ~Stored(loc[r].old)
    <2>1. refresh' = refresh
      BY <1>3 DEF DeleteOldRefresh
    <2>2. /\ pc'[r] = "cleanup" /\ loc'[r] = loc[r]
          /\ \A q \in Requests : q # r => pc'[q] = pc[q] /\ loc'[q] = loc[q]
      BY SMTT(30), Z3T(30), <1>3, DeleteOldRefreshStep DEF Moves
    <2>3. RefsOwned' /\ PendingStored'
      BY SMTT(30), Z3T(30), <1>2, <2>1, <2>2 DEF RefsOwned, PendingStored, Pending, Stored
    <2>4. NoRefTo' /\ KnownAlone'
      BY SMTT(30), Z3T(30), <1>2, <2>1, <2>2 DEF NoRefTo, KnownAlone, Unreferenced, Pending
    <2>5. RefsResolve'
      BY SMTT(30), Z3T(30), <1>1, <1>2, <2>1, <2>2 DEF RefsResolve, Stored
    <2> QED
      BY <2>3, <2>4, <2>5
  <1>4. CASE Stored(loc[r].old)
    <2>0. PICK o \in IDs : o = loc[r].old
      BY <1>4 DEF Stored
    <2>1. /\ refresh' = [refresh EXCEPT ![o] = NoToken]
          /\ refresh[o].ClientID = loc[r].client /\ Stored(o)
      BY <1>2, <1>4, <2>0 DEF DeleteOldRefresh, RefsOwned
    <2>2. \A i \in IDs : i # o => refresh'[i] = refresh[i] /\ (Stored(i)' <=> Stored(i))
      BY <2>1 DEF TypeInv, DataOK, Stored
    <2>3. ~Stored(o)'
      BY <2>1 DEF TypeInv, DataOK, Stored
    <2>4. /\ pc'[r] = "updateSession" /\ loc'[r] = loc[r]
          /\ \A q \in Requests : q # r => pc'[q] = pc[q] /\ loc'[q] = loc[q]
      <3>1. refresh' # refresh
        BY <2>0, <2>1, <2>3 DEF Stored
      <3> QED
        BY SMTT(30), Z3T(30), <3>1, DeleteOldRefreshStep DEF Moves
    <2>5. RefsOwned'
      <3>1. \A i : i \in IDs /\ Stored(i)' => refresh'[i] = refresh[i] /\ Stored(i)
        BY <2>2, <2>3
      <3> QED
        BY SMTT(30), Z3T(30), <1>2, <2>4, <3>1 DEF RefsOwned, Stored
    <2>6. PendingStored'
      <3>1. \A q \in Requests : pc[q] \in Pending => loc[q].id # o
        BY <1>2, <2>0 DEF KnownAlone
      <3> QED
        BY SMTT(30), Z3T(30), <1>2, <2>2, <2>4, <3>1 DEF PendingStored, Pending, Stored
    <2>7. NoRefTo' /\ KnownAlone'
      BY SMTT(30), Z3T(30), <1>2, <2>4 DEF NoRefTo, KnownAlone, Unreferenced, Pending
    <2>8. RefsResolve'
      <3> SUFFICES ASSUME NEW c \in Clients \ lost, session.Refresh[c] # 0,
                          ~(Stored(session.Refresh[c])' /\ refresh'[session.Refresh[c]].ClientID = c)
                   PROVE  \E q \in Requests : /\ pc'[q] = "updateSession"
                                              /\ loc'[q].client = c
                                              /\ loc'[q].old = session.Refresh[c]
        BY SMTT(30), Z3T(30), <1>2 DEF RefsResolve, Stored
      <3>1. CASE session.Refresh[c] = o
        BY <1>2, <2>0, <2>1, <2>4, <3>1 DEF RefsOwned
      <3>2. CASE session.Refresh[c] # o
        <4>1. ~(Stored(session.Refresh[c]) /\ refresh[session.Refresh[c]].ClientID = c)
          BY <1>2, <2>2, <3>2 DEF Stored
        <4> QED
          BY SMTT(30), Z3T(30), <1>1, <1>2, <2>4, <4>1 DEF RefsResolve
      <3> QED
        BY <3>1, <3>2
    <2> QED
      BY <2>5, <2>6, <2>7, <2>8
  <1> QED
    BY <1>3, <1>4

\* The two steps that delete a token no ref names.
LEMMA UnreferencedDeletionKeepsRefs ==
    ASSUME TypeInv, RefInv, IDsPast', NEW r \in Requests, Cleanup(r) \/ RevokeDelete(r)
    PROVE  RefInv'
  <1> SUFFICES ASSUME faults' = 0
               PROVE  /\ RefsOwned' /\ PendingStored' /\ NoRefTo' /\ KnownAlone'
                      /\ RefsResolve'
    BY RefInvParts
  <1>1. /\ pc[r] \in {"cleanup", "revokeDelete"} /\ faults = 0
        /\ session' = session /\ lost' = lost
        /\ RefsOwned /\ PendingStored /\ NoRefTo /\ KnownAlone /\ RefsResolve
    BY DEF Cleanup, RevokeDelete, RefInv, PendingPrivate
  <1>2. PICK d : d = loc[r].id
    OBVIOUS
  <1>3. refresh' = [refresh EXCEPT ![d] = NoToken]
    BY <1>2 DEF Cleanup, RevokeDelete
  <1>4. \A i \in IDs : i # d => refresh'[i] = refresh[i] /\ (Stored(i)' <=> Stored(i))
    BY <1>3 DEF TypeInv, DataOK, Stored
  <1>5. ~Stored(d)'
    BY <1>3 DEF TypeInv, DataOK, Stored
  <1>6. /\ pc'[r] = "idle"
        /\ \A q \in Requests : q # r => pc'[q] = pc[q] /\ loc'[q] = loc[q]
    BY CleanupStep, RevokeDeleteStep DEF Moves
  <1>7. \A q \in Requests : pc'[q] # "idle" => q # r /\ pc'[q] = pc[q] /\ loc'[q] = loc[q]
    BY <1>6
  <1>8. RefsOwned'
    <2>1. \A i : i \in IDs /\ Stored(i)' => refresh'[i] = refresh[i] /\ Stored(i)
      BY <1>4, <1>5
    <2> QED
      BY SMTT(30), Z3T(30), <1>1, <1>7, <2>1 DEF RefsOwned, Stored
  <1>9. PendingStored'
    <2>1. \A q \in Requests : q # r /\ pc[q] \in Pending => loc[q].id # d
      BY <1>1, <1>2 DEF KnownAlone, Unreferenced
    <2> QED
      BY SMTT(30), Z3T(30), <1>1, <1>4, <1>7, <2>1 DEF PendingStored, Pending, Stored
  <1>10. NoRefTo' /\ KnownAlone'
    BY SMTT(30), Z3T(30), <1>1, <1>7 DEF NoRefTo, KnownAlone, Unreferenced, Pending
  <1>11. RefsResolve'
    <2>1. \A c \in Clients : session.Refresh[c] # d
      BY <1>1, <1>2 DEF NoRefTo, Unreferenced
    <2>2. \A q \in Requests : pc[q] = "updateSession" => pc'[q] = pc[q] /\ loc'[q] = loc[q]
      BY <1>1, <1>6
    <2>3. ASSUME NEW c \in Clients \ lost
          PROVE  LET ref == session'.Refresh[c]
                 IN  \/ ref = 0
                     \/ ref \in IDs /\ refresh'[ref] # NoToken /\ refresh'[ref].ClientID = c
                     \/ \E q \in Requests : /\ pc'[q] = "updateSession"
                                            /\ loc'[q].client = c /\ loc'[q].old = ref
      <3>1. PICK i : i = session.Refresh[c] /\ i = session'.Refresh[c]
        BY <1>1
      <3>2. \/ i = 0
            \/ Stored(i) /\ refresh[i].ClientID = c
            \/ \E q \in Requests : pc[q] = "updateSession" /\ loc[q].client = c /\ loc[q].old = i
        BY SMTT(30), Z3T(30), <1>1, <3>1 DEF RefsResolve
      <3>3. Stored(i) => i \in IDs /\ i # d
        BY <2>1, <3>1 DEF Stored
      <3>4. Stored(i) => Stored(i)' /\ refresh'[i] = refresh[i]
        BY <1>4, <3>3
      <3>5. Stored(i)' => i \in IDs /\ refresh'[i] # NoToken
        BY DEF Stored
      <3>6. ASSUME NEW q \in Requests, pc[q] = "updateSession"
            PROVE  pc'[q] = "updateSession" /\ loc'[q] = loc[q]
        BY <2>2, <3>6
      <3> QED
        BY <3>1, <3>2, <3>4, <3>5, <3>6
    <2> QED
      BY <1>1, <2>3 DEF RefsResolve, Stored
  <1> QED
    BY <1>8, <1>9, <1>10, <1>11

\* Claiming a token changes its value, not its client.
LEMMA ClaimKeepsRefs ==
    ASSUME TypeInv, RefInv, IDsPast', NEW r \in Requests, UpdateRefreshToken(r)
    PROVE  RefInv'
  <1> SUFFICES ASSUME faults' = 0
               PROVE  /\ RefsOwned' /\ PendingStored' /\ NoRefTo' /\ KnownAlone'
                      /\ RefsResolve'
    BY RefInvParts
  <1>1. /\ pc[r] = "claim" /\ session' = session /\ lost' = lost /\ faults = 0
        /\ RefsOwned /\ PendingStored /\ NoRefTo /\ KnownAlone /\ RefsResolve
    BY SMTT(30), Z3T(30) DEF UpdateRefreshToken, RefInv, PendingPrivate, TypeInv, DataOK
  <1>2. \A i \in IDs : (Stored(i)' <=> Stored(i)) /\ refresh'[i].ClientID = refresh[i].ClientID
    <2>1. CASE refresh' = refresh
      BY <2>1 DEF Stored
    <2>2. PICK d : d = loc[r].id
      OBVIOUS
    <2>3. CASE /\ Stored(d)
               /\ refresh' = [refresh EXCEPT ![d] = [ClientID |-> refresh[d].ClientID,
                                                     Token    |-> lastID + 1]]
      <3>1. refresh'[d] = [ClientID |-> refresh[d].ClientID, Token |-> lastID + 1]
        BY <2>3 DEF TypeInv, DataOK, Stored
      <3>2. lastID + 1 # 0
        BY SMTT(30), Z3T(30), RefreshAssumption DEF TypeInv, DataOK
      <3>3. refresh'[d] # NoToken
        BY SMTT(30), Z3T(30), <3>1, <3>2 DEF NoToken
      <3>4. \A i \in IDs : i # d => refresh'[i] = refresh[i]
        BY <2>3 DEF TypeInv, DataOK
      <3> QED
        BY SMTT(30), Z3T(30), <2>3, <3>1, <3>3, <3>4 DEF Stored
    <2> QED
      BY <2>1, <2>2, <2>3 DEF UpdateRefreshToken
  <1>3. /\ pc'[r] \in {"answer", "idle"}
        /\ \A q \in Requests : q # r => pc'[q] = pc[q] /\ loc'[q] = loc[q]
    BY UpdateRefreshTokenStep DEF Moves
  <1>4. \A q \in Requests : pc'[q] \notin {"answer", "idle"} \/ pc[q] = "updateSession" =>
          q # r /\ pc'[q] = pc[q] /\ loc'[q] = loc[q]
    BY <1>1, <1>3
  <1>5. RefsOwned'
    BY SMTT(30), Z3T(30), <1>1, <1>2, <1>4 DEF RefsOwned, Stored
  <1>6. PendingStored'
    BY SMTT(30), Z3T(30), <1>1, <1>2, <1>4 DEF PendingStored, Pending, Stored
  <1>7. NoRefTo' /\ KnownAlone'
    BY SMTT(30), Z3T(30), <1>1, <1>4 DEF NoRefTo, KnownAlone, Unreferenced, Pending
  <1>8. RefsResolve'
    BY SMTT(30), Z3T(30), <1>1, <1>2, <1>4 DEF RefsResolve, Stored
  <1> QED
    BY <1>5, <1>6, <1>7, <1>8

LEMMA RevokeKeepsRefs ==
    ASSUME TypeInv, RefInv, IDsPast', NEW r \in Requests, NEW c \in Revocable,
           RevokeRef(r, c)
    PROVE  RefInv'
  <1> SUFFICES ASSUME faults' = 0
               PROVE  /\ RefsOwned' /\ PendingStored' /\ NoRefTo' /\ KnownAlone'
                      /\ RefsResolve'
    BY RefInvParts
  <1>1. /\ pc[r] = "idle" /\ refresh' = refresh /\ faults = 0 /\ session.Refresh[c] # 0
        /\ RefsOwned /\ PendingStored /\ NoRefTo /\ KnownAlone /\ RefsResolve
    <2>1. faults \in Nat /\ (faults' = faults \/ faults' = faults + 1)
      <3>1. faults' = faults \/ faults' = faults + 1
        BY DEF RevokeRef
      <3> QED
        BY SMTT(30), Z3T(30), <3>1, RefreshAssumption DEF TypeInv, DataOK
    <2>2. faults = 0
      BY SMTT(30), Z3T(30), <2>1
    <2> QED
      BY <2>2 DEF RevokeRef, RefInv, PendingPrivate
  <1>2. /\ c \in Clients /\ session'.Refresh[c] = 0
        /\ \A d \in Clients : d # c => session'.Refresh[d] = session.Refresh[d]
    BY RevokeRefStep DEF RevokeRef, TypeInv, DataOK, Session
  <1>3. /\ pc'[r] = "revokeDelete" /\ loc'[r].id = session.Refresh[c]
        /\ \A q \in Requests : q # r => pc'[q] = pc[q] /\ loc'[q] = loc[q]
    <2> DEFINE l == Locals("none", c, session.Refresh[c], 0, 0)
    <2>1. l.id = session.Refresh[c]
      BY DEF Locals
    <2>2. Moves(r, "revokeDelete", l)
      BY SMTT(30), Z3T(30), RevokeRefStep
    <2> QED
      BY <2>1, <2>2 DEF Moves
  <1>4. \A q \in Requests : pc'[q] # "revokeDelete" \/ pc[q] = "updateSession" =>
          q # r /\ pc'[q] = pc[q] /\ loc'[q] = loc[q]
    BY <1>1, <1>3
  <1>5. ~Stored(0)
    BY SMTT(30), Z3T(30) DEF Stored, IDs
  <1>6. RefsOwned'
    BY SMTT(30), Z3T(30), <1>1, <1>2, <1>4, <1>5 DEF RefsOwned, Stored
  <1>7. PendingStored'
    BY SMTT(30), Z3T(30), <1>1, <1>4 DEF PendingStored, Pending, Stored
  <1>8. NoRefTo'
    <2>1. \A q \in Requests : pc[q] \in Unreferenced => loc[q].id # 0
      BY DEF TypeInv, ControlOK, SetAt, Unreferenced, Pending, Holding
    <2>2. \A d \in Clients : d # c => session.Refresh[d] # session.Refresh[c]
      BY <1>1, <1>2 DEF RefsOwned
    <2> QED
      BY SMTT(30), Z3T(30), <1>1, <1>2, <1>3, <2>1, <2>2 DEF NoRefTo
  <1>9. KnownAlone'
    <2>1. \A q \in Requests : pc[q] \in Pending \cup {"cleanup"} => loc[q].id # session.Refresh[c]
      BY <1>1, <1>2 DEF NoRefTo, Unreferenced
    <2> QED
      BY SMTT(30), Z3T(30), <1>1, <1>3, <1>4, <2>1 DEF KnownAlone, Pending, Unreferenced
  <1>10. RefsResolve'
    <2>1. \A d \in Clients : session'.Refresh[d] # 0 =>
            session'.Refresh[d] = session.Refresh[d]
      BY <1>2
    <2>2. \A i : Stored(i)' <=> Stored(i)
      BY <1>1 DEF Stored
    <2>3. \A d \in Clients \ lost :
            \/ session.Refresh[d] = 0
            \/ Stored(session.Refresh[d]) /\ refresh[session.Refresh[d]].ClientID = d
            \/ \E q \in Requests : /\ pc'[q] = "updateSession"
                                   /\ loc'[q].client = d /\ loc'[q].old = session.Refresh[d]
      BY SMTT(30), Z3T(30), <1>1, <1>4 DEF RefsResolve
    <2>4. lost' = lost \ {c}
      BY DEF RevokeRef
    <2> QED
      BY SMTT(30), Z3T(30), <1>1, <1>2, <2>1, <2>2, <2>3, <2>4 DEF RefsResolve, Stored
  <1> QED
    BY <1>6, <1>7, <1>8, <1>9, <1>10

\* The request that was to replace the ref gives up: its client is among lost.
LEMMA ConflictKeepsRefs ==
    ASSUME TypeInv, RefInv, IDsPast', NEW r \in Requests, Conflict(r),
           pc[r] = "updateSession"
    PROVE  RefInv'
  <1> SUFFICES ASSUME faults' = 0
               PROVE  /\ RefsOwned' /\ PendingStored' /\ NoRefTo' /\ KnownAlone'
                      /\ RefsResolve'
    BY RefInvParts
  <1>1. /\ UNCHANGED <<refresh, session>> /\ faults = 0
        /\ RefsOwned /\ PendingStored /\ NoRefTo /\ KnownAlone /\ RefsResolve
        /\ lost' = IF loc[r].old # 0 THEN lost \cup {loc[r].client} ELSE lost
    BY DEF Conflict, RefInv, PendingPrivate
  <1>2. /\ pc'[r] = "cleanup" /\ loc'[r] = loc[r]
        /\ \A q \in Requests : q # r => pc'[q] = pc[q] /\ loc'[q] = loc[q]
    BY ConflictStep DEF Moves
  <1>3. RefsOwned' /\ PendingStored'
    BY SMTT(30), Z3T(30), <1>1, <1>2 DEF RefsOwned, PendingStored, Pending, Stored
  <1>4. NoRefTo' /\ KnownAlone'
    BY SMTT(30), Z3T(30), <1>1, <1>2 DEF NoRefTo, KnownAlone, Unreferenced, Pending
  <1>5. RefsResolve'
    <2>1. \A c \in Clients \ lost' : c \notin lost /\ (c = loc[r].client => loc[r].old = 0)
      BY <1>1
    <2> QED
      BY SMTT(30), Z3T(30), <1>1, <1>2, <2>1 DEF RefsResolve, Stored
  <1> QED
    BY <1>3, <1>4, <1>5

LEMMA RefStep == TypeInv /\ HistoryInv /\ RefInv /\ [Next]_vars => RefInv'
  <1> SUFFICES ASSUME TypeInv, HistoryInv, RefInv, [Next]_vars PROVE RefInv'
    OBVIOUS
  <1>1. IDsPast' /\ IDsPast
    BY IDsPastStep DEF RefInv
  <1>2. NoLocal.id =< lastID /\ NoLocal.old =< lastID
    BY SMTT(30), Z3T(30) DEF TypeInv, DataOK, NoLocal, Locals
  <1>3. \A r \in Requests : loc[r].id =< lastID /\ loc[r].old =< lastID
    BY <1>1 DEF IDsPast
  <1>4. /\ \A label \in {"idle", "deleteCode", "connector", "create", "respond",
                         "touchSession", "claim"} : label \notin Unreferenced
        /\ faults \in Nat
    BY SMTT(30), Z3T(30), RefreshAssumption DEF Unreferenced, Pending, TypeInv, DataOK
  <1>5. CASE UNCHANGED <<refresh, session, lastID, pc, loc, faults, lost>>
    <2>1. RefsOwned' = RefsOwned /\ PendingPrivate' = PendingPrivate /\ RefsResolve' = RefsResolve
      BY SMTT(30), Z3T(30), <1>5 DEF RefsOwned, PendingPrivate, PendingStored, NoRefTo, KnownAlone,
                  RefsResolve, Stored
    <2> QED
      BY <1>1, <1>5, <2>1 DEF RefInv
  <1>6. ASSUME NEW r \in Requests, NEW c \in Codes, GetAuthCode(r, c) PROVE RefInv'
    <2>1. Locals(c, CodeClient[c], 0, 0, 0).id = 0 /\ Locals(c, CodeClient[c], 0, 0, 0).old = 0
      BY DEF Locals
    <2>2. 0 =< lastID
      BY SMTT(30), Z3T(30) DEF TypeInv, DataOK
    <2> QED
      BY SMTT(30), Z3T(30), <1>4, <1>6, <2>1, <2>2, MoveKeepsRefs, GetAuthCodeStep DEF GetAuthCode
  <1>7. ASSUME NEW r \in Requests, DeleteAuthCode(r) PROVE RefInv'
    <2>1. faults' = 0 => faults = 0
      BY SMTT(30), Z3T(30), <1>4, <1>7 DEF DeleteAuthCode, Answered
    <2> QED
      BY <1>2, <1>3, <1>4, <1>7, <2>1, MoveKeepsRefs, DeleteAuthCodeStep DEF DeleteAuthCode
  <1>8. ASSUME NEW r \in Requests, ReqRefresh(r) PROVE RefInv'
    BY <1>3, <1>4, <1>8, MoveKeepsRefs, ReqRefreshStep DEF ReqRefresh
  <1>9. ASSUME NEW r \in Requests, CreateRefresh(r) PROVE RefInv'
    BY <1>1, <1>9, CreateKeepsRefs
  <1>10. ASSUME NEW r \in Requests, GetOfflineSessions(r) PROVE RefInv'
    BY <1>1, <1>10, GetSessionKeepsRefs
  <1>11. ASSUME NEW r \in Requests, CreateOfflineSessions(r) \/ UpdateOfflineSessions(r)
         PROVE  RefInv'
    BY <1>1, <1>11, RefSetKeepsRefs
  <1>12. ASSUME NEW r \in Requests, DeleteOldRefresh(r) PROVE RefInv'
    BY <1>1, <1>12, DeleteOldKeepsRefs
  <1>13. ASSUME NEW r \in Requests, Cleanup(r) \/ RevokeDelete(r) PROVE RefInv'
    BY <1>1, <1>13, UnreferencedDeletionKeepsRefs
  <1>14. ASSUME NEW r \in Requests, WriteCodeResponse(r) PROVE RefInv'
    BY <1>2, <1>4, <1>14, MoveKeepsRefs, WriteCodeResponseStep DEF WriteCodeResponse
  <1>15. ASSUME NEW r \in Requests, NEW t \in issued, GetRefresh(r, t) PROVE RefInv'
    <2> DEFINE l == Locals("none", refresh[t.id].ClientID, t.id, t.Token, 0)
    <2>1. l.id = t.id /\ l.old = 0
      BY DEF Locals
    <2>2. t.id =< lastID /\ 0 =< lastID
      BY SMTT(30), Z3T(30), <1>15
      DEF GetRefresh, HistoryInv, TokensNumbered, Stored, TypeInv, DataOK
    <2>3. /\ UNCHANGED <<refresh, session, lastID, faults, lost>> /\ pc[r] = "idle"
          /\ Moves(r, "touchSession", l)
      BY <1>15, GetRefreshStep DEF GetRefresh
    <2> HIDE DEF l
    <2> QED
      BY <1>4, <2>1, <2>2, <2>3, MoveKeepsRefs
  <1>16. ASSUME NEW r \in Requests, TouchOfflineSessions(r) PROVE RefInv'
    <2>1. faults' = 0 => faults = 0
      <3>1. Answered(r, "claim") => faults' = faults \/ faults' = faults + 1
        BY DEF Answered
      <3>2. faults' = faults \/ faults' = faults + 1
        BY <1>16, <3>1 DEF TouchOfflineSessions
      <3> QED
        BY SMTT(30), Z3T(30), <1>4, <3>2
    <2> QED
      BY <1>2, <1>3, <1>4, <1>16, <2>1, MoveKeepsRefs, TouchOfflineSessionsStep
      DEF TouchOfflineSessions
  <1>17. ASSUME NEW r \in Requests, UpdateRefreshToken(r) PROVE RefInv'
    BY <1>1, <1>17, ClaimKeepsRefs
  <1>18. ASSUME NEW r \in Requests, WriteRefreshResponse(r) PROVE RefInv'
    BY <1>2, <1>4, <1>18, MoveKeepsRefs, WriteRefreshResponseStep DEF WriteRefreshResponse
  <1>19. ASSUME NEW r \in Requests, NEW c \in Revocable, RevokeRef(r, c) PROVE RefInv'
    BY <1>1, <1>19, RevokeKeepsRefs
  <1>20. ASSUME NEW r \in Requests, StorageError(r) \/ Crash(r) PROVE RefInv'
    BY <1>1, <1>20, FailureKeepsRefs, FailureStep
  <1>21. ASSUME NEW r \in Requests, Conflict(r) PROVE RefInv'
    <2>1. CASE pc[r] = "updateSession"
      BY <1>1, <1>21, <2>1, ConflictKeepsRefs
    <2>2. CASE pc[r] = "touchSession"
      <3>1. Moves(r, "idle", NoLocal)
        BY <1>21, <2>2, ConflictStep
      <3> QED
        BY <1>2, <1>4, <1>21, <2>2, <3>1, MoveKeepsRefs DEF Conflict
    <2> QED
      BY <1>21, <2>1, <2>2 DEF Conflict
  <1> QED
    BY SMTT(30), Z3T(30), <1>5, <1>6, <1>7, <1>8, <1>9, <1>10, <1>11, <1>12, <1>13, <1>14, <1>15,
       <1>16, <1>17, <1>18, <1>19, <1>20, <1>21
    DEF Next, HandleAuthCode, HandleRefreshToken, RevokeRefresh, CollectCode, vars

LEMMA RefInit == Init => RefInv
  <1> SUFFICES ASSUME Init PROVE RefInv
    OBVIOUS
  <1>1. /\ \A r \in Requests : pc[r] = "idle" /\ loc[r] = NoLocal
        /\ \A c \in Clients : session.Refresh[c] = 0
        /\ lastID = 0
    BY DEF Init, NoRefs
  <1>2. ~Stored(0) /\ NoLocal.id = 0 /\ NoLocal.old = 0
    BY SMTT(30), Z3T(30) DEF Stored, IDs, NoLocal, Locals
  <1>3. IDsPast
    BY SMTT(30), Z3T(30), <1>1, <1>2 DEF IDsPast
  <1>4. RefsOwned /\ RefsResolve
    BY <1>1, <1>2 DEF RefsOwned, RefsResolve
  <1>5. PendingPrivate
    BY <1>1 DEF PendingPrivate, PendingStored, NoRefTo, KnownAlone, Unreferenced, Pending
  <1> QED
    BY <1>3, <1>4, <1>5 DEF RefInv

\* Until something fails, every ref of the offline session names a stored token
\* of its client, except while the exchange that replaces it runs and after the
\* storage refused that exchange's UpdateOfflineSessions, however many
\* exchanges, refreshes and revocations interleave and overtake each other.
THEOREM RefsAlwaysResolve == Spec => []RefsResolve
  <1>1. RefInv => RefsResolve
    BY DEF RefInv
  <1> QED
    BY <1>1, TypeInit, TypeStep, HistoryInit, HistoryStep, RefInit, RefStep, PTL DEF Spec
-----------------------------------------------------------------------------
(***************************************************************************)
(* Refs that are there.  A token that was sent to a client that nobody     *)
(* revokes tokens of got its ref first; no step takes such a ref away, and *)
(* no ID is given to a second client.  Failures change nothing of this.    *)
(***************************************************************************)
HasRef(c) == c \in Revocable \/ session.Refresh[c] # 0

\* What a request with the locals l may rely on when it is at a line.
PresentAt(label, l) ==
    /\ label # "revokeDelete" /\ Stored(l.id) => refresh[l.id].ClientID = l.client
    /\ label \in {"touchSession", "claim", "answer"} \/ (label = "respond" /\ l.id # 0)
         => HasRef(l.client)
    /\ label \in {"deleteOld", "updateSession"} => session.exists
    /\ label \in {"deleteCode", "connector", "create"} => l.id = 0

IssuedHaveRef ==
    \A t \in issued : t.id =< lastID /\ (Stored(t.id) => HasRef(refresh[t.id].ClientID))

PresentInv ==
    /\ ~session.exists => \A c \in Clients : session.Refresh[c] = 0
    /\ IssuedHaveRef
    /\ \A r \in Requests : PresentAt(pc[r], loc[r])

\* What no step does: lose a session or a ref, or give an ID to another client.
StorageGrows ==
    /\ session.exists => session'.exists
    /\ ~session'.exists => \A c \in Clients : session'.Refresh[c] = 0
    /\ \A c \in Clients : HasRef(c) => HasRef(c)'
    /\ \A i \in IDs : i =< lastID /\ Stored(i)' =>
          Stored(i) /\ refresh'[i].ClientID = refresh[i].ClientID
    /\ lastID =< lastID'

\* Then the request that moves, and what it sends, is all there is to look at.
LEMMA MoveKeepsPresent ==
    ASSUME TypeInv, TypeInv', IDsPast, PresentInv, StorageGrows,
           NEW r \in Requests, NEW label, NEW l, Moves(r, label, l),
           PresentAt(label, l)',
           \A t \in issued' \ issued :
             /\ t.id = loc[r].id /\ PresentAt("answer", loc[r])
             /\ loc[r].client \in Clients
    PROVE  PresentInv'
  <1>1. ASSUME NEW q \in Requests PROVE PresentAt(pc[q], loc[q])'
    <2>1. CASE q = r
      BY <2>1 DEF Moves
    <2>2. CASE q # r
      <3>1. pc'[q] = pc[q] /\ loc'[q] = loc[q] /\ PresentAt(pc[q], loc[q])
        BY <2>2 DEF Moves, PresentInv
      <3>2. /\ loc[q].id =< lastID
            /\ pc[q] # "idle" => loc[q].client \in Clients
        BY DEF IDsPast, TypeInv, ControlOK, SetAt
      <3>3. Stored(loc[q].id)' =>
              Stored(loc[q].id) /\ refresh'[loc[q].id].ClientID = refresh[loc[q].id].ClientID
        BY <3>1, <3>2 DEF StorageGrows, Stored
      <3>4. PICK j, k : j = pc[q] /\ k = loc[q]
        OBVIOUS
      <3>5. HasRef(k.client) /\ j # "idle" => HasRef(k.client)'
        BY <3>2, <3>4 DEF StorageGrows
      <3>6. session.exists => session'.exists
        BY DEF StorageGrows
      <3> QED
        BY <3>1, <3>3, <3>4, <3>5, <3>6 DEF PresentAt
    <2> QED
      BY <2>1, <2>2
  <1>2. ASSUME NEW t \in issued'
        PROVE  t.id =< lastID' /\ (Stored(t.id)' => HasRef(refresh[t.id].ClientID)')
    <2>1. t.id \in IDs /\ lastID \in Nat /\ lastID' \in Nat
      BY SMTT(30), Z3T(30), RefreshAssumption DEF TypeInv, DataOK
    <2>2. /\ t.id =< lastID
          /\ Stored(t.id) => /\ refresh[t.id].ClientID \in Clients
                             /\ HasRef(refresh[t.id].ClientID)
      <3>1. Stored(t.id) => refresh[t.id].ClientID \in Clients
        BY DEF Stored, TypeInv, DataOK, RefreshToken
      <3>2. CASE t \in issued
        BY <3>1, <3>2 DEF PresentInv, IssuedHaveRef
      <3>3. CASE t \notin issued
        BY <3>1, <3>3 DEF PresentAt, IDsPast
      <3> QED
        BY <3>2, <3>3
    <2>3. t.id =< lastID'
      <3>1. lastID =< lastID'
        BY DEF StorageGrows
      <3> QED
        BY SMTT(30), Z3T(30), <2>1, <2>2, <3>1, RefreshAssumption DEF IDs
    <2>4. ASSUME Stored(t.id)' PROVE HasRef(refresh[t.id].ClientID)'
      <3>1. Stored(t.id) /\ refresh'[t.id].ClientID = refresh[t.id].ClientID
        BY <2>1, <2>2, <2>4 DEF StorageGrows
      <3> QED
        BY <2>2, <3>1 DEF StorageGrows, HasRef
    <2> QED
      BY <2>3, <2>4
  <1> QED
    BY <1>1, <1>2 DEF PresentInv, IssuedHaveRef, StorageGrows

\* Calls that delete a token leave the rest of the storage alone.
LEMMA DeletionGrows ==
    ASSUME TypeInv, PresentInv, NEW i, refresh' = [refresh EXCEPT ![i] = NoToken],
           UNCHANGED <<session, lastID>>
    PROVE  StorageGrows
  <1>1. \A j \in IDs : Stored(j)' => Stored(j) /\ refresh'[j] = refresh[j]
    BY DEF Stored, TypeInv, DataOK
  <1>2. \A c \in Clients : HasRef(c) => HasRef(c)'
    BY DEF HasRef
  <1>3. lastID =< lastID'
    BY SMTT(30), Z3T(30) DEF TypeInv, DataOK
  <1> QED
    BY <1>1, <1>2, <1>3 DEF StorageGrows, PresentInv

\* Every call on the storage keeps what StorageGrows says.
LEMMA StorageStep == TypeInv /\ PresentInv /\ [Next]_vars => StorageGrows
  <1> SUFFICES ASSUME TypeInv, PresentInv, [Next]_vars PROVE StorageGrows
    OBVIOUS
  <1>0. lastID \in Nat /\ lastID =< lastID
    BY SMTT(30), Z3T(30), RefreshAssumption DEF TypeInv, DataOK
  <1>1. CASE UNCHANGED <<refresh, session, lastID>>
    BY <1>0, <1>1 DEF StorageGrows, PresentInv, HasRef, Stored
  <1>2. ASSUME NEW r \in Requests, CreateRefresh(r) PROVE StorageGrows
    <2>1. /\ refresh' = [refresh EXCEPT ![lastID + 1] =
                           [ClientID |-> loc[r].client, Token |-> lastID + 1]]
          /\ lastID' = lastID + 1 /\ session' = session
      BY <1>2 DEF CreateRefresh
    <2>2. \A i \in IDs : i =< lastID => refresh'[i] = refresh[i]
      BY SMTT(30), Z3T(30), <1>0, <2>1 DEF TypeInv, DataOK, IDs
    <2> QED
      BY SMTT(30), Z3T(30), <1>0, <2>1, <2>2 DEF StorageGrows, PresentInv, HasRef, Stored
  <1>3. ASSUME NEW r \in Requests, CreateOfflineSessions(r) PROVE StorageGrows
    <2>1. CASE session.exists
      BY <1>1, <1>3, <2>1 DEF CreateOfflineSessions
    <2>2. CASE ~session.exists
      <3>1. /\ session' = [exists  |-> TRUE,
                           Refresh |-> [NoRefs EXCEPT ![loc[r].client] = loc[r].id]]
            /\ UNCHANGED <<refresh, lastID>>
        BY <1>3, <2>2 DEF CreateOfflineSessions
      <3>2. \A c \in Clients : HasRef(c) => HasRef(c)'
        BY <2>2 DEF PresentInv, HasRef
      <3> QED
        BY <1>0, <3>1, <3>2 DEF StorageGrows, Stored
    <2> QED
      BY <2>1, <2>2
  <1>4. ASSUME NEW r \in Requests, UpdateOfflineSessions(r) PROVE StorageGrows
    <2>1. /\ session' = [exists |-> session.exists,
                         Refresh |-> [session.Refresh EXCEPT ![loc[r].client] = loc[r].id]]
          /\ session.exists
          /\ UNCHANGED <<refresh, lastID>>
      BY <1>4 DEF UpdateOfflineSessions, PresentInv, PresentAt
    <2>2. loc[r].client \in Clients /\ loc[r].id # 0
      BY <1>4 DEF UpdateOfflineSessions, TypeInv, ControlOK, SetAt, Holding
    <2>3. \A c \in Clients : HasRef(c) => HasRef(c)'
      BY <2>1, <2>2 DEF HasRef, TypeInv, DataOK, Session
    <2> QED
      BY <1>0, <2>1, <2>3 DEF StorageGrows, Stored
  <1>5. ASSUME NEW r \in Requests, DeleteOldRefresh(r) PROVE StorageGrows
    <2>1. CASE Stored(loc[r].old)
      BY <1>5, <2>1, DeletionGrows DEF DeleteOldRefresh
    <2>2. CASE ~Stored(loc[r].old)
      BY <1>1, <1>5, <2>2 DEF DeleteOldRefresh
    <2> QED
      BY <2>1, <2>2
  <1>6. ASSUME NEW r \in Requests, Cleanup(r) \/ RevokeDelete(r) PROVE StorageGrows
    BY <1>6, DeletionGrows DEF Cleanup, RevokeDelete
  <1>7. ASSUME NEW r \in Requests, UpdateRefreshToken(r) PROVE StorageGrows
    <2> DEFINE hit == Stored(loc[r].id) /\ refresh[loc[r].id].Token = loc[r].seen
    <2>1. CASE ~hit
      BY <1>1, <1>7, <2>1 DEF UpdateRefreshToken
    <2>2. CASE hit
      <3>1. /\ refresh' = [refresh EXCEPT ![loc[r].id] =
                             [ClientID |-> refresh[loc[r].id].ClientID, Token |-> lastID + 1]]
            /\ lastID' = lastID + 1 /\ session' = session
        BY <1>7, <2>2 DEF UpdateRefreshToken
      <3>2. \A i \in IDs : Stored(i)' =>
              Stored(i) /\ refresh'[i].ClientID = refresh[i].ClientID
        BY <2>2, <3>1 DEF Stored, TypeInv, DataOK
      <3> QED
        BY SMTT(30), Z3T(30), <1>0, <3>1, <3>2 DEF StorageGrows, PresentInv, HasRef
    <2> QED
      BY <2>1, <2>2
  <1>8. ASSUME NEW r \in Requests, NEW c \in Revocable, RevokeRef(r, c) PROVE StorageGrows
    <2>1. /\ session' = [exists  |-> TRUE, Refresh |-> [session.Refresh EXCEPT ![c] = 0]]
          /\ UNCHANGED <<refresh, lastID>>
      BY <1>8 DEF RevokeRef
    <2>2. \A d \in Clients : HasRef(d) => HasRef(d)'
      BY <2>1 DEF HasRef, TypeInv, DataOK, Session
    <2> QED
      BY <1>0, <2>1, <2>2 DEF StorageGrows, Stored
  <1>9. ASSUME NEW r \in Requests, HandleAuthCode(r) PROVE StorageGrows
    BY <1>1, <1>2, <1>3, <1>4, <1>5, <1>6, <1>9
    DEF HandleAuthCode, GetAuthCode, DeleteAuthCode, ReqRefresh, GetOfflineSessions,
        WriteCodeResponse
  <1>10. ASSUME NEW r \in Requests, HandleRefreshToken(r) PROVE StorageGrows
    BY <1>1, <1>7, <1>10
    DEF HandleRefreshToken, GetRefresh, TouchOfflineSessions, WriteRefreshResponse
  <1> QED
    BY <1>1, <1>6, <1>8, <1>9, <1>10
    DEF Next, RevokeRefresh, Conflict, StorageError, Crash, CollectCode, vars

\* What a request relies on stays true while the others run.
LEMMA PresentAtKept ==
    ASSUME StorageGrows, NEW label, NEW l, l.id =< lastID,
           label # "idle" => l.client \in Clients, PresentAt(label, l)
    PROVE  PresentAt(label, l)'
  <1>1. Stored(l.id)' => Stored(l.id) /\ refresh'[l.id].ClientID = refresh[l.id].ClientID
    BY DEF StorageGrows, Stored
  <1> QED
    BY <1>1 DEF PresentAt, StorageGrows

LEMMA PresentStep ==
    TypeInv /\ HistoryInv /\ IDsPast /\ PresentInv /\ [Next]_vars => PresentInv'
  <1> SUFFICES ASSUME TypeInv, HistoryInv, IDsPast, PresentInv, [Next]_vars
               PROVE  PresentInv'
    OBVIOUS
  <1>1. TypeInv' /\ StorageGrows
    BY TypeStep, StorageStep
  <1>2. ASSUME NEW r \in Requests, NEW label, NEW l, Moves(r, label, l),
               issued' = issued, PresentAt(label, l)'
        PROVE  PresentInv'
    BY <1>1, <1>2, MoveKeepsPresent
  <1>3. PresentAt("idle", NoLocal)'
    BY SMTT(30), Z3T(30) DEF PresentAt, NoLocal, Locals, Stored, IDs
  <1>4. ASSUME NEW r \in Requests, NEW label, NEW l, label = pc[r], l = loc[r]
        PROVE  PresentAt(label, l)' /\ (label # "idle" => l.client \in Clients)
    <2>1. /\ PresentAt(label, l) /\ l.id =< lastID
          /\ label # "idle" => l.client \in Clients
      BY <1>4 DEF PresentInv, IDsPast, TypeInv, ControlOK, SetAt
    <2> QED
      BY <1>1, <2>1, PresentAtKept
  <1>5. ASSUME NEW r \in Requests, issued' = issued,
               \/ Moves(r, "idle", NoLocal)
               \/ pc[r] # "revokeDelete" /\ Moves(r, "cleanup", loc[r])
        PROVE  PresentInv'
    <2>1. PICK l : l = loc[r]
      OBVIOUS
    <2>2. pc[r] # "revokeDelete" => PresentAt("cleanup", l)'
      BY SMTT(30), Z3T(30), <1>4, <2>1 DEF PresentAt
    <2> QED
      BY <1>2, <1>3, <1>5, <2>1, <2>2
  <1>6. ASSUME NEW r \in Requests, NEW c \in Codes, GetAuthCode(r, c) PROVE PresentInv'
    <2>1. PICK l : l = Locals(c, CodeClient[c], 0, 0, 0)
      OBVIOUS
    <2>2. PresentAt("deleteCode", l)'
      BY SMTT(30), Z3T(30), <2>1 DEF PresentAt, Locals, Stored, IDs
    <2> QED
      BY <1>2, <1>6, <2>1, <2>2, GetAuthCodeStep DEF GetAuthCode
  <1>7. ASSUME NEW r \in Requests, DeleteAuthCode(r) \/ ReqRefresh(r) PROVE PresentInv'
    <2>1. PICK l : l = loc[r]
      OBVIOUS
    <2>2. PresentAt("connector", l)' /\ PresentAt("create", l)' /\ PresentAt("respond", l)'
      BY SMTT(30), Z3T(30), <1>4, <1>7, <2>1 DEF PresentAt, DeleteAuthCode, ReqRefresh
    <2> QED
      BY <1>2, <1>5, <1>7, <2>1, <2>2, DeleteAuthCodeStep, ReqRefreshStep
      DEF DeleteAuthCode, ReqRefresh
  <1>8. ASSUME NEW r \in Requests, CreateRefresh(r) PROVE PresentInv'
    <2>1. PICK l : l = Locals(loc[r].code, loc[r].client, lastID + 1, lastID + 1, 0)
      OBVIOUS
    <2>2. refresh'[l.id].ClientID = l.client
      BY <1>8, <2>1, CreateRefreshStep DEF CreateRefresh, TypeInv, DataOK, Locals
    <2>3. PresentAt("getSession", l)'
      BY <2>2 DEF PresentAt
    <2> QED
      BY <1>2, <1>5, <1>8, <2>1, <2>3, CreateRefreshStep DEF CreateRefresh
  <1>9. ASSUME NEW r \in Requests, GetOfflineSessions(r) PROVE PresentInv'
    <2>1. PICK l, m : /\ l = loc[r]
                      /\ m = Locals(loc[r].code, loc[r].client, loc[r].id, loc[r].seen,
                                    session.Refresh[loc[r].client])
      OBVIOUS
    <2>2. /\ PresentAt("getSession", l)'
          /\ m.id = l.id /\ m.client = l.client
          /\ session' = session
      BY <1>4, <1>9, <2>1 DEF GetOfflineSessions, Locals
    <2>3. /\ PresentAt("createSession", l)'
          /\ session.exists => PresentAt("updateSession", l)' /\ PresentAt("deleteOld", m)'
      BY <2>2 DEF PresentAt
    <2>4. \/ ~session.exists /\ Moves(r, "createSession", l)
          \/ session.exists /\ Moves(r, "updateSession", l)
          \/ session.exists /\ Moves(r, "deleteOld", m)
      BY <1>9, <2>1, GetOfflineSessionsStep
    <2> QED
      BY <1>2, <1>9, <2>3, <2>4 DEF GetOfflineSessions
  <1>10. ASSUME NEW r \in Requests, CreateOfflineSessions(r) \/ UpdateOfflineSessions(r)
         PROVE  PresentInv'
    <2>1. PICK l : l = loc[r]
      OBVIOUS
    <2>2. /\ PresentAt(pc[r], l) /\ PresentAt("createSession", l)'
          /\ l.client \in Clients /\ l.id # 0
      <3>1. PresentAt("createSession", l)'
        BY <1>4, <1>10, <2>1 DEF CreateOfflineSessions, UpdateOfflineSessions, PresentAt
      <3> QED
        BY <1>10, <2>1, <3>1
        DEF CreateOfflineSessions, UpdateOfflineSessions, PresentInv, TypeInv, ControlOK,
            SetAt, Holding
    <2>4. session'.Refresh[l.client] # 0 => PresentAt("respond", l)'
      BY <2>2 DEF PresentAt, HasRef
    <2>3. issued' = issued /\ pc[r] # "revokeDelete"
      BY <1>10 DEF CreateOfflineSessions, UpdateOfflineSessions
    <2>5. CASE session' = session /\ Moves(r, "cleanup", loc[r])
      BY <1>5, <2>3, <2>5
    <2>6. CASE session'.Refresh[l.client] # 0
      <3>1. \/ Moves(r, "respond", l)
            \/ Moves(r, "cleanup", loc[r])
            \/ Moves(r, "idle", NoLocal)
        BY <1>10, <2>1, CreateOfflineSessionsStep, UpdateOfflineSessionsStep
      <3>2. CASE Moves(r, "respond", l)
        BY <1>2, <2>3, <2>4, <2>6, <3>2
      <3> QED
        BY <1>5, <2>3, <3>1, <3>2
    <2>7. session'.Refresh[l.client] # 0 \/ (session' = session /\ Moves(r, "cleanup", loc[r]))
      <3>1. CASE CreateOfflineSessions(r) /\ session.exists
        BY <3>1, CreateOfflineSessionsStep
      <3>2. CASE CreateOfflineSessions(r) /\ ~session.exists
        <4>1. session' = [exists |-> TRUE, Refresh |-> [NoRefs EXCEPT ![l.client] = l.id]]
          BY <2>1, <3>2 DEF CreateOfflineSessions
        <4>2. [NoRefs EXCEPT ![l.client] = l.id][l.client] = l.id
          BY <2>2 DEF NoRefs
        <4> QED
          BY <2>2, <4>1, <4>2
      <3>3. CASE UpdateOfflineSessions(r)
        <4>1. session'.Refresh = [session.Refresh EXCEPT ![l.client] = l.id]
          BY <2>1, <3>3 DEF UpdateOfflineSessions
        <4>2. session.Refresh \in [Clients -> IDs \cup {0}]
          BY DEF TypeInv, DataOK, Session
        <4> QED
          BY <2>2, <4>1, <4>2
      <3> QED
        BY <1>10, <3>1, <3>2, <3>3
    <2> QED
      BY <2>5, <2>6, <2>7
  <1>11. ASSUME NEW r \in Requests, DeleteOldRefresh(r) PROVE PresentInv'
    <2>1. PICK l : l = loc[r]
      OBVIOUS
    <2>2. PresentAt("updateSession", l)'
      BY <1>4, <1>11, <2>1 DEF PresentAt, DeleteOldRefresh
    <2>3. issued' = issued /\ pc[r] # "revokeDelete"
      BY <1>11 DEF DeleteOldRefresh
    <2>4. \/ Moves(r, "updateSession", l)
          \/ Moves(r, "cleanup", loc[r])
          \/ Moves(r, "idle", NoLocal)
      BY <1>11, <2>1, DeleteOldRefreshStep
    <2>5. CASE Moves(r, "updateSession", l)
      BY <1>2, <2>2, <2>3, <2>5
    <2> QED
      BY <1>5, <2>3, <2>4, <2>5
  <1>12. ASSUME NEW r \in Requests, Cleanup(r) \/ RevokeDelete(r) PROVE PresentInv'
    BY <1>5, <1>12, CleanupStep, RevokeDeleteStep DEF Cleanup, RevokeDelete
  <1>13. ASSUME NEW r \in Requests, WriteCodeResponse(r) \/ WriteRefreshResponse(r)
         PROVE  PresentInv'
    <2>1. Moves(r, "idle", NoLocal)
      BY <1>13, WriteCodeResponseStep, WriteRefreshResponseStep
    <2>2. \A t \in issued' \ issued :
            /\ t.id = loc[r].id /\ PresentAt("answer", loc[r]) /\ loc[r].client \in Clients
      <3>1. PresentAt(pc[r], loc[r]) /\ pc[r] \in {"respond", "answer"}
        BY <1>13 DEF WriteCodeResponse, WriteRefreshResponse, PresentInv
      <3>2. loc[r].client \in Clients
        BY <3>1 DEF TypeInv, ControlOK, SetAt
      <3>3. \A t \in issued' \ issued : t.id = loc[r].id /\ (pc[r] = "respond" => loc[r].id # 0)
        BY SMTT(30), Z3T(30), <1>13 DEF WriteCodeResponse, WriteRefreshResponse
      <3> QED
        BY <3>1, <3>2, <3>3 DEF PresentAt
    <2> QED
      BY <1>1, <1>3, <2>1, <2>2, MoveKeepsPresent
  <1>14. ASSUME NEW r \in Requests, NEW t \in issued, GetRefresh(r, t) PROVE PresentInv'
    <2>1. PICK l : l = Locals("none", refresh[t.id].ClientID, t.id, t.Token, 0)
      OBVIOUS
    <2>2. /\ HasRef(l.client) /\ refresh[l.id].ClientID = l.client
          /\ UNCHANGED <<refresh, session>>
      BY <1>14, <2>1 DEF GetRefresh, PresentInv, IssuedHaveRef, Locals
    <2>3. PresentAt("touchSession", l)'
      BY <2>2 DEF PresentAt, HasRef
    <2> QED
      BY <1>2, <1>14, <2>1, <2>3, GetRefreshStep DEF GetRefresh
  <1>15. ASSUME NEW r \in Requests, TouchOfflineSessions(r) PROVE PresentInv'
    <2>1. PICK l : l = loc[r]
      OBVIOUS
    <2>2. PresentAt("claim", l)'
      BY <1>4, <1>15, <2>1 DEF PresentAt, TouchOfflineSessions
    <2> QED
      BY <1>2, <1>5, <1>15, <2>1, <2>2, TouchOfflineSessionsStep DEF TouchOfflineSessions
  <1>16. ASSUME NEW r \in Requests, UpdateRefreshToken(r) PROVE PresentInv'
    <2>1. PICK l, m : /\ l = loc[r]
                      /\ m = Locals("none", loc[r].client, loc[r].id, lastID + 1, 0)
      OBVIOUS
    <2>2. PresentAt("claim", l)' /\ m.id = l.id /\ m.client = l.client
      BY <1>4, <1>16, <2>1 DEF UpdateRefreshToken, Locals
    <2>3. PresentAt("answer", m)'
      BY <2>2 DEF PresentAt
    <2> QED
      BY <1>2, <1>5, <1>16, <2>1, <2>3, UpdateRefreshTokenStep DEF UpdateRefreshToken
  <1>17. ASSUME NEW r \in Requests, NEW c \in Revocable, RevokeRef(r, c) PROVE PresentInv'
    <2>1. PICK l, m : l = Locals("none", c, session.Refresh[c], 0, 0) /\ m = loc[r]
      OBVIOUS
    <2>2. PresentAt("revokeDelete", l)' /\ PresentAt("idle", m)' /\ pc[r] = "idle"
      BY <1>4, <1>17, <2>1 DEF PresentAt, RevokeRef
    <2>3. CASE UNCHANGED <<pc, loc>>
      <3>1. Moves(r, "idle", m)
        BY <2>1, <2>2, <2>3 DEF Moves
      <3> QED
        BY <1>2, <1>17, <2>2, <3>1 DEF RevokeRef
    <2> QED
      BY <1>2, <1>17, <2>1, <2>2, <2>3, RevokeRefStep DEF RevokeRef
  <1>18. ASSUME NEW r \in Requests, StorageError(r) \/ Crash(r) PROVE PresentInv'
    BY <1>5, <1>18, FailureStep DEF StorageError, Crash, Exchanging
  <1>19. ASSUME NEW r \in Requests, Conflict(r) PROVE PresentInv'
    BY <1>5, <1>19, ConflictStep DEF Conflict
  <1>20. CASE UNCHANGED <<refresh, session, pc, loc, lastID, issued>>
    BY <1>20 DEF PresentInv, IssuedHaveRef, PresentAt, HasRef, Stored
  <1> QED
    BY <1>6, <1>7, <1>8, <1>9, <1>10, <1>11, <1>12, <1>13, <1>14, <1>15, <1>16, <1>17,
       <1>18, <1>19, <1>20
    DEF Next, HandleAuthCode, HandleRefreshToken, RevokeRefresh, CollectCode, vars

LEMMA PresentInit == Init => PresentInv
  <1> SUFFICES ASSUME Init PROVE PresentInv
    OBVIOUS
  <1>1. \A r \in Requests : pc[r] = "idle" /\ loc[r].id = 0
    BY DEF Init, NoLocal, Locals
  <1> QED
    BY <1>1 DEF Init, PresentInv, IssuedHaveRef, PresentAt, NoRefs, Stored, IDs

\* The updater that handleRefreshToken hands to UpdateOfflineSessions finds a ref
\* for its client, and has no nil to dereference, unless RevokeRefresh is called for
\* that client: whatever other requests do, fail or leave undone when they die.
THEOREM RefsArePresent == Spec => []RefPresent
  <1>1. TypeInv /\ PresentInv => RefPresent
    BY DEF TypeInv, ControlOK, PresentInv, PresentAt, HasRef, RefPresent
  <1>2. RefInv => IDsPast
    BY DEF RefInv
  <1> QED
    BY <1>1, <1>2, TypeInit, TypeStep, HistoryInit, HistoryStep, RefInit, RefStep,
       PresentInit, PresentStep, PTL DEF Spec

=============================================================================
