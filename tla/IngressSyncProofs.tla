------------------------- MODULE IngressSyncProofs -------------------------
(***************************************************************************)
(* Proofs about IngressSync, for any set of Ingresses and any specs.       *)
(***************************************************************************)
EXTENDS IngressSync, TLAPS

\* The provers are tried in turn: those a leaf cites, or else Zenon before SMT.
USE ZenonT(30), SMTT(30)

\* What a cached object and a pending event are about.
SpecsOK ==
    \A k \in Ingresses :
        /\ cache[k] \in Specs[k] \cup {None}
        /\ event.key = k => /\ event.old \in Specs[k] \cup {None}
                            /\ cache[k] # event.old
                            /\ event.unknown => k \in missed

\* What the worker is doing tells which task it has and what it has read.
LabelsOK ==
    /\ pc \in {"list", "write", "delete", "reload"} => task.Kind = "Ingress"
    /\ pc = "find" => task.Kind = "IngressMinion"
    /\ pc \in {"list", "write", "find"} => read \in AllSpecs

TypeInv == TypeOK /\ SpecsOK /\ LabelsOK

-----------------------------------------------------------------------------
\* A task is what NewTask makes it.
LEMMA TaskFields ==
    ASSUME NEW kind, NEW k
    PROVE  Task(kind, k).Kind = kind /\ Task(kind, k).Key = k
BY DEF Task

LEMMA TaskType ==
    ASSUME NEW kind \in {"Ingress", "IngressMinion"}, NEW k \in Ingresses
    PROVE  Task(kind, k) \in Tasks
BY DEF Task, Tasks

\* Tasks are told apart by kind and key.
LEMMA TaskEqual ==
    ASSUME NEW t \in Tasks
    PROVE  t = Task(t.Kind, t.Key) /\ t.Kind \in {"Ingress", "IngressMinion"} /\ t.Key \in Ingresses
BY DEF Task, Tasks

LEMMA NewTaskType ==
    ASSUME NEW k \in Ingresses, NEW s
    PROVE  NewTask(k, s) \in Tasks
BY TaskType DEF NewTask

-----------------------------------------------------------------------------
(***************************************************************************)
(* The workqueue keeps QueueOK.                                            *)
(***************************************************************************)
\* Adding a task, whatever the worker does short of taking or ending one.
LEMMA AddKeeps ==
    ASSUME QueueOK, NEW t \in Tasks, Add(t),
           \A u \in Tasks : Processing(u)' <=> Processing(u),
           sleeping' \in [Tasks -> Nat]
    PROVE  QueueOK'
<1>1. CASE t \in dirty \/ Processing(t)
  BY <1>1 DEF QueueOK, Add, Queued
<1>2. CASE ~(t \in dirty \/ Processing(t))
  <2>1. /\ queue' = Append(queue, t) /\ dirty' = dirty \cup {t}
        /\ queue \in Seq(Tasks) /\ dirty \subseteq Tasks
    BY <1>2 DEF QueueOK, Add
  <2>2. /\ queue' \in Seq(Tasks) /\ Len(queue') = Len(queue) + 1 /\ Len(queue) \in Nat
        /\ \A i \in 1 .. Len(queue) : queue'[i] = queue[i]
        /\ queue'[Len(queue) + 1] = t
    BY SMTT(30), Z3T(30), <2>1
  <2>3. ~Queued(t)
    BY <1>2 DEF QueueOK
  <2>4. \A i, j \in 1 .. Len(queue') : queue'[i] = queue'[j] => i = j
    <3> SUFFICES ASSUME NEW i \in 1 .. Len(queue'), NEW j \in 1 .. Len(queue'),
                        queue'[i] = queue'[j]
                 PROVE  i = j
      OBVIOUS
    <3>1. /\ i \in 1 .. Len(queue) \/ i = Len(queue) + 1
          /\ j \in 1 .. Len(queue) \/ j = Len(queue) + 1
      BY SMTT(30), Z3T(30), <2>2
    <3>2. \A x \in 1 .. Len(queue) : queue[x] # t
      BY <2>3 DEF Queued
    <3> QED BY <2>2, <3>1, <3>2 DEF QueueOK
  <2>5. \A u \in Tasks : Queued(u)' <=> Queued(u) \/ u = t
    <3>1. \A i : i \in 1 .. Len(queue') <=> i \in 1 .. Len(queue) \/ i = Len(queue) + 1
      BY SMTT(30), Z3T(30), <2>2
    <3> QED BY <2>2, <3>1 DEF Queued
  <2>6. \A u \in Tasks : Queued(u)' <=> (u \in dirty /\ ~Processing(u))'
    BY <1>2, <2>1, <2>5 DEF QueueOK
  <2> QED BY <2>1, <2>2, <2>4, <2>6 DEF QueueOK
<1> QED BY <1>1, <1>2

\* A step that leaves the queue alone.
LEMMA QueueSame ==
    ASSUME QueueOK, UNCHANGED <<queue, dirty>>,
           \A u \in Tasks : Processing(u)' <=> Processing(u),
           sleeping' \in [Tasks -> Nat]
    PROVE  QueueOK'
BY DEF QueueOK, Queued

LEMMA GetKeeps ==
    ASSUME QueueOK, WorkerOK, Get
    PROVE  QueueOK' /\ task' \in Tasks /\ task' \in dirty
<1> DEFINE h == Head(queue)
<1>1. /\ queue \in Seq(Tasks) /\ queue # <<>> /\ pc = "get" /\ pc' = "sync" /\ task' = h
      /\ queue' = Tail(queue) /\ dirty' = dirty \ {h} /\ sleeping' = sleeping
  BY DEF QueueOK, Get
<1>2. /\ Len(queue) \in Nat /\ Len(queue) > 0 /\ h = queue[1] /\ h \in Tasks
      /\ queue' \in Seq(Tasks) /\ Len(queue') = Len(queue) - 1
      /\ \A i \in 1 .. Len(queue') : queue'[i] = queue[i + 1]
  BY SMTT(30), Z3T(30), <1>1
<1>3. \A u \in Tasks : ~Processing(u) /\ (Processing(u)' <=> u = h)
  BY <1>1 DEF Processing
<1>4. h \in dirty
  BY SMTT(30), Z3T(30), <1>2, <1>3 DEF QueueOK, Queued
<1>5. \A i, j \in 1 .. Len(queue') : queue'[i] = queue'[j] => i = j
  <2> SUFFICES ASSUME NEW i \in 1 .. Len(queue'), NEW j \in 1 .. Len(queue'),
                      queue'[i] = queue'[j]
               PROVE  i = j
    OBVIOUS
  <2>1. /\ i \in Nat /\ j \in Nat
        /\ i + 1 \in 1 .. Len(queue) /\ j + 1 \in 1 .. Len(queue)
        /\ queue[i + 1] = queue[j + 1]
    BY SMTT(30), Z3T(30), <1>2
  <2>2. i + 1 = j + 1
    BY <2>1 DEF QueueOK
  <2> QED BY SMTT(30), Z3T(30), <2>1, <2>2
<1>6. \A u \in Tasks : Queued(u)' <=> Queued(u) /\ u # h
  <2> SUFFICES ASSUME NEW u \in Tasks
               PROVE  Queued(u)' <=> Queued(u) /\ u # h
    OBVIOUS
  <2>1. ASSUME Queued(u)' PROVE Queued(u) /\ u # h
    <3>1. PICK i \in 1 .. Len(queue') : queue'[i] = u
      BY <2>1 DEF Queued
    <3>2. i + 1 \in 1 .. Len(queue) /\ queue[i + 1] = u /\ i + 1 # 1
      BY SMTT(30), Z3T(30), <3>1, <1>2
    <3>3. 1 \in 1 .. Len(queue) /\ queue[i + 1] # queue[1]
      BY SMTT(30), Z3T(30), <3>2, <1>2 DEF QueueOK
    <3> QED BY <3>2, <3>3, <1>2 DEF Queued
  <2>2. ASSUME Queued(u), u # h PROVE Queued(u)'
    <3>1. PICK i \in 1 .. Len(queue) : queue[i] = u
      BY <2>2 DEF Queued
    <3>2. i # 1
      BY <3>1, <2>2, <1>2
    <3>3. i - 1 \in 1 .. Len(queue') /\ queue'[i - 1] = u
      BY SMTT(30), Z3T(30), <3>1, <3>2, <1>2
    <3> QED BY <3>3 DEF Queued
  <2> QED BY <2>1, <2>2
<1>7. \A u \in Tasks : Queued(u)' <=> (u \in dirty /\ ~Processing(u))'
  BY <1>1, <1>3, <1>6 DEF QueueOK
<1> QED BY <1>1, <1>2, <1>4, <1>5, <1>7 DEF QueueOK

LEMMA DoneKeeps ==
    ASSUME QueueOK, WorkerOK, Done
    PROVE  QueueOK'
<1>1. /\ queue \in Seq(Tasks) /\ pc = "done" /\ pc' = "get" /\ task \in Tasks
      /\ dirty' = dirty /\ sleeping' = sleeping
      /\ queue' = IF task \in dirty THEN Append(queue, task) ELSE queue
  BY DEF QueueOK, WorkerOK, Done
<1>2. \A u \in Tasks : ~Processing(u)' /\ (Processing(u) <=> u = task)
  BY <1>1 DEF Processing
<1>3. CASE task \notin dirty
  BY <1>1, <1>2, <1>3 DEF QueueOK, Queued
<1>4. CASE task \in dirty
  <2>1. /\ queue' \in Seq(Tasks) /\ Len(queue') = Len(queue) + 1 /\ Len(queue) \in Nat
        /\ \A i \in 1 .. Len(queue) : queue'[i] = queue[i]
        /\ queue'[Len(queue) + 1] = task
    BY SMTT(30), Z3T(30), <1>1, <1>4
  <2>2. ~Queued(task)
    BY <1>1, <1>2 DEF QueueOK
  <2>3. \A i, j \in 1 .. Len(queue') : queue'[i] = queue'[j] => i = j
    <3> SUFFICES ASSUME NEW i \in 1 .. Len(queue'), NEW j \in 1 .. Len(queue'),
                        queue'[i] = queue'[j]
                 PROVE  i = j
      OBVIOUS
    <3>1. /\ i \in 1 .. Len(queue) \/ i = Len(queue) + 1
          /\ j \in 1 .. Len(queue) \/ j = Len(queue) + 1
      BY SMTT(30), Z3T(30), <2>1
    <3>2. \A x \in 1 .. Len(queue) : queue[x] # task
      BY <2>2 DEF Queued
    <3> QED BY <2>1, <3>1, <3>2 DEF QueueOK
  <2>4. \A u \in Tasks : Queued(u)' <=> Queued(u) \/ u = task
    BY SMTT(30), Z3T(30), <2>1 DEF Queued
  <2>5. \A u \in Tasks : Queued(u)' <=> (u \in dirty /\ ~Processing(u))'
    BY <1>1, <1>2, <1>4, <2>4 DEF QueueOK
  <2> QED BY <1>1, <2>1, <2>3, <2>5 DEF QueueOK
<1> QED BY <1>3, <1>4

-----------------------------------------------------------------------------
(***************************************************************************)
(* Type correctness.                                                       *)
(***************************************************************************)
LEMMA SpecIn ==
    ASSUME NEW k \in Ingresses, NEW s \in Specs[k] \cup {None}
    PROVE  s \in AllSpecs \cup {None}
BY DEF AllSpecs

LEMMA EventFields ==
    ASSUME NEW k, NEW old, NEW unknown
    PROVE  /\ Event(k, old, unknown).key = k
           /\ Event(k, old, unknown).old = old
           /\ Event(k, old, unknown).unknown = unknown
BY DEF Event

LEMMA NoEventFields == NoEvent.key = None
BY DEF NoEvent, Event

LEMMA NoEventType ==
    NoEvent \in [key: Ingresses \cup {None}, old: AllSpecs \cup {None}, unknown: BOOLEAN]
BY DEF NoEvent, Event

LEMMA Busy ==
    ASSUME pc = "get" <=> pc' = "get", task' = task
    PROVE  \A u \in Tasks : Processing(u)' <=> Processing(u)
BY DEF Processing

LEMMA TypeInit ==
    ASSUME Init PROVE TypeInv
<1>1. InformerOK
  BY NoEventType DEF Init, InformerOK
<1>2. QueueOK
  <2>1. queue = <<>> /\ dirty = {} /\ sleeping \in [Tasks -> Nat]
    BY DEF Init
  <2>2. queue \in Seq(Tasks) /\ Len(queue) = 0
    BY SMTT(30), Z3T(30), <2>1
  <2> QED BY SMTT(30), Z3T(30), <2>1, <2>2 DEF QueueOK, Queued
<1>3. WorkerOK /\ ConfiguratorOK
  BY DEF Init, WorkerOK, ConfiguratorOK
<1>4. SpecsOK
  BY NoEventFields, IngressAssumption DEF Init, SpecsOK
<1>5. LabelsOK
  BY DEF Init, LabelsOK
<1> QED BY <1>1, <1>2, <1>3, <1>4, <1>5 DEF TypeInv, TypeOK

\* A step of the informer that leaves the rest alone.
LEMMA ChangeType ==
    ASSUME TypeInv, NEW k \in Ingresses, NEW s \in Specs[k] \cup {None}, NEW unknown \in BOOLEAN,
           Change(k, s, unknown)
    PROVE  TypeInv'
<1> USE DEF TypeInv, TypeOK
<1>1. /\ cache' = [cache EXCEPT ![k] = s] /\ event' = Event(k, cache[k], unknown)
      /\ cache[k] # s /\ changes' = changes + 1 /\ now' \in {now, now + 1}
      /\ missed' = IF unknown THEN missed \cup {k} ELSE missed \ {k}
      /\ created' = IF Exists(k) THEN created ELSE [created EXCEPT ![k] = now']
      /\ UNCHANGED <<workqueue, worker, configurator, nginx>>
  BY DEF Change
<1>2. InformerOK'
  <2>1. cache' \in [Ingresses -> AllSpecs \cup {None}]
    BY <1>1, SpecIn DEF InformerOK
  <2>2. changes' \in Nat /\ now' \in Nat
    BY SMTT(30), Z3T(30), <1>1 DEF InformerOK
  <2>3. created' \in [Ingresses -> Nat]
    BY <1>1, <2>2 DEF InformerOK
  <2>4. event' \in [key: Ingresses \cup {None}, old: AllSpecs \cup {None}, unknown: BOOLEAN]
    BY <1>1 DEF InformerOK, Event
  <2>5. missed' \subseteq Ingresses
    BY <1>1 DEF InformerOK
  <2> QED BY <2>1, <2>2, <2>3, <2>4, <2>5 DEF InformerOK
<1>3. SpecsOK'
  <2>1. event'.key = k /\ event'.old = cache[k] /\ event'.unknown = unknown
    BY SMTT(30), Z3T(30), <1>1, EventFields
  <2>2. cache \in [Ingresses -> AllSpecs \cup {None}] /\ \A j \in Ingresses : cache[j] \in Specs[j] \cup {None}
    BY DEF InformerOK, SpecsOK
  <2> QED BY <1>1, <2>1, <2>2 DEF SpecsOK
<1>4. QueueOK'
  BY <1>1 DEF QueueOK, Queued, Processing, workqueue, worker
<1>5. WorkerOK' /\ ConfiguratorOK' /\ LabelsOK'
  BY <1>1 DEF WorkerOK, ConfiguratorOK, LabelsOK, worker, configurator, nginx
<1> QED BY <1>2, <1>3, <1>4, <1>5

\* Handlers put one task at most into the queue.
LEMMA HandledType ==
    ASSUME TypeInv, NEW k \in Ingresses, Handled(k),
           Ignore \/ \E t \in Tasks : Enqueue(t)
    PROVE  TypeInv'
<1> USE DEF TypeInv, TypeOK
<1>1. /\ event' = NoEvent
      /\ UNCHANGED <<cache, created, missed, changes, now, worker, configurator, nginx>>
  BY DEF Handled
<1>2. InformerOK'
  BY <1>1, NoEventType DEF InformerOK
<1>3. SpecsOK'
  BY <1>1, NoEventFields, IngressAssumption DEF SpecsOK
<1>4. \A u \in Tasks : Processing(u)' <=> Processing(u)
  BY <1>1 DEF Processing, worker
<1>5. QueueOK'
  <2>1. CASE Ignore
    BY <2>1, <1>4, QueueSame DEF Ignore, workqueue, QueueOK
  <2>2. ASSUME NEW t \in Tasks, Enqueue(t) PROVE QueueOK'
    BY <2>2, <1>4, AddKeeps DEF Enqueue, QueueOK
  <2> QED BY <2>1, <2>2
<1>6. WorkerOK' /\ ConfiguratorOK' /\ LabelsOK'
  BY <1>1 DEF WorkerOK, ConfiguratorOK, LabelsOK, worker, configurator, nginx
<1> QED BY <1>2, <1>3, <1>5, <1>6

LEMMA OnAddAdds ==
    ASSUME NEW k \in Ingresses, OnAdd(k) \/ OnUpdate(k)
    PROVE  /\ Handled(k)
           /\ IF IsNginxIngress(cache[k]) THEN Enqueue(NewTask(k, cache[k])) ELSE Ignore
BY DEF OnAdd, OnUpdate

LEMMA OnDeleteAdds ==
    ASSUME NEW k \in Ingresses, OnDelete(k)
    PROVE  Handled(k) /\ (Ignore \/ \E m \in Ingresses : Enqueue(Task("Ingress", m)))
BY DEF OnDelete, MastersFor

LEMMA HandleType ==
    ASSUME TypeInv, Handle PROVE TypeInv'
<1>1. PICK k \in Ingresses : OnAdd(k) \/ OnUpdate(k) \/ OnDelete(k)
  BY DEF Handle
<1>2. CASE OnAdd(k) \/ OnUpdate(k)
  <2>1. Handled(k) /\ (Ignore \/ \E t \in Tasks : Enqueue(t))
    BY <1>2, OnAddAdds, NewTaskType
  <2> QED BY <2>1, HandledType
<1>3. CASE OnDelete(k)
  <2>1. Handled(k) /\ (Ignore \/ \E t \in Tasks : Enqueue(t))
    BY <1>3, OnDeleteAdds, TaskType
  <2> QED BY <2>1, HandledType
<1> QED BY <1>1, <1>2, <1>3

LEMMA WakeType ==
    ASSUME TypeInv, NEW t \in Tasks, Wake(t) PROVE TypeInv'
<1> USE DEF TypeInv, TypeOK
<1>1. /\ sleeping[t] > 0 /\ sleeping' = [sleeping EXCEPT ![t] = @ - 1] /\ Add(t)
      /\ UNCHANGED <<informer, worker, configurator, nginx>>
  BY DEF Wake
<1>2. sleeping' \in [Tasks -> Nat]
  <2>1. sleeping \in [Tasks -> Nat] /\ sleeping[t] \in Nat
    BY DEF QueueOK
  <2>2. sleeping[t] - 1 \in Nat
    BY SMTT(30), Z3T(30), <1>1, <2>1
  <2> QED BY <1>1, <2>1, <2>2
<1>3. \A u \in Tasks : Processing(u)' <=> Processing(u)
  BY <1>1 DEF Processing, worker
<1>4. QueueOK'
  BY <1>1, <1>2, <1>3, AddKeeps
<1>5. InformerOK' /\ SpecsOK' /\ WorkerOK' /\ ConfiguratorOK' /\ LabelsOK'
  BY <1>1
  DEF InformerOK, SpecsOK, WorkerOK, ConfiguratorOK, LabelsOK, informer, worker, configurator, nginx
<1> QED BY <1>4, <1>5

\* What RequeueAfter does to the queue.
LEMMA RequeueKeeps ==
    ASSUME QueueOK, NEW t \in Tasks, RequeueAfter(t),
           \A u \in Tasks : Processing(u)' <=> Processing(u)
    PROVE  QueueOK'
<1>1. sleeping \in [Tasks -> Nat] /\ sleeping[t] + 1 \in Nat
  BY SMTT(30), Z3T(30) DEF QueueOK
<1>2. sleeping' \in [Tasks -> Nat] /\ UNCHANGED <<queue, dirty>>
  BY <1>1 DEF RequeueAfter
<1> QED BY <1>2, QueueSame

\* A step of the worker from one label to another.
LEMMA Turn ==
    ASSUME TypeInv, NEW label, pc # "get", label # "get", Goto(label)
    PROVE  /\ \A u \in Tasks : Processing(u)' <=> Processing(u)
           /\ pc' = label /\ task' = task /\ task \in Tasks
           /\ task.Key \in Ingresses /\ task = Task(task.Kind, task.Key)
<1>1. pc' = label /\ task' = task /\ task \in Tasks
  BY DEF Goto, TypeInv, TypeOK, WorkerOK
<1>2. \A u \in Tasks : Processing(u)' <=> Processing(u)
  BY <1>1 DEF Processing
<1> QED BY <1>1, <1>2, TaskEqual

LEMMA InformerSame ==
    ASSUME TypeInv, UNCHANGED informer
    PROVE  InformerOK' /\ SpecsOK'
BY DEF TypeInv, TypeOK, InformerOK, SpecsOK, informer

LEMMA ConfiguratorSame ==
    ASSUME TypeInv, UNCHANGED <<configurator, reloaded>>
    PROVE  ConfiguratorOK'
BY DEF TypeInv, TypeOK, ConfiguratorOK, configurator

LEMMA GetType ==
    ASSUME TypeInv, Get PROVE TypeInv'
<1> USE DEF TypeInv, TypeOK
<1>1. QueueOK' /\ task' \in Tasks
  BY GetKeeps
<1>2. InformerOK' /\ SpecsOK'
  BY InformerSame DEF Get
<1>3. ConfiguratorOK'
  BY ConfiguratorSame DEF Get, nginx
<1>4. WorkerOK' /\ LabelsOK'
  BY <1>1 DEF Get, Keep, WorkerOK, LabelsOK
<1> QED BY <1>1, <1>2, <1>3, <1>4

LEMMA DoneType ==
    ASSUME TypeInv, Done PROVE TypeInv'
<1> USE DEF TypeInv, TypeOK
<1>1. QueueOK'
  BY DoneKeeps
<1>2. InformerOK' /\ SpecsOK'
  BY InformerSame DEF Done
<1>3. ConfiguratorOK'
  BY ConfiguratorSame DEF Done, nginx
<1>4. WorkerOK' /\ LabelsOK'
  BY DEF Done, WorkerOK, LabelsOK
<1> QED BY <1>1, <1>2, <1>3, <1>4

\* What syncIng may do once it has read the Ingress.
LEMMA SyncIngCases ==
    ASSUME SyncIng
    PROVE  \/ ~Exists(task.Key) /\ Goto("delete") /\ UNCHANGED workqueue
           \/ /\ Exists(task.Key) /\ IsMaster(cache[task.Key]) /\ CreatableMaster(cache[task.Key])
              /\ Goto("list") /\ UNCHANGED workqueue
           \/ /\ Exists(task.Key) /\ ~IsMaster(cache[task.Key]) /\ Creatable(cache[task.Key])
              /\ Goto("write") /\ UNCHANGED workqueue
           \/ /\ Exists(task.Key) /\ ~Accepted(cache[task.Key])
              /\ Goto("done") /\ (UNCHANGED workqueue \/ RequeueAfter(task))
BY DEF SyncIng, Accepted

LEMMA SyncIngType ==
    ASSUME TypeInv, SyncIng PROVE TypeInv'
<1> USE DEF TypeInv, TypeOK
<1>1. /\ pc = "sync" /\ task.Kind = "Ingress" /\ read' = cache[task.Key] /\ found' = found
      /\ UNCHANGED <<informer, configurator, nginx>>
  BY DEF SyncIng, SyncsIngress
<1>2. PICK label \in {"delete", "list", "write", "done"} :
         /\ Goto(label) /\ (UNCHANGED workqueue \/ RequeueAfter(task))
         /\ label \in {"list", "write"} => Exists(task.Key)
  BY SyncIngCases
<1>3. /\ \A u \in Tasks : Processing(u)' <=> Processing(u)
      /\ pc' = label /\ task' = task /\ task \in Tasks /\ task.Key \in Ingresses
  BY <1>1, <1>2, Turn
<1>4. cache[task.Key] \in AllSpecs \cup {None}
  BY <1>3 DEF InformerOK
<1>5. QueueOK'
  <2>1. CASE UNCHANGED workqueue
    BY <2>1, <1>3, QueueSame DEF workqueue, QueueOK
  <2>2. CASE RequeueAfter(task)
    BY <2>2, <1>3, RequeueKeeps
  <2> QED BY <1>2, <2>1, <2>2
<1>6. WorkerOK'
  BY <1>1, <1>3, <1>4 DEF WorkerOK
<1>7. LabelsOK'
  BY <1>1, <1>2, <1>3, <1>4 DEF LabelsOK, Exists
<1>8. InformerOK' /\ SpecsOK' /\ ConfiguratorOK'
  BY <1>1, InformerSame, ConfiguratorSame DEF nginx
<1> QED BY <1>5, <1>6, <1>7, <1>8

LEMMA LocationsType ==
    ASSUME TypeInv, NEW s, NEW ord \in Orders(MinionsOf(s))
    PROVE  LocationsIn(MinionsOf(s), ord) \subseteq Location
<1> DEFINE ks == MinionsOf(s)
<1> SUFFICES ASSUME NEW k \in ks
             PROVE  [minion |-> k, spec |-> cache[k], created |-> created[k],
                     paths |-> UniquePaths(ks, ord, k)] \in Location
  BY DEF LocationsIn
<1>1. k \in Ingresses /\ cache[k] # None
  BY DEF MinionsOf, Exists
<1>2. cache[k] \in AllSpecs /\ created[k] \in Nat
  BY <1>1 DEF TypeInv, TypeOK, InformerOK
<1>3. UniquePaths(ks, ord, k) \subseteq cache[k].paths
  BY DEF UniquePaths
<1>4. cache[k].paths \subseteq UNION {x.paths : x \in AllSpecs}
  BY <1>2
<1>5. UniquePaths(ks, ord, k) \in SUBSET UNION {x.paths : x \in AllSpecs}
  BY <1>3, <1>4
<1> HIDE DEF ks
<1> QED BY <1>1, <1>2, <1>5 DEF Location

LEMMA GetMinionsType ==
    ASSUME TypeInv, GetMinionsForMaster PROVE TypeInv'
<1> USE DEF TypeInv, TypeOK
<1>1. /\ pc = "list" /\ Goto("write") /\ read' = read
      /\ UNCHANGED <<informer, workqueue, configurator, nginx>>
  BY DEF GetMinionsForMaster
<1>2. /\ \A u \in Tasks : Processing(u)' <=> Processing(u)
      /\ pc' = "write" /\ task' = task /\ task \in Tasks
  BY <1>1, Turn
<1>3. found' \subseteq Location
  BY LocationsType DEF GetMinionsForMaster
<1>4. QueueOK'
  BY <1>1, <1>2, QueueSame DEF workqueue, QueueOK
<1>5. WorkerOK' /\ LabelsOK'
  BY <1>1, <1>2, <1>3 DEF WorkerOK, LabelsOK
<1>6. InformerOK' /\ SpecsOK' /\ ConfiguratorOK'
  BY <1>1, InformerSame, ConfiguratorSame DEF nginx
<1> QED BY <1>4, <1>5, <1>6

\* The steps that write or remove configuration.
LEMMA WriteType ==
    ASSUME TypeInv, AddOrUpdateIngress \/ AddOrUpdateMergeableIngress \/ DeleteIngress
    PROVE  TypeInv'
<1> USE DEF TypeInv, TypeOK
<1>1. /\ pc \in {"write", "delete"} /\ Goto("reload") /\ Keep
      /\ UNCHANGED <<informer, workqueue, nginx>>
  BY DEF AddOrUpdateIngress, AddOrUpdateMergeableIngress, DeleteIngress, RemoveIngress
<1>2. /\ \A u \in Tasks : Processing(u)' <=> Processing(u)
      /\ pc' = "reload" /\ task' = task /\ task \in Tasks /\ task.Key \in Ingresses
      /\ task.Kind = "Ingress"
  BY <1>1, Turn DEF LabelsOK
<1>3. ConfiguratorOK'
  <2>1. reloaded' = reloaded
    BY <1>1 DEF nginx
  <2>2. CASE AddOrUpdateIngress
    BY <1>2, <2>1, <2>2 DEF AddOrUpdateIngress, ConfiguratorOK, LabelsOK
  <2>3. CASE AddOrUpdateMergeableIngress
    <3>1. {l.minion : l \in found} \subseteq Ingresses
      BY DEF WorkerOK, Location
    <3> QED BY <1>2, <2>1, <2>3, <3>1 DEF AddOrUpdateMergeableIngress, ConfiguratorOK, LabelsOK, WorkerOK
  <2>4. CASE DeleteIngress
    BY <1>2, <2>1, <2>4 DEF DeleteIngress, RemoveIngress, ConfiguratorOK
  <2> QED BY <2>2, <2>3, <2>4
<1>4. QueueOK'
  BY <1>1, <1>2, QueueSame DEF workqueue, QueueOK
<1>5. WorkerOK' /\ LabelsOK'
  BY <1>1, <1>2 DEF WorkerOK, LabelsOK, Keep
<1>6. InformerOK' /\ SpecsOK'
  BY <1>1, InformerSame
<1> QED BY <1>3, <1>4, <1>5, <1>6

LEMMA ReloadType ==
    ASSUME TypeInv, NEW ok \in BOOLEAN, Reload(ok) PROVE TypeInv'
<1> USE DEF TypeInv, TypeOK
<1>1. /\ pc = "reload" /\ Goto("done") /\ Keep /\ reloaded' = ok
      /\ UNCHANGED <<informer, workqueue, configurator>>
  BY DEF Reload
<1>2. /\ \A u \in Tasks : Processing(u)' <=> Processing(u)
      /\ pc' = "done" /\ task' = task /\ task \in Tasks
  BY <1>1, Turn
<1>3. QueueOK'
  BY <1>1, <1>2, QueueSame DEF workqueue, QueueOK
<1>4. WorkerOK' /\ LabelsOK' /\ ConfiguratorOK'
  BY <1>1, <1>2 DEF WorkerOK, LabelsOK, ConfiguratorOK, Keep, configurator
<1>5. InformerOK' /\ SpecsOK'
  BY <1>1, InformerSame
<1> QED BY <1>3, <1>4, <1>5

LEMMA SyncIngMinionType ==
    ASSUME TypeInv, SyncIngMinion PROVE TypeInv'
<1> USE DEF TypeInv, TypeOK
<1>1. /\ pc = "sync" /\ task.Kind = "IngressMinion" /\ read' = cache[task.Key] /\ found' = found
      /\ Goto(IF Exists(task.Key) THEN "find" ELSE "done")
      /\ UNCHANGED <<informer, workqueue, configurator, nginx>>
  BY DEF SyncIngMinion
<1>2. /\ \A u \in Tasks : Processing(u)' <=> Processing(u)
      /\ pc' = IF Exists(task.Key) THEN "find" ELSE "done"
      /\ task' = task /\ task \in Tasks /\ task.Key \in Ingresses
  BY SMTT(30), Z3T(30), <1>1, Turn
<1>3. cache[task.Key] \in AllSpecs \cup {None}
  BY <1>2 DEF InformerOK
<1>4. QueueOK'
  BY <1>1, <1>2, QueueSame DEF workqueue, QueueOK
<1>5. WorkerOK' /\ LabelsOK'
  BY <1>1, <1>2, <1>3 DEF WorkerOK, LabelsOK, Exists
<1>6. InformerOK' /\ SpecsOK' /\ ConfiguratorOK'
  BY <1>1, InformerSame, ConfiguratorSame DEF nginx
<1> QED BY <1>4, <1>5, <1>6

\* syncIngMinion ends by putting off its task, or by syncing a master it found
\* (both for a minion that cannot be made any more).
LEMMA EnqueueMasterCases ==
    ASSUME TypeInv, EnqueueMaster
    PROVE  /\ sleeping' = sleeping \/ sleeping' = [sleeping EXCEPT ![task] = @ + 1]
           /\ UNCHANGED <<queue, dirty>> \/ \E m \in Ingresses : Add(Task("Ingress", m))
BY DEF EnqueueMaster, RequeueAfter, Enqueue, MastersFor

LEMMA EnqueueMasterType ==
    ASSUME TypeInv, EnqueueMaster PROVE TypeInv'
<1> USE DEF TypeInv, TypeOK
<1>1. /\ pc = "find" /\ Goto("done") /\ Keep /\ UNCHANGED <<informer, configurator, nginx>>
  BY DEF EnqueueMaster
<1>2. /\ \A u \in Tasks : Processing(u)' <=> Processing(u)
      /\ pc' = "done" /\ task' = task /\ task \in Tasks
  BY <1>1, Turn
<1>3. sleeping' \in [Tasks -> Nat]
  <2>1. sleeping \in [Tasks -> Nat] /\ sleeping[task] + 1 \in Nat
    BY SMTT(30), Z3T(30), <1>2 DEF QueueOK
  <2> QED BY <1>2, <2>1, EnqueueMasterCases
<1>4. QueueOK'
  <2>1. CASE UNCHANGED <<queue, dirty>>
    BY <2>1, <1>2, <1>3, QueueSame
  <2>2. ASSUME NEW m \in Ingresses, Add(Task("Ingress", m)) PROVE QueueOK'
    BY <2>2, <1>2, <1>3, AddKeeps, TaskType
  <2> QED BY <2>1, <2>2, EnqueueMasterCases
<1>5. WorkerOK' /\ LabelsOK'
  BY <1>1, <1>2 DEF WorkerOK, LabelsOK, Keep
<1>6. InformerOK' /\ SpecsOK' /\ ConfiguratorOK'
  BY <1>1, InformerSame, ConfiguratorSame DEF nginx
<1> QED BY <1>4, <1>5, <1>6

LEMMA TypeStep ==
    ASSUME TypeInv, [Next]_vars PROVE TypeInv'
<1>1. CASE UNCHANGED vars
  BY SMTT(30), Z3T(30), <1>1
  DEF vars, informer, workqueue, worker, configurator, nginx, TypeInv, TypeOK,
     InformerOK, QueueOK, Queued, Processing, WorkerOK, ConfiguratorOK, SpecsOK, LabelsOK
<1>2. ASSUME NEW k \in Ingresses, NEW unknown \in BOOLEAN, NEW s \in Specs[k] \cup {None},
             Change(k, s, unknown)
      PROVE  TypeInv'
  BY <1>2, ChangeType
<1>3. CASE Handle
  BY <1>3, HandleType
<1>4. CASE Work
  BY <1>4, GetType, SyncIngType, GetMinionsType, WriteType, ReloadType, SyncIngMinionType,
     EnqueueMasterType, DoneType DEF Work
<1>5. ASSUME NEW t \in Tasks, Wake(t) PROVE TypeInv'
  BY <1>5, WakeType
<1> QED BY <1>1, <1>2, <1>3, <1>4, <1>5 DEF Next

\* Every variable keeps its type, and the queue holds each task that needs
\* processing once (the workqueue under TaskQueue).
THEOREM TypeCorrect == Spec => []TypeOK
<1>1. Init => TypeInv
  BY TypeInit
<1>2. TypeInv /\ [Next]_vars => TypeInv'
  BY TypeStep
<1>3. TypeInv => TypeOK
  BY DEF TypeInv
<1> QED BY <1>1, <1>2, <1>3, PTL DEF Spec

-----------------------------------------------------------------------------
(***************************************************************************)
(* Paths of minions.  What getMinionsForMaster makes has no conflicts, and *)
(* the file is made from it.                                               *)
(***************************************************************************)
NoConflict(ls) ==
    \A l1, l2 \in ls :
        l1 # l2 => /\ l1.paths \cap l2.paths = {}
                   /\ l1.created < l2.created => l1.spec.paths \cap l2.paths = {}

PathsInv == NoConflict(found) /\ \A k \in Ingresses : NoConflict(locations[k])

LEMMA NoConflictFound ==
    ASSUME TypeInv, NEW ks \in SUBSET Ingresses, NEW ord \in Orders(ks)
    PROVE  NoConflict(LocationsIn(ks, ord))
<1> DEFINE L(k) == [minion |-> k, spec |-> cache[k], created |-> created[k],
                    paths |-> UniquePaths(ks, ord, k)]
<1> SUFFICES ASSUME NEW l1 \in LocationsIn(ks, ord), NEW l2 \in LocationsIn(ks, ord), l1 # l2
             PROVE  /\ l1.paths \cap l2.paths = {}
                    /\ l1.created < l2.created => l1.spec.paths \cap l2.paths = {}
  BY DEF NoConflict
<1>1. PICK j \in ks : l1 = L(j)
  BY DEF LocationsIn
<1>2. PICK k \in ks : l2 = L(k)
  BY DEF LocationsIn
<1>3. /\ l1.paths = UniquePaths(ks, ord, j) /\ l1.created = created[j] /\ l1.spec.paths = cache[j].paths
      /\ l2.paths = UniquePaths(ks, ord, k) /\ l2.created = created[k] /\ l2.spec.paths = cache[k].paths
      /\ j # k
  BY <1>1, <1>2
<1>4. ord[j] # ord[k] /\ (created[j] < created[k] => ord[j] < ord[k])
  BY <1>3 DEF Orders
<1>5. ord[j] \in Int /\ ord[k] \in Int
  BY SMTT(30), Z3T(30) DEF Orders
<1>6. ord[j] < ord[k] \/ ord[k] < ord[j]
  BY SMTT(30), Z3T(30), <1>4, <1>5
<1>7. ASSUME ord[j] < ord[k] PROVE cache[j].paths \cap UniquePaths(ks, ord, k) = {}
  BY <1>7 DEF UniquePaths
<1>8. ASSUME ord[k] < ord[j] PROVE cache[k].paths \cap UniquePaths(ks, ord, j) = {}
  BY <1>8 DEF UniquePaths
<1>9. /\ UniquePaths(ks, ord, j) \subseteq cache[j].paths
      /\ UniquePaths(ks, ord, k) \subseteq cache[k].paths
  BY DEF UniquePaths
<1>10. UniquePaths(ks, ord, j) \cap UniquePaths(ks, ord, k) = {}
  BY <1>6, <1>7, <1>8, <1>9
<1> QED BY <1>3, <1>4, <1>7, <1>10

LEMMA PathsStep ==
    ASSUME TypeInv, PathsInv, [Next]_vars
    PROVE  PathsInv'
<1>1. CASE UNCHANGED <<found, locations>>
  BY <1>1 DEF PathsInv, NoConflict
<1>2. CASE GetMinionsForMaster
  <2>1. PICK ord \in Orders(MinionsOf(read)) : found' = LocationsIn(MinionsOf(read), ord)
    BY <1>2 DEF GetMinionsForMaster
  <2>2. NoConflict(found')
    BY <2>1, NoConflictFound DEF MinionsOf
  <2> QED BY <1>2, <2>2 DEF GetMinionsForMaster, configurator, PathsInv, NoConflict
<1>3. CASE AddOrUpdateIngress \/ AddOrUpdateMergeableIngress \/ DeleteIngress
  <2>1. PICK ls \in {{}, found} : locations' = [locations EXCEPT ![task.Key] = ls]
    BY <1>3 DEF AddOrUpdateIngress, AddOrUpdateMergeableIngress, DeleteIngress, RemoveIngress
  <2>2. NoConflict(ls) /\ locations \in [Ingresses -> SUBSET Location] /\ found' = found
    BY <1>3 DEF PathsInv, NoConflict, TypeInv, TypeOK, ConfiguratorOK, AddOrUpdateIngress,
       AddOrUpdateMergeableIngress, DeleteIngress, RemoveIngress, Keep
  <2>3. ASSUME NEW k \in Ingresses PROVE NoConflict(locations'[k])
    BY <2>1, <2>2 DEF PathsInv
  <2> QED BY <2>2, <2>3 DEF PathsInv, NoConflict
<1>4. CASE Done
  BY <1>4 DEF Done, configurator, PathsInv, NoConflict
<1>5. ASSUME Next, ~GetMinionsForMaster, ~AddOrUpdateIngress, ~AddOrUpdateMergeableIngress,
             ~DeleteIngress, ~Done
      PROVE  UNCHANGED <<found, locations>>
  BY <1>5 DEF Next, Change, Handle, OnAdd, OnUpdate, OnDelete, Handled, Work, Get, SyncIng, Reload,
     SyncIngMinion, EnqueueMaster, Wake, Keep, worker, configurator
<1>6. CASE UNCHANGED vars
  BY <1>1, <1>6 DEF vars, worker, configurator
<1> QED BY <1>1, <1>2, <1>3, <1>4, <1>5, <1>6

\* No path is given to two minions, and a conflicting one goes to the oldest, in
\* every file and whatever order equal timestamps are sorted in
\* (getMinionsForMaster).
THEOREM OldestMinionWins == Spec => []OldestPathWins
<1>1. Init => PathsInv
  BY DEF Init, PathsInv, NoConflict
<1>2. TypeInv /\ PathsInv /\ [Next]_vars => PathsInv'
  BY PathsStep
<1>3. PathsInv => OldestPathWins
  BY DEF PathsInv, NoConflict, OldestPathWins
<1>4. Init => TypeInv
  BY TypeInit
<1>5. TypeInv /\ [Next]_vars => TypeInv'
  BY TypeStep
<1> QED BY <1>1, <1>2, <1>3, <1>4, <1>5, PTL DEF Spec

-----------------------------------------------------------------------------
(***************************************************************************)
(* NGINX has what the files say, but between the write of a file and the   *)
(* reload that follows it, and after a reload that failed.                 *)
(***************************************************************************)
LoadedInv == pc # "reload" /\ reloaded => running = <<ingresses, locations>>

\* When the worker turns to the next task NGINX has loaded what all tasks before
\* wrote, unless the last reload failed (AddOrUpdateIngress,
\* AddOrUpdateMergeableIngress, DeleteIngress, Reload).
THEOREM FilesLoaded == Spec => []LoadedWhenReloaded
<1>1. Init => LoadedInv
  BY DEF Init, LoadedInv
<1>2. LoadedInv /\ [Next]_vars => LoadedInv'
  <2> SUFFICES ASSUME LoadedInv, [Next]_vars PROVE LoadedInv'
    OBVIOUS
  <2>1. CASE UNCHANGED vars
    BY <2>1 DEF vars, worker, configurator, nginx, LoadedInv
  <2>2. CASE AddOrUpdateIngress \/ AddOrUpdateMergeableIngress \/ DeleteIngress
    BY <2>2 DEF AddOrUpdateIngress, AddOrUpdateMergeableIngress, DeleteIngress, RemoveIngress, Goto,
       LoadedInv
  <2>3. ASSUME NEW ok \in BOOLEAN, Reload(ok) PROVE LoadedInv'
    BY <2>3 DEF Reload, Goto, configurator, LoadedInv
  <2>4. ASSUME Next, ~AddOrUpdateIngress, ~AddOrUpdateMergeableIngress, ~DeleteIngress,
               \A ok \in BOOLEAN : ~Reload(ok)
        PROVE  UNCHANGED <<configurator, nginx>> /\ (pc' = pc \/ pc # "reload")
    BY <2>4 DEF Next, Change, Handle, OnAdd, OnUpdate, OnDelete, Handled, Work, Get, SyncIng,
       SyncsIngress, GetMinionsForMaster, SyncIngMinion, EnqueueMaster, Done, Wake, worker
  <2> QED BY <2>1, <2>2, <2>3, <2>4 DEF configurator, nginx, LoadedInv
<1>3. LoadedInv => LoadedWhenReloaded
  BY DEF LoadedInv, LoadedWhenReloaded
<1> QED BY <1>1, <1>2, <1>3, PTL DEF Spec

-----------------------------------------------------------------------------
(***************************************************************************)
(* No change is lost.  Unless a handler or a queued task will still deal   *)
(* with the Ingress, its file is made from what the cache has, or the      *)
(* worker is on the way there: before its read of the cache, or between    *)
(* the read of what is in the cache now and the write of the file.         *)
(***************************************************************************)
T(k) == Task("Ingress", k)
Pending(k) == event.key = k \/ T(k) \in dirty

Applying(k) ==
    /\ (Processing(T(k)) => pc \in {"reload", "done"}) => ingresses[k] = cache[k]
    /\ Processing(T(k)) /\ pc \in {"list", "write"} => read = cache[k]
    /\ Processing(T(k)) => pc # "delete"

ChangeInv ==
    \A k \in Ingresses : Exists(k) /\ Accepted(cache[k]) /\ ~Pending(k) => Applying(k)

\* The queue forgets nothing but what the worker takes.
LEMMA Remembers ==
    ASSUME TypeInv, Next, ~Get
    PROVE  dirty \subseteq dirty'
BY DEF Next, Change, Handle, OnAdd, OnUpdate, OnDelete, Enqueue, Ignore, Add, Work, SyncIng,
   RequeueAfter, GetMinionsForMaster, AddOrUpdateIngress, AddOrUpdateMergeableIngress, DeleteIngress,
   RemoveIngress, Reload, SyncIngMinion, EnqueueMaster, Done, Wake, workqueue

\* What is being processed is one task.
LEMMA OneTask ==
    ASSUME TypeInv, NEW k \in Ingresses
    PROVE  /\ T(k) \in Tasks
           /\ pc # "get" /\ task.Kind = "Ingress" => (Processing(T(k)) <=> task.Key = k)
           /\ pc # "get" /\ task.Kind = "IngressMinion" => ~Processing(T(k))
           /\ pc = "get" => ~Processing(T(k))
<1>1. T(k) \in Tasks /\ T(k).Kind = "Ingress" /\ T(k).Key = k
  BY TaskType, TaskFields DEF T
<1>2. pc # "get" => task = Task(task.Kind, task.Key)
  BY TaskEqual DEF TypeInv, TypeOK, WorkerOK
<1> QED BY <1>1, <1>2 DEF Processing, T

\* A step that has nothing to do with k.
LEMMA ApplyingSame ==
    ASSUME NEW k, Applying(k), cache'[k] = cache[k], ingresses'[k] = ingresses[k],
           \/ UNCHANGED <<pc, task, read>>
           \/ ~Processing(T(k)) /\ ~Processing(T(k))'
    PROVE  Applying(k)'
BY DEF Applying, Processing, T, Task

\* The handler of k puts a task for it into the queue.
LEMMA HandlerEnqueues ==
    ASSUME NEW k \in Ingresses, OnAdd(k) \/ OnUpdate(k) \/ OnDelete(k),
           Exists(k), Accepted(cache[k])
    PROVE  T(k) \in dirty'
BY OnAddAdds DEF OnDelete, Accepted, NewTask, T, Enqueue, Add

LEMMA HandleFrame ==
    ASSUME NEW k, Handled(k)
    PROVE  event.key = k /\ event'.key = None /\ UNCHANGED <<cache, missed, worker, configurator>>
BY NoEventFields DEF Handled

LEMMA ChangeStep ==
    ASSUME TypeInv, ChangeInv, [Next]_vars
    PROVE  ChangeInv'
<1> SUFFICES ASSUME NEW k \in Ingresses, Exists(k)', Accepted(cache[k])', ~Pending(k)'
             PROVE  Applying(k)'
  BY DEF ChangeInv
<1> USE DEF TypeInv, TypeOK
<1>0. Exists(k)' <=> cache'[k] # None
  BY DEF Exists
<1>1. ASSUME dirty \subseteq dirty', cache' = cache, event.key # k \/ event' = event
      PROVE  Applying(k)
  <2>1. Exists(k) /\ Accepted(cache[k])
    BY <1>1, <1>0 DEF Exists
  <2>2. ~Pending(k)
    BY <1>1 DEF Pending
  <2> QED BY <2>1, <2>2 DEF ChangeInv
<1>2. CASE UNCHANGED vars
  <2>1. Applying(k)
    BY <1>1, <1>2 DEF vars, informer, workqueue
  <2> QED BY <1>2, <2>1, ApplyingSame DEF vars, informer, worker, configurator
<1>3. ASSUME NEW j \in Ingresses, NEW unknown \in BOOLEAN, NEW s \in Specs[j] \cup {None},
             Change(j, s, unknown)
      PROVE  Applying(k)'
  <2>1. /\ cache' = [cache EXCEPT ![j] = s] /\ event'.key = j /\ event.key = None
        /\ UNCHANGED <<workqueue, worker, configurator>>
    BY SMTT(30), Z3T(30), <1>3, EventFields, NoEventFields DEF Change
  <2>2. k # j
    BY <2>1 DEF Pending
  <2>3. cache'[k] = cache[k]
    BY <2>1, <2>2 DEF InformerOK
  <2>4. ~Pending(k)
    BY <2>1, IngressAssumption DEF Pending, workqueue
  <2>5. Applying(k)
    BY <1>0, <2>3, <2>4 DEF ChangeInv, Exists
  <2> QED BY <2>1, <2>3, <2>5, ApplyingSame DEF worker, configurator
<1>4. CASE Handle
  <2>1. PICK j \in Ingresses : OnAdd(j) \/ OnUpdate(j) \/ OnDelete(j)
    BY <1>4 DEF Handle
  <2>2. event.key = j /\ UNCHANGED <<cache, worker, configurator>>
    BY <2>1, HandleFrame DEF OnAdd, OnUpdate, OnDelete
  <2>3. j # k
    BY <1>0, <2>1, <2>2, HandlerEnqueues DEF Pending, Exists
  <2>4. dirty \subseteq dirty'
    BY <1>4, Remembers DEF Next, Handle, Get, OnAdd, OnUpdate, OnDelete, Handled, worker
  <2> QED BY <1>1, <2>2, <2>3, <2>4, ApplyingSame DEF worker, configurator
<1>5. ASSUME NEW t \in Tasks, Wake(t) PROVE Applying(k)'
  <2>1. dirty \subseteq dirty' /\ UNCHANGED <<informer, worker, configurator>>
    BY <1>5 DEF Wake, Add
  <2> QED BY <1>1, <2>1, ApplyingSame DEF informer, worker, configurator
<1>6. CASE Get
  <2>1. /\ pc = "get" /\ pc' = "sync" /\ UNCHANGED <<informer, configurator>>
        /\ dirty' = dirty \ {task'}
    BY <1>6 DEF Get
  <2>2. CASE task' = T(k)
    BY <2>1, <2>2 DEF Applying, Processing
  <2>3. CASE task' # T(k)
    <3>1. ~Pending(k) /\ Exists(k) /\ Accepted(cache[k])
      BY <1>0, <2>1, <2>3 DEF Pending, Exists, informer
    <3>2. Applying(k)
      BY <3>1 DEF ChangeInv
    <3>3. ~Processing(T(k)) /\ ~Processing(T(k))'
      BY <2>1, <2>3 DEF Processing, T, Task
    <3> QED BY <2>1, <3>2, <3>3, ApplyingSame DEF informer, configurator
  <2> QED BY <2>2, <2>3
<1>7. CASE Work /\ ~Get
  <2>1. /\ dirty \subseteq dirty' /\ UNCHANGED informer
    BY <1>7, Remembers DEF Next, Work, SyncIng, GetMinionsForMaster, AddOrUpdateIngress,
       AddOrUpdateMergeableIngress, DeleteIngress, RemoveIngress, Reload, SyncIngMinion,
       EnqueueMaster, Done
  <2>2. Applying(k) /\ cache'[k] = cache[k] /\ Exists(k) /\ Accepted(cache[k])
    BY <1>0, <1>1, <2>1 DEF informer, Exists
  <2>3. CASE SyncIng
    <3>1. /\ pc = "sync" /\ task.Kind = "Ingress" /\ read' = cache[task.Key]
          /\ UNCHANGED configurator
      BY <2>3 DEF SyncIng, SyncsIngress
    <3>2. PICK label \in {"delete", "list", "write", "done"} :
             /\ Goto(label)
             /\ label = "delete" => ~Exists(task.Key)
             /\ label = "done" => ~Accepted(cache[task.Key])
      BY <2>3, SyncIngCases
    <3>3. pc' = label /\ task' = task
      BY <3>2 DEF Goto
    <3>4. CASE task.Key = k
      <4>1. pc' \in {"list", "write"} /\ read' = cache'[k]
        BY <2>2, <3>1, <3>2, <3>3, <3>4
      <4>2. Processing(T(k))'
        BY <3>1, <3>3, <3>4, <4>1, OneTask DEF Processing, T, Task
      <4> QED BY <4>1, <4>2 DEF Applying
    <3>5. CASE task.Key # k
      <4>1. ~Processing(T(k)) /\ ~Processing(T(k))'
        BY <3>1, <3>3, <3>5, OneTask DEF Processing, T, Task
      <4> QED BY <2>2, <3>1, <4>1, ApplyingSame DEF configurator
    <3> QED BY <3>4, <3>5
  <2>4. CASE GetMinionsForMaster
    BY <2>2, <2>4 DEF GetMinionsForMaster, Goto, configurator, Applying, Processing, T, Task
  <2>5. CASE AddOrUpdateIngress \/ AddOrUpdateMergeableIngress
    <3>1. /\ pc = "write" /\ pc' = "reload" /\ task' = task /\ task.Kind = "Ingress"
          /\ ingresses' = [ingresses EXCEPT ![task.Key] = read] /\ read' = read
      BY <2>5 DEF AddOrUpdateIngress, AddOrUpdateMergeableIngress, Goto, Keep, LabelsOK
    <3>2. ingresses \in [Ingresses -> AllSpecs \cup {None}]
      BY DEF ConfiguratorOK
    <3>3. CASE task.Key = k
      <4>1. read = cache[k]
        BY <2>2, <3>1, <3>3, OneTask DEF Applying
      <4>2. ingresses'[k] = cache[k]
        BY <3>1, <3>2, <3>3, <4>1
      <4> QED BY <2>2, <3>1, <4>2 DEF Applying
    <3>4. CASE task.Key # k
      <4>1. ~Processing(T(k)) /\ ~Processing(T(k))'
        BY <3>1, <3>4, OneTask DEF Processing, T, Task
      <4>2. ingresses'[k] = ingresses[k]
        BY <3>1, <3>2, <3>4
      <4> QED BY <2>2, <4>1, <4>2, ApplyingSame
    <3> QED BY <3>3, <3>4
  <2>6. CASE DeleteIngress
    <3>1. /\ pc = "delete" /\ pc' = "reload" /\ task' = task /\ task.Kind = "Ingress"
          /\ ingresses' = [ingresses EXCEPT ![task.Key] = None]
      BY <2>6 DEF DeleteIngress, RemoveIngress, Goto, LabelsOK
    <3>2. task.Key # k
      BY <2>2, <3>1, OneTask DEF Applying
    <3>3. ~Processing(T(k)) /\ ~Processing(T(k))'
      BY <3>1, <3>2, OneTask DEF Processing, T, Task
    <3>4. ingresses'[k] = ingresses[k]
      BY <3>1, <3>2 DEF ConfiguratorOK
    <3> QED BY <2>2, <3>3, <3>4, ApplyingSame
  <2>7. CASE \E ok \in BOOLEAN : Reload(ok)
    BY <2>2, <2>7 DEF Reload, Goto, configurator, Applying, Processing, T, Task
  <2>8. CASE SyncIngMinion \/ EnqueueMaster
    <3>1. /\ task.Kind = "IngressMinion" /\ task' = task /\ pc # "get" /\ UNCHANGED configurator
      BY <2>8 DEF SyncIngMinion, EnqueueMaster, Goto, LabelsOK
    <3>2. ~Processing(T(k)) /\ ~Processing(T(k))'
      BY <3>1, OneTask DEF Processing, T, Task
    <3> QED BY <2>2, <3>1, <3>2, ApplyingSame DEF configurator
  <2>9. CASE Done
    BY <2>2, <2>9 DEF Done, configurator, Applying, Processing, T, Task
  <2> QED BY <1>7, <2>3, <2>4, <2>5, <2>6, <2>7, <2>8, <2>9 DEF Work
<1> QED BY <1>2, <1>3, <1>4, <1>5, <1>6, <1>7 DEF Next

\* No change of an Ingress is lost, whatever the informer, the worker and the
\* goroutines of RequeueAfter do at once (CreateIngressHandlers, TaskQueue, syncIng).
THEOREM NoChangeLost == Spec => []ChangesApplied
<1>1. Init => ChangeInv
  BY DEF Init, ChangeInv, Exists
<1>2. TypeInv /\ ChangeInv /\ [Next]_vars => ChangeInv'
  BY ChangeStep
<1>3. ChangeInv => ChangesApplied
  BY DEF ChangeInv, ChangesApplied, Settled, Pending, Applying, T
<1>4. Init => TypeInv
  BY TypeInit
<1>5. TypeInv /\ [Next]_vars => TypeInv'
  BY TypeStep
<1> QED BY <1>1, <1>2, <1>3, <1>4, <1>5, PTL DEF Spec

-----------------------------------------------------------------------------
(***************************************************************************)
(* Deleted Ingresses leave the configuration.  The worker may still be     *)
(* before its read of the cache, but is not about to write what it read    *)
(* earlier.                                                                *)
(***************************************************************************)
Gone(k) == ~HasIngress(k) /\ locations[k] = {}

Leaving(k) ==
    /\ (Processing(T(k)) => pc \in {"reload", "done"}) => Gone(k)
    /\ Processing(T(k)) => pc \notin {"list", "write"}

GoneInv ==
    \A k \in Ingresses \ missed :
        AlwaysOurs(k) /\ ~Exists(k) /\ ~Pending(k) => Leaving(k)

LEMMA LeavingSame ==
    ASSUME NEW k, Leaving(k), ingresses'[k] = ingresses[k], locations'[k] = locations[k],
           \/ UNCHANGED <<pc, task>>
           \/ ~Processing(T(k)) /\ ~Processing(T(k))'
    PROVE  Leaving(k)'
BY DEF Leaving, Gone, HasIngress, Processing, T, Task

LEMMA DeletionEnqueues ==
    ASSUME TypeInv, NEW k \in Ingresses \ missed, AlwaysOurs(k), ~Exists(k),
           OnAdd(k) \/ OnUpdate(k) \/ OnDelete(k)
    PROVE  T(k) \in dirty'
<1>1. event.key = k
  BY DEF OnAdd, OnUpdate, OnDelete, Handled
<1>2. event.old \in Specs[k] \cup {None} /\ cache[k] # event.old /\ ~event.unknown
  BY <1>1 DEF TypeInv, SpecsOK
<1>3. event.old \in Specs[k] /\ OnDelete(k)
  BY <1>2 DEF Exists, OnAdd, OnUpdate
<1>4. IsNginxIngress(event.old) /\ ~IsMinion(event.old)
  BY <1>3 DEF AlwaysOurs
<1>5. Enqueue(Task("Ingress", k))
  BY <1>2, <1>3, <1>4 DEF OnDelete
<1> QED BY <1>5 DEF Enqueue, Add, T

LEMMA GoneStep ==
    ASSUME TypeInv, GoneInv, [Next]_vars
    PROVE  GoneInv'
<1> SUFFICES ASSUME NEW k \in Ingresses, k \notin missed', AlwaysOurs(k), ~Exists(k)',
                    ~Pending(k)'
             PROVE  Leaving(k)'
  BY DEF GoneInv, AlwaysOurs
<1> USE DEF TypeInv, TypeOK
<1>0. cache'[k] = None
  BY DEF Exists
<1>1. ASSUME dirty \subseteq dirty', UNCHANGED <<cache, missed>>,
             event.key # k \/ event' = event
      PROVE  Leaving(k)
  <2>1. ~Exists(k)
    BY <1>1, <1>0 DEF Exists
  <2>2. ~Pending(k)
    BY <1>1 DEF Pending
  <2> QED BY <1>1, <2>1, <2>2 DEF GoneInv
<1>2. CASE UNCHANGED vars
  <2>1. Leaving(k)
    BY <1>1, <1>2 DEF vars, informer, workqueue
  <2> QED BY <1>2, <2>1, LeavingSame DEF vars, worker, configurator
<1>3. ASSUME NEW j \in Ingresses, NEW unknown \in BOOLEAN, NEW s \in Specs[j] \cup {None},
             Change(j, s, unknown)
      PROVE  Leaving(k)'
  <2>1. /\ cache' = [cache EXCEPT ![j] = s] /\ event'.key = j /\ event.key = None
        /\ missed \subseteq missed' \cup {j}
        /\ UNCHANGED <<workqueue, worker, configurator>>
    BY SMTT(30), Z3T(30), <1>3, EventFields, NoEventFields DEF Change
  <2>2. k # j
    BY <2>1 DEF Pending
  <2>3. ~Exists(k)
    BY <1>0, <2>1, <2>2 DEF InformerOK, Exists
  <2>4. ~Pending(k)
    BY <2>1, IngressAssumption DEF Pending, workqueue
  <2>5. Leaving(k)
    BY <2>1, <2>2, <2>3, <2>4 DEF GoneInv
  <2> QED BY <2>1, <2>5, LeavingSame DEF worker, configurator
<1>4. CASE Handle
  <2>1. PICK j \in Ingresses : OnAdd(j) \/ OnUpdate(j) \/ OnDelete(j)
    BY <1>4 DEF Handle
  <2>2. event.key = j /\ UNCHANGED <<cache, missed, worker, configurator>>
    BY <2>1, HandleFrame DEF OnAdd, OnUpdate, OnDelete
  <2>3. j # k
    BY <1>0, <2>1, <2>2, DeletionEnqueues DEF Pending, Exists
  <2>4. dirty \subseteq dirty'
    BY <1>4, Remembers DEF Next, Handle, Get, OnAdd, OnUpdate, OnDelete, Handled, worker
  <2> QED BY <1>1, <2>2, <2>3, <2>4, LeavingSame DEF worker, configurator
<1>5. ASSUME NEW t \in Tasks, Wake(t) PROVE Leaving(k)'
  <2>1. dirty \subseteq dirty' /\ UNCHANGED <<informer, worker, configurator>>
    BY <1>5 DEF Wake, Add
  <2> QED BY <1>1, <2>1, LeavingSame DEF informer, worker, configurator
<1>6. CASE Get
  <2>1. /\ pc = "get" /\ pc' = "sync" /\ UNCHANGED <<informer, configurator>>
        /\ dirty' = dirty \ {task'}
    BY <1>6 DEF Get
  <2>2. CASE task' = T(k)
    BY <2>1, <2>2 DEF Leaving, Processing
  <2>3. CASE task' # T(k)
    <3>1. ~Pending(k) /\ ~Exists(k)
      BY <1>0, <2>1, <2>3 DEF Pending, Exists, informer
    <3>2. Leaving(k)
      BY <2>1, <3>1 DEF GoneInv, informer
    <3>3. ~Processing(T(k)) /\ ~Processing(T(k))'
      BY <2>1, <2>3 DEF Processing, T, Task
    <3> QED BY <2>1, <3>2, <3>3, LeavingSame DEF configurator
  <2> QED BY <2>2, <2>3
<1>7. CASE Work /\ ~Get
  <2>1. /\ dirty \subseteq dirty' /\ UNCHANGED informer
    BY <1>7, Remembers DEF Next, Work, SyncIng, GetMinionsForMaster, AddOrUpdateIngress,
       AddOrUpdateMergeableIngress, DeleteIngress, RemoveIngress, Reload, SyncIngMinion,
       EnqueueMaster, Done
  <2>2. Leaving(k) /\ ~Exists(k)
    BY <1>0, <1>1, <2>1 DEF informer, Exists
  <2>3. CASE SyncIng
    <3>1. /\ pc = "sync" /\ task.Kind = "Ingress" /\ UNCHANGED configurator
      BY <2>3 DEF SyncIng, SyncsIngress
    <3>2. PICK label \in {"delete", "list", "write", "done"} :
             /\ Goto(label)
             /\ label # "delete" => Exists(task.Key)
      BY <2>3, SyncIngCases
    <3>3. pc' = label /\ task' = task
      BY <3>2 DEF Goto
    <3>4. CASE task.Key = k
      <4>1. pc' = "delete"
        BY <2>2, <3>2, <3>3, <3>4
      <4>2. Processing(T(k))'
        BY <3>1, <3>3, <3>4, <4>1, OneTask DEF Processing, T, Task
      <4> QED BY <4>1, <4>2 DEF Leaving
    <3>5. CASE task.Key # k
      <4>1. ~Processing(T(k)) /\ ~Processing(T(k))'
        BY <3>1, <3>3, <3>5, OneTask DEF Processing, T, Task
      <4> QED BY <2>2, <3>1, <4>1, LeavingSame DEF configurator
    <3> QED BY <3>4, <3>5
  <2>4. CASE GetMinionsForMaster
    BY <2>2, <2>4
    DEF GetMinionsForMaster, Goto, configurator, Leaving, Gone, HasIngress, Processing, T, Task
  <2>5. CASE AddOrUpdateIngress \/ AddOrUpdateMergeableIngress
    <3>1. /\ pc = "write" /\ task' = task /\ task.Kind = "Ingress"
          /\ ingresses' = [ingresses EXCEPT ![task.Key] = read]
          /\ \E ls : locations' = [locations EXCEPT ![task.Key] = ls]
      BY <2>5 DEF AddOrUpdateIngress, AddOrUpdateMergeableIngress, Goto, LabelsOK
    <3>2. task.Key # k
      BY <2>2, <3>1, OneTask DEF Leaving
    <3>3. ~Processing(T(k)) /\ ~Processing(T(k))'
      BY <3>1, <3>2, OneTask DEF Processing, T, Task
    <3>4. ingresses'[k] = ingresses[k] /\ locations'[k] = locations[k]
      BY <3>1, <3>2 DEF ConfiguratorOK
    <3> QED BY <2>2, <3>3, <3>4, LeavingSame
  <2>6. CASE DeleteIngress
    <3>1. /\ pc = "delete" /\ pc' = "reload" /\ task' = task /\ task.Kind = "Ingress"
          /\ ingresses' = [ingresses EXCEPT ![task.Key] = None]
          /\ locations' = [locations EXCEPT ![task.Key] = {}]
      BY <2>6 DEF DeleteIngress, RemoveIngress, Goto, LabelsOK
    <3>2. CASE task.Key = k
      <4>1. Gone(k)'
        BY <3>1, <3>2 DEF ConfiguratorOK, Gone, HasIngress
      <4> QED BY <3>1, <4>1 DEF Leaving
    <3>3. CASE task.Key # k
      <4>1. ~Processing(T(k)) /\ ~Processing(T(k))'
        BY <3>1, <3>3, OneTask DEF Processing, T, Task
      <4>2. ingresses'[k] = ingresses[k] /\ locations'[k] = locations[k]
        BY <3>1, <3>3 DEF ConfiguratorOK
      <4> QED BY <2>2, <4>1, <4>2, LeavingSame
    <3> QED BY <3>2, <3>3
  <2>7. CASE \E ok \in BOOLEAN : Reload(ok)
    BY <2>2, <2>7 DEF Reload, Goto, configurator, Leaving, Gone, HasIngress, Processing, T, Task
  <2>8. CASE SyncIngMinion \/ EnqueueMaster
    <3>1. /\ task.Kind = "IngressMinion" /\ task' = task /\ pc # "get" /\ UNCHANGED configurator
      BY <2>8 DEF SyncIngMinion, EnqueueMaster, Goto, LabelsOK
    <3>2. ~Processing(T(k)) /\ ~Processing(T(k))'
      BY <3>1, OneTask DEF Processing, T, Task
    <3> QED BY <2>2, <3>1, <3>2, LeavingSame DEF configurator
  <2>9. CASE Done
    BY <2>2, <2>9 DEF Done, configurator, Leaving, Gone, HasIngress, Processing, T, Task
  <2> QED BY <1>7, <2>3, <2>4, <2>5, <2>6, <2>7, <2>8, <2>9 DEF Work
<1> QED BY <1>2, <1>3, <1>4, <1>5, <1>6, <1>7 DEF Next

\* The configuration of an Ingress that was always ours and no minion goes with
\* it (DeleteFunc, syncIng, DeleteIngress), whatever deletions the informer
\* misses: only one whose own deletion came as a DeletedFinalStateUnknown stays.
THEOREM DeletionsApplied == Spec => []DeletedGone
<1>1. Init => GoneInv
  <2>1. ASSUME Init, NEW k \in Ingresses PROVE Leaving(k)
    BY <2>1 DEF Init, Leaving, Gone, HasIngress, Processing
  <2> QED BY <2>1 DEF GoneInv
<1>2. TypeInv /\ GoneInv /\ [Next]_vars => GoneInv'
  BY GoneStep
<1>3. GoneInv => DeletedGone
  BY DEF GoneInv, DeletedGone, Settled, Pending, Leaving, Gone, T
<1>4. Init => TypeInv
  BY TypeInit
<1>5. TypeInv /\ [Next]_vars => TypeInv'
  BY TypeStep
<1> QED BY <1>1, <1>2, <1>3, <1>4, <1>5, PTL DEF Spec

-----------------------------------------------------------------------------
(***************************************************************************)
(* Minions join their masters.  Unless the minion or its master will be    *)
(* dealt with by a handler, a task or a sleeping goroutine, the file of    *)
(* the master has the minion, or the worker is about to write it, or is    *)
(* about to find the master and queue it.                                  *)
(***************************************************************************)
TM(n) == Task("IngressMinion", n)
PendingMinion(n) == event.key = n \/ TM(n) \in dirty \/ sleeping[TM(n)] # 0
In(ls, n) == \E l \in ls : l.minion = n /\ l.spec = cache[n]

Waiting(m, n) == Joinable(n) /\ IsMasterOf(m, n) /\ ~Pending(m) /\ ~PendingMinion(n)

Joining(m, n) ==
    /\ /\ Processing(T(m)) => pc \in {"reload", "done"}
       /\ Processing(TM(n)) => pc = "done"
       => In(locations[m], n)
    /\ Processing(T(m)) /\ pc = "write" => In(found, n)
    /\ Processing(TM(n)) /\ pc = "find" => read = cache[n]

JoinInv == \A m, n \in Ingresses : Waiting(m, n) => Joining(m, n)

LEMMA OneMinionTask ==
    ASSUME TypeInv, NEW n \in Ingresses
    PROVE  /\ TM(n) \in Tasks
           /\ pc # "get" /\ task.Kind = "IngressMinion" => (Processing(TM(n)) <=> task.Key = n)
           /\ pc # "get" /\ task.Kind = "Ingress" => ~Processing(TM(n))
           /\ pc = "get" => ~Processing(TM(n))
<1>1. TM(n) \in Tasks /\ TM(n).Kind = "IngressMinion" /\ TM(n).Key = n
  BY TaskType, TaskFields DEF TM
<1>2. pc # "get" => task = Task(task.Kind, task.Key)
  BY TaskEqual DEF TypeInv, TypeOK, WorkerOK
<1> QED BY <1>1, <1>2 DEF Processing, TM

\* Whether n waits to be in the file of m depends on these only.
LEMMA WaitingSame ==
    ASSUME NEW m, NEW n, Waiting(m, n)', cache'[m] = cache[m], cache'[n] = cache[n],
           ~Pending(m), ~PendingMinion(n)
    PROVE  Waiting(m, n)
BY DEF Waiting, Joinable, IsMasterOf, Exists, MasterKeys

LEMMA JoiningSame ==
    ASSUME NEW m, NEW n, Joining(m, n), cache'[n] = cache[n], locations'[m] = locations[m],
           \/ UNCHANGED <<pc, task, read, found>>
           \/ /\ ~Processing(T(m)) /\ ~Processing(T(m))'
              /\ ~Processing(TM(n)) /\ ~Processing(TM(n))'
    PROVE  Joining(m, n)'
BY DEF Joining, In, Processing, T, TM, Task

\* A step that keeps the cache, and all tasks and sleepers of the two.
LEMMA Waited ==
    ASSUME JoinInv, NEW m \in Ingresses, NEW n \in Ingresses, Waiting(m, n)',
           cache' = cache, dirty \subseteq dirty',
           event' = event \/ event.key \notin {m, n},
           sleeping[TM(n)] # 0 => PendingMinion(n)'
    PROVE  Waiting(m, n) /\ Joining(m, n)
<1>1. ~Pending(m)' /\ ~PendingMinion(n)'
  BY DEF Waiting
<1>2. ~Pending(m) /\ ~PendingMinion(n)
  BY <1>1 DEF Pending, PendingMinion, T, TM, Task
<1>3. Waiting(m, n)
  BY <1>2, WaitingSame
<1> QED BY <1>3 DEF JoinInv

\* The handler of a minion queues it.
LEMMA MinionEnqueued ==
    ASSUME NEW n \in Ingresses, OnAdd(n) \/ OnUpdate(n) \/ OnDelete(n), Joinable(n)
    PROVE  TM(n) \in dirty'
BY OnAddAdds DEF OnDelete, Joinable, NewTask, TM, Enqueue, Add

\* The one master there may be is the one FindMasterForMinion finds.
LEMMA OneMaster ==
    ASSUME TypeInv, NEW m \in Ingresses, NEW n \in Ingresses, IsMasterOf(m, n), Joinable(n)
    PROVE  MastersFor(cache[n]) \subseteq {m} /\ Creatable(cache[n])
<1>1. ASSUME NEW j \in MastersFor(cache[n]) PROVE j = m
  <2>1. j \in Ingresses /\ cache[j] # None /\ IsMaster(cache[j]) /\ cache[j].host = cache[n].host
    BY DEF MastersFor, Exists
  <2>2. cache[j] \in Specs[j]
    BY <2>1 DEF TypeInv, SpecsOK
  <2>3. j \in MasterKeys(cache[n].host)
    BY <2>1, <2>2 DEF MasterKeys
  <2> QED BY <2>3 DEF IsMasterOf
<1>2. Creatable(cache[n])
  BY DEF IsMasterOf, Joinable, Accepted, CreatableMaster, Creatable
<1> QED BY <1>1, <1>2

LEMMA SleepersKept ==
    ASSUME TypeInv, Work, NEW n \in Ingresses
    PROVE  sleeping[TM(n)] # 0 => sleeping'[TM(n)] # 0
<1>1. sleeping \in [Tasks -> Nat]
  BY DEF TypeInv, TypeOK, QueueOK
<1>2. TM(n) \in Tasks /\ (pc # "get" => task \in Tasks)
  BY OneMinionTask DEF TypeInv, TypeOK, WorkerOK
<1>3. \/ sleeping' = sleeping
      \/ pc # "get" /\ sleeping' = [sleeping EXCEPT ![task] = @ + 1]
  BY DEF Work, Get, SyncIng, SyncsIngress, RequeueAfter, GetMinionsForMaster, AddOrUpdateIngress,
     AddOrUpdateMergeableIngress, DeleteIngress, RemoveIngress, Reload, SyncIngMinion,
     EnqueueMaster, Enqueue, Done, workqueue
<1> QED BY SMTT(30), Z3T(30), <1>1, <1>2, <1>3

\* The steps of the informer and of sleeping goroutines.
LEMMA JoinOutside ==
    ASSUME TypeInv, JoinInv, Next, ~Work, NEW m \in Ingresses, NEW n \in Ingresses,
           Waiting(m, n)'
    PROVE  Joining(m, n)'
<1> USE DEF TypeInv, TypeOK
<1>1. ASSUME NEW j \in Ingresses, NEW unknown \in BOOLEAN, NEW s \in Specs[j] \cup {None},
             Change(j, s, unknown)
      PROVE  Joining(m, n)'
  <2>1. /\ cache' = [cache EXCEPT ![j] = s] /\ event'.key = j /\ event.key = None
        /\ UNCHANGED <<workqueue, worker, configurator>>
    BY SMTT(30), Z3T(30), <1>1, EventFields, NoEventFields DEF Change
  <2>2. m # j /\ n # j /\ ~Pending(m)' /\ ~PendingMinion(n)'
    BY <2>1 DEF Waiting, Pending, PendingMinion
  <2>3. cache'[m] = cache[m] /\ cache'[n] = cache[n]
    BY <2>1, <2>2 DEF InformerOK
  <2>4. ~Pending(m) /\ ~PendingMinion(n)
    BY <2>1, <2>2, IngressAssumption DEF Pending, PendingMinion, workqueue, T, TM, Task
  <2>5. Joining(m, n)
    BY <2>3, <2>4, WaitingSame DEF JoinInv
  <2> QED BY <2>1, <2>3, <2>5, JoiningSame DEF worker, configurator
<1>2. CASE Handle
  <2>1. PICK j \in Ingresses : OnAdd(j) \/ OnUpdate(j) \/ OnDelete(j)
    BY <1>2 DEF Handle
  <2>2. /\ event.key = j /\ UNCHANGED <<cache, worker, configurator>>
        /\ dirty \subseteq dirty' /\ sleeping' = sleeping
    BY <2>1, HandleFrame DEF OnAdd, OnUpdate, OnDelete, Enqueue, Add, Ignore, workqueue
  <2>3. Joinable(n) /\ IsMasterOf(m, n)
    BY <2>2 DEF Waiting, Joinable, IsMasterOf, Exists, MasterKeys
  <2>4. j # m
    BY <2>1, <2>3, HandlerEnqueues DEF Waiting, Pending, IsMasterOf, T, Task
  <2>5. j # n
    BY <2>1, <2>3, MinionEnqueued DEF Waiting, PendingMinion, TM, Task
  <2>6. Joining(m, n)
    BY <2>2, <2>4, <2>5, Waited DEF PendingMinion, TM, Task
  <2> QED BY <2>2, <2>6, JoiningSame DEF worker, configurator
<1>3. ASSUME NEW t \in Tasks, Wake(t) PROVE Joining(m, n)'
  <2>1. /\ dirty' = dirty \cup {t} /\ UNCHANGED <<informer, worker, configurator>>
        /\ sleeping' = [sleeping EXCEPT ![t] = @ - 1]
    BY <1>3 DEF Wake, Add
  <2>2. sleeping[TM(n)] # 0 => PendingMinion(n)'
    BY <2>1, OneMinionTask DEF PendingMinion, QueueOK, TM, Task
  <2>3. Joining(m, n)
    BY <2>1, <2>2, Waited DEF informer
  <2> QED BY <2>1, <2>3, JoiningSame DEF informer, worker, configurator
<1> QED BY <1>1, <1>2, <1>3 DEF Next

LEMMA JoinGet ==
    ASSUME TypeInv, JoinInv, Get, NEW m \in Ingresses, NEW n \in Ingresses, Waiting(m, n)'
    PROVE  Joining(m, n)'
<1>1. /\ pc = "get" /\ pc' = "sync" /\ UNCHANGED <<informer, configurator, sleeping>>
      /\ dirty' = dirty \ {task'}
  BY DEF Get
<1>2. CASE task' = T(m) \/ task' = TM(n)
  BY <1>1, <1>2 DEF Joining, Processing
<1>3. CASE ~(task' = T(m) \/ task' = TM(n))
  <2>1. ~Pending(m) /\ ~PendingMinion(n)
    BY <1>1, <1>3 DEF Waiting, Pending, PendingMinion, informer, T, TM, Task
  <2>2. Joining(m, n)
    BY <1>1, <2>1, WaitingSame DEF JoinInv, informer
  <2>3. /\ ~Processing(T(m)) /\ ~Processing(T(m))'
        /\ ~Processing(TM(n)) /\ ~Processing(TM(n))'
    BY <1>1, <1>3 DEF Processing, T, TM, Task
  <2> QED BY <1>1, <2>2, <2>3, JoiningSame DEF informer, configurator
<1> QED BY <1>2, <1>3

\* The worker syncs something else.
LEMMA JoinElsewhere ==
    ASSUME NEW m \in Ingresses, NEW n \in Ingresses, Joining(m, n),
           UNCHANGED <<cache, task>>, pc # "get",
           task # T(m), task # TM(n), locations'[m] = locations[m]
    PROVE  Joining(m, n)'
<1>1. /\ ~Processing(T(m)) /\ ~Processing(T(m))'
      /\ ~Processing(TM(n)) /\ ~Processing(TM(n))'
  BY DEF Processing, T, TM, Task
<1> QED BY <1>1, JoiningSame

LEMMA JoinStep ==
    ASSUME TypeInv, ChangeInv, JoinInv, [Next]_vars
    PROVE  JoinInv'
<1> SUFFICES ASSUME NEW m \in Ingresses, NEW n \in Ingresses, Waiting(m, n)'
             PROVE  Joining(m, n)'
  BY DEF JoinInv
<1> USE DEF TypeInv, TypeOK
<1>1. CASE UNCHANGED vars
  <2>1. /\ UNCHANGED <<cache, dirty, event, sleeping>> /\ UNCHANGED <<pc, task, read, found>>
        /\ locations' = locations
    BY <1>1 DEF vars, informer, workqueue, worker, configurator
  <2>2. Joining(m, n)
    BY <2>1, Waited DEF PendingMinion, TM, Task
  <2> QED BY <2>1, <2>2, JoiningSame
<1>2. CASE Next /\ ~Work
  BY <1>2, JoinOutside
<1>3. CASE Get
  BY <1>3, JoinGet
<1>4. CASE Work /\ ~Get
  <2>1. dirty \subseteq dirty' /\ UNCHANGED informer /\ pc # "get"
    BY <1>4, Remembers
    DEF Next, Work, SyncIng, SyncsIngress, GetMinionsForMaster, AddOrUpdateIngress,
       AddOrUpdateMergeableIngress, DeleteIngress, RemoveIngress, Reload, SyncIngMinion,
       EnqueueMaster, Done
  <2>2. UNCHANGED <<cache, event>> /\ cache'[m] = cache[m] /\ cache'[n] = cache[n]
    BY <2>1 DEF informer
  <2>3. sleeping[TM(n)] # 0 => PendingMinion(n)'
    BY <1>4, SleepersKept DEF PendingMinion, TM, Task
  <2>4. Waiting(m, n) /\ Joining(m, n)
    BY <2>1, <2>2, <2>3, Waited
  <2>5. /\ Joinable(n) /\ IsMasterOf(m, n) /\ Exists(m) /\ IsMaster(cache[m]) /\ Accepted(cache[m])
        /\ cache[m].host = cache[n].host
    BY <2>4 DEF Waiting, IsMasterOf
  <2>6. Applying(m)
    BY <2>4, <2>5 DEF ChangeInv, Waiting
  <2>7. /\ task \in Tasks /\ task = Task(task.Kind, task.Key)
        /\ task.Kind = "Ingress" => task # TM(n) /\ (task = T(m) <=> task.Key = m)
        /\ task.Kind = "IngressMinion" => task # T(m) /\ (task = TM(n) <=> task.Key = n)
    BY <2>1, OneTask, OneMinionTask, TaskEqual DEF Processing, WorkerOK
  <2>8. CASE SyncIng
    <3>1. pc = "sync" /\ task.Kind = "Ingress" /\ UNCHANGED configurator
      BY <2>8 DEF SyncIng, SyncsIngress
    <3>2. PICK label \in {"delete", "list", "write", "done"} :
             /\ Goto(label)
             /\ label = "delete" => ~Exists(task.Key)
             /\ label = "done" => ~Accepted(cache[task.Key])
             /\ label = "write" => ~IsMaster(cache[task.Key])
      BY <2>8, SyncIngCases
    <3>3. pc' = label /\ task' = task
      BY <3>2 DEF Goto
    <3>4. CASE task.Key = m
      <4>1. pc' = "list"
        BY <2>5, <3>2, <3>3, <3>4
      <4>2. Processing(T(m))' /\ ~Processing(TM(n))'
        BY <2>7, <3>1, <3>3, <3>4, <4>1 DEF Processing, T, TM, Task
      <4> QED BY <4>1, <4>2 DEF Joining
    <3>5. CASE task.Key # m
      BY <2>1, <2>2, <2>4, <2>7, <3>1, <3>3, <3>5, JoinElsewhere DEF configurator
    <3> QED BY <3>4, <3>5
  <2>9. CASE GetMinionsForMaster
    <3>1. /\ pc = "list" /\ pc' = "write" /\ task' = task /\ task.Kind = "Ingress"
          /\ UNCHANGED configurator
      BY <2>9 DEF GetMinionsForMaster, Goto, LabelsOK
    <3>2. CASE task.Key = m
      <4>1. Processing(T(m)) /\ Processing(T(m))' /\ ~Processing(TM(n))'
        BY <2>7, <3>1, <3>2 DEF Processing, T, TM, Task
      <4>2. read = cache[m]
        BY <2>6, <3>1, <4>1 DEF Applying
      <4>3. n \in MinionsOf(read) /\ ~cache[n].tls
        BY <2>5, <4>2 DEF Joinable, MinionsOf
      <4>4. PICK ord : found' = LocationsIn(MinionsOf(read), ord)
        BY <2>9 DEF GetMinionsForMaster
      <4> DEFINE l == [minion |-> n, spec |-> cache[n], created |-> created[n],
                       paths |-> UniquePaths(MinionsOf(read), ord, n)]
      <4>5. l \in found' /\ l.minion = n /\ l.spec = cache'[n]
        BY <2>2, <4>3, <4>4 DEF LocationsIn
      <4> HIDE DEF l
      <4>6. In(found, n)'
        BY <4>5 DEF In
      <4> QED BY <3>1, <4>1, <4>6 DEF Joining
    <3>3. CASE task.Key # m
      BY <2>1, <2>2, <2>4, <2>7, <3>1, <3>3, JoinElsewhere DEF configurator
    <3> QED BY <3>2, <3>3
  <2>10. CASE AddOrUpdateIngress \/ AddOrUpdateMergeableIngress
    <3>1. /\ pc = "write" /\ pc' = "reload" /\ task' = task /\ task.Kind = "Ingress"
          /\ locations' = [locations EXCEPT ![task.Key] = IF IsMaster(read) THEN found ELSE {}]
      BY <2>10 DEF AddOrUpdateIngress, AddOrUpdateMergeableIngress, Goto, LabelsOK
    <3>2. CASE task.Key = m
      <4>1. Processing(T(m)) /\ Processing(T(m))' /\ ~Processing(TM(n))'
        BY <2>7, <3>1, <3>2 DEF Processing, T, TM, Task
      <4>2. read = cache[m] /\ In(found, n)
        BY <2>4, <2>6, <3>1, <4>1 DEF Applying, Joining
      <4>3. locations'[m] = found
        BY <2>5, <3>1, <3>2, <4>2 DEF ConfiguratorOK
      <4>4. In(locations[m], n)'
        BY <2>2, <4>2, <4>3 DEF In
      <4> QED BY <3>1, <4>1, <4>4 DEF Joining
    <3>3. CASE task.Key # m
      <4>1. locations'[m] = locations[m]
        BY <3>1, <3>3 DEF ConfiguratorOK
      <4> QED BY <2>1, <2>2, <2>4, <2>7, <3>1, <3>3, <4>1, JoinElsewhere
    <3> QED BY <3>2, <3>3
  <2>11. CASE DeleteIngress
    <3>1. /\ pc = "delete" /\ pc' = "reload" /\ task' = task /\ task.Kind = "Ingress"
          /\ locations' = [locations EXCEPT ![task.Key] = {}]
      BY <2>11 DEF DeleteIngress, RemoveIngress, Goto, LabelsOK
    <3>2. task.Key # m
      BY <2>6, <2>7, <3>1 DEF Applying, Processing
    <3>3. locations'[m] = locations[m]
      BY <3>1, <3>2 DEF ConfiguratorOK
    <3> QED BY <2>1, <2>2, <2>4, <2>7, <3>1, <3>2, <3>3, JoinElsewhere
  <2>12. CASE \E ok \in BOOLEAN : Reload(ok)
    <3>1. /\ pc = "reload" /\ pc' = "done" /\ task' = task /\ task.Kind = "Ingress"
          /\ UNCHANGED configurator
      BY <2>12 DEF Reload, Goto, LabelsOK
    <3>2. ~Processing(TM(n)) /\ ~Processing(TM(n))'
      BY <2>7, <3>1 DEF Processing, TM, Task
    <3>3. In(locations[m], n)
      BY <2>4, <3>1, <3>2 DEF Joining
    <3>4. In(locations[m], n)'
      BY <2>2, <3>1, <3>3 DEF In, configurator
    <3> QED BY <3>1, <3>4 DEF Joining
  <2>13. CASE SyncIngMinion
    <3>1. /\ pc = "sync" /\ pc' \in {"find", "done"} /\ task' = task /\ task.Kind = "IngressMinion"
          /\ read' = cache[task.Key] /\ UNCHANGED configurator
          /\ Exists(task.Key) => pc' = "find"
      BY <2>13 DEF SyncIngMinion, Goto
    <3>2. CASE task.Key = n
      <4>1. pc' = "find" /\ read' = cache'[n]
        BY <2>2, <2>5, <3>1, <3>2 DEF Joinable
      <4>2. Processing(TM(n))' /\ ~Processing(T(m))'
        BY <2>7, <3>1, <3>2, <4>1 DEF Processing, T, TM, Task
      <4> QED BY <4>1, <4>2 DEF Joining
    <3>3. CASE task.Key # n
      BY <2>1, <2>2, <2>4, <2>7, <3>1, <3>3, JoinElsewhere DEF configurator
    <3> QED BY <3>2, <3>3
  <2>14. CASE EnqueueMaster
    <3>1. /\ pc = "find" /\ pc' = "done" /\ task' = task /\ task.Kind = "IngressMinion"
          /\ UNCHANGED configurator
      BY <2>14 DEF EnqueueMaster, Goto, LabelsOK
    <3>2. task.Key # n
      <4> SUFFICES ASSUME task.Key = n PROVE FALSE
        OBVIOUS
      <4>1. task = TM(n) /\ read = cache[n]
        BY <2>4, <2>7, <3>1 DEF Joining, Processing
      <4>2. MastersFor(read) \subseteq {m} /\ Creatable(read)
        BY <2>5, <4>1, OneMaster
      <4>3. RequeueAfter(task) \/ Enqueue(Task("Ingress", m))
        BY <2>14, <4>2 DEF EnqueueMaster
      <4>4. T(m) \notin dirty' /\ sleeping'[TM(n)] = 0
        BY DEF Waiting, Pending, PendingMinion, T, TM, Task
      <4>5. RequeueAfter(task)
        BY <4>3, <4>4 DEF Enqueue, Add, T
      <4>6. sleeping \in [Tasks -> Nat] /\ sleeping' = [sleeping EXCEPT ![task] = @ + 1]
        BY <4>5 DEF RequeueAfter, QueueOK
      <4>7. sleeping[task] \in Nat /\ sleeping'[task] = sleeping[task] + 1
        BY <2>7, <4>6
      <4> QED BY SMTT(30), Z3T(30), <4>1, <4>4, <4>7
    <3> QED BY <2>1, <2>2, <2>4, <2>7, <3>1, <3>2, JoinElsewhere DEF configurator
  <2>15. CASE Done
    <3>1. pc = "done" /\ pc' = "get" /\ UNCHANGED configurator
      BY <2>15 DEF Done
    <3>2. In(locations[m], n)
      BY <2>4, <3>1 DEF Joining
    <3>3. In(locations[m], n)'
      BY <2>2, <3>1, <3>2 DEF In, configurator
    <3> QED BY <3>1, <3>3 DEF Joining, Processing
  <2> QED BY <1>4, <2>8, <2>9, <2>10, <2>11, <2>12, <2>13, <2>14, <2>15 DEF Work
<1> QED BY <1>1, <1>2, <1>3, <1>4

\* Minions and masters may come, change and be synced in any order: when nothing
\* is under way for a minion and the one master of its host, the file of the
\* master has the minion as it is (syncIngMinion, createMergableIngresses).
THEOREM MinionsServed == Spec => []MinionsJoined
<1>1. Init => ChangeInv /\ JoinInv
  BY DEF Init, ChangeInv, Exists, JoinInv, Waiting, Joinable
<1>2. TypeInv /\ ChangeInv /\ JoinInv /\ [Next]_vars => ChangeInv' /\ JoinInv'
  BY ChangeStep, JoinStep
<1>3. JoinInv => MinionsJoined
  BY DEF JoinInv, MinionsJoined, Settled, Waiting, Pending, PendingMinion, Joining, Joined, In, T, TM
<1>4. Init => TypeInv
  BY TypeInit
<1>5. TypeInv /\ [Next]_vars => TypeInv'
  BY TypeStep
<1> QED BY <1>1, <1>2, <1>3, <1>4, <1>5, PTL DEF Spec

=============================================================================
