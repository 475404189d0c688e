---------------------------- MODULE IngressSync ----------------------------
(***************************************************************************)
(* How the NGINX Ingress controller turns Ingress resources into NGINX     *)
(* configuration.  The informer keeps a cache of the resources and calls a *)
(* handler for each change (internal/handlers/ingress.go); the handlers    *)
(* put tasks into the TaskQueue (internal/queue); one worker takes them    *)
(* out and syncs them (internal/controller/controller.go), which writes    *)
(* configuration files and the maps of the Configurator and reloads NGINX  *)
(* (internal/nginx/configurator.go).                                       *)
(*                                                                         *)
(* The informer, the worker and the sleeping goroutines of RequeueAfter    *)
(* run at once.  The cache changes before its handler runs, so the worker  *)
(* sees resources whose handler has not run, and a handler looks into maps *)
(* the worker is about to change.  A read of the cache is a step of its    *)
(* own.  A map and the file it stands for change in one step: handlers see *)
(* only the map, NGINX only the file, and only after a reload.             *)
(*                                                                         *)
(* A file is taken to belong to one Ingress.  Its name joins namespace and *)
(* name with a hyphen, so that this leaves out pairs such as a-b/c and     *)
(* a/b-c.                                                                  *)
(***************************************************************************)
EXTENDS Integers, FiniteSets, Sequences

CONSTANTS Ingresses,            \* keys, namespace/name
          Specs,                \* what each Ingress may say
          None,                 \* no such object
          useIngressClassOnly,  \* the command-line flag
          ReloadFails,          \* whether a reload may fail
          MaxChanges            \* bound: changes of resources

AllSpecs == UNION {Specs[k] : k \in Ingresses}

ASSUME IngressAssumption ==
    /\ None \notin Ingresses
    /\ None \notin AllSpecs
    /\ {useIngressClassOnly, ReloadFails} \subseteq BOOLEAN
    /\ MaxChanges \in Nat

VARIABLES
    cache,      \* ingressLister: the specs by key
    created,    \* their CreationTimestamps
    event,      \* the change whose handler has not run
    missed,     \* history: Ingresses whose last deletion the informer missed at first
    changes,    \* how many changes there were
    now,        \* the API server's clock
    queue,      \* the workqueue: keys in order
    dirty,      \* the workqueue: tasks that need processing
    sleeping,   \* goroutines of RequeueAfter, by task
    pc, task, read, found, \* the worker and its locals
    ingresses,  \* cnf.ingresses, and the spec each file is made from
    locations,  \* what the files say about minions
    minions,    \* cnf.minions
    running,    \* the files NGINX has loaded
    reloaded    \* whether the last reload succeeded

informer == <<cache, created, event, missed, changes, now>>
workqueue == <<queue, dirty, sleeping>>
worker == <<pc, task, read, found>>
configurator == <<ingresses, locations, minions>>
nginx == <<running, reloaded>>
vars == <<informer, workqueue, worker, configurator, nginx>>

-----------------------------------------------------------------------------
(***************************************************************************)
(* Ingress resources.  A spec has the fields                               *)
(*   class   the kubernetes.io/ingress.class annotation, "absent" if none  *)
(*   type    the nginx.org/mergeable-ingress-type annotation               *)
(*   single  whether there is one rule only                                *)
(*   host    the host of the rules                                         *)
(*   http    whether the rules have an HTTP part                           *)
(*   paths   the paths of the HTTP part                                    *)
(*   tls     whether a valid TLS secret goes with it                       *)
(***************************************************************************)
IsNginxIngress(s) ==
    IF s.class = "absent" THEN ~useIngressClassOnly
    ELSE s.class = "nginx" \/ (~useIngressClassOnly /\ s.class = "")

IsMinion(s) == s.type = "minion"
IsMaster(s) == s.type = "master"

\* createIngress succeeds: some rule has an HTTP part, and none an empty host.
Creatable(s) == s.http /\ s.host # ""

\* createMergableIngresses succeeds; it gives the master an empty HTTP part.
CreatableMaster(s) == s.single /\ s.paths = {} /\ s.host # ""

Exists(k) == cache[k] # None
HasIngress(k) == ingresses[k] # None
HasMinion(master, minion) == minion \in minions[master]

\* getMinionsForMaster: those whose paths count.
MinionsOf(s) ==
    {k \in Ingresses :
        /\ Exists(k) /\ IsNginxIngress(cache[k]) /\ IsMinion(cache[k])
        /\ cache[k].host = s.host /\ cache[k].single /\ cache[k].http}

\* The orders sort.Slice may put them in: it is not stable, and timestamps may
\* be equal.
Orders(ks) ==
    {ord \in [ks -> 1 .. Cardinality(ks)] :
        \A j, k \in ks : /\ ord[j] = ord[k] => j = k
                         /\ created[j] < created[k] => ord[j] < ord[k]}

\* Fault: every minion keeps all its paths.
AllPaths(ks, ord, k) == cache[k].paths

\* A path belongs to the first minion that has it.
UniquePaths(ks, ord, k) ==
    cache[k].paths \ UNION {cache[j].paths : j \in {i \in ks : ord[i] < ord[k]}}

\* Minions with TLS secrets are dropped, after their paths were taken.
LocationsIn(ks, ord) ==
    {[minion |-> k, spec |-> cache[k], created |-> created[k],
      paths |-> UniquePaths(ks, ord, k)] : k \in {i \in ks : ~cache[i].tls}}

Event(key, old, unknown) == [key |-> key, old |-> old, unknown |-> unknown]
NoEvent == Event(None, None, FALSE)

Tasks == [Kind: {"Ingress", "IngressMinion"}, Key: Ingresses]
Task(kind, k) == [Kind |-> kind, Key |-> k]
NewTask(k, s) == Task(IF IsMinion(s) THEN "IngressMinion" ELSE "Ingress", k)

Init ==
    /\ cache = [k \in Ingresses |-> None]
    /\ created = [k \in Ingresses |-> 0]
    /\ event = NoEvent /\ missed = {} /\ changes = 0 /\ now = 0
    /\ queue = <<>> /\ dirty = {} /\ sleeping = [t \in Tasks |-> 0]
    /\ pc = "get" /\ task = None /\ read = None /\ found = {}
    /\ ingresses = [k \in Ingresses |-> None]
    /\ locations = [k \in Ingresses |-> {}]
    /\ minions = [k \in Ingresses |-> {}]
    /\ running = <<ingresses, locations>> /\ reloaded = TRUE

-----------------------------------------------------------------------------
(***************************************************************************)
(* The workqueue.  What is being processed is what the worker holds.       *)
(***************************************************************************)
Processing(t) == pc # "get" /\ task = t

\* Fault: a task that is being processed is not marked again.
AddIdle(t) ==
    IF t \in dirty \/ Processing(t)
    THEN UNCHANGED <<queue, dirty>>
    ELSE dirty' = dirty \cup {t} /\ queue' = Append(queue, t)

Add(t) ==
    /\ dirty' = dirty \cup {t}
    /\ queue' = IF t \in dirty \/ Processing(t) THEN queue ELSE Append(queue, t)

RequeueAfter(t) ==
    /\ sleeping' = [sleeping EXCEPT ![t] = @ + 1]
    /\ UNCHANGED <<queue, dirty>>

\* The goroutine RequeueAfter started wakes up.
Wake(t) ==
    /\ sleeping[t] > 0
    /\ sleeping' = [sleeping EXCEPT ![t] = @ - 1]
    /\ Add(t)
    /\ UNCHANGED <<informer, worker, configurator, nginx>>

-----------------------------------------------------------------------------
(***************************************************************************)
(* The informer: one goroutine that changes the cache and then calls the   *)
(* handler.  A deletion it missed while disconnected comes as a            *)
(* DeletedFinalStateUnknown.                                               *)
(***************************************************************************)
Change(k, s, unknown) ==
    /\ changes < MaxChanges /\ event = NoEvent
    /\ cache[k] # s /\ unknown \in BOOLEAN
    /\ unknown => s = None
    /\ changes' = changes + 1
    /\ cache' = [cache EXCEPT ![k] = s]
    /\ event' = Event(k, cache[k], unknown)
    /\ missed' = IF unknown THEN missed \cup {k} ELSE missed \ {k}
    /\ now' \in {now, now + 1}
    /\ created' = IF Exists(k) THEN created ELSE [created EXCEPT ![k] = now']
    /\ UNCHANGED <<workqueue, worker, configurator, nginx>>

Handled(k) ==
    /\ event.key = k /\ event' = NoEvent
    /\ UNCHANGED <<cache, created, missed, changes, now, worker, configurator, nginx>>

Ignore == UNCHANGED workqueue
Enqueue(t) == Add(t) /\ UNCHANGED sleeping

OnAdd(k) ==
    /\ Handled(k) /\ event.old = None
    /\ IF IsNginxIngress(cache[k]) THEN Enqueue(NewTask(k, cache[k])) ELSE Ignore

OnUpdate(k) ==
    /\ Handled(k) /\ event.old # None /\ Exists(k)
    /\ IF IsNginxIngress(cache[k]) THEN Enqueue(NewTask(k, cache[k])) ELSE Ignore

\* FindMasterForMinion returns the first of these the cache lists.
MastersFor(s) ==
    {k \in Ingresses :
        /\ Exists(k) /\ IsNginxIngress(cache[k]) /\ HasIngress(k)
        /\ IsMaster(cache[k]) /\ cache[k].host = s.host}

\* Fault: an Ingress that is not configured yet needs no removal.
OnDeleteConfigured(k) ==
    /\ Handled(k) /\ event.old # None /\ ~Exists(k)
    /\ IF IsNginxIngress(event.old) /\ HasIngress(k)
       THEN Enqueue(Task("Ingress", k)) ELSE Ignore

\* NewTask does not know a DeletedFinalStateUnknown.
OnDelete(k) ==
    /\ Handled(k) /\ event.old # None /\ ~Exists(k)
    /\ IF IsNginxIngress(event.old)
       THEN IF IsMinion(event.old)
            THEN \/ \E m \in MastersFor(event.old) : Enqueue(Task("Ingress", m))
                 \/ MastersFor(event.old) = {} /\ Ignore
            ELSE IF event.unknown THEN Ignore ELSE Enqueue(Task("Ingress", k))
       ELSE Ignore

-----------------------------------------------------------------------------
(***************************************************************************)
(* The worker.                                                             *)
(***************************************************************************)
Goto(label) == pc' = label /\ UNCHANGED task
Keep == UNCHANGED <<read, found>>
SyncsIngress(label) == pc = label /\ task.Kind = "Ingress"

\* Fault: the newest task is taken first.
GetNewest ==
    /\ pc = "get" /\ queue # <<>>
    /\ LET last == Len(queue) IN
       /\ task' = queue[last] /\ queue' = SubSeq(queue, 1, last - 1)
       /\ dirty' = dirty \ {queue[last]}
    /\ pc' = "sync" /\ Keep
    /\ UNCHANGED <<informer, sleeping, configurator, nginx>>

Get ==
    /\ pc = "get" /\ queue # <<>>
    /\ task' = Head(queue) /\ queue' = Tail(queue) /\ dirty' = dirty \ {Head(queue)}
    /\ pc' = "sync" /\ Keep
    /\ UNCHANGED <<informer, sleeping, configurator, nginx>>

\* syncIng reads the Ingress; it does not look at its class.
SyncIng ==
    /\ SyncsIngress("sync")
    /\ read' = cache[task.Key] /\ UNCHANGED found
    /\ \/ ~Exists(task.Key) /\ Goto("delete") /\ UNCHANGED workqueue
       \/ /\ Exists(task.Key) /\ IsMaster(cache[task.Key])
          /\ IF CreatableMaster(cache[task.Key])
             THEN Goto("list") /\ UNCHANGED workqueue
             ELSE Goto("done") /\ RequeueAfter(task)
       \/ /\ Exists(task.Key) /\ ~IsMaster(cache[task.Key])
          /\ Goto(IF Creatable(cache[task.Key]) THEN "write" ELSE "done")
          /\ UNCHANGED workqueue
    /\ UNCHANGED <<informer, configurator, nginx>>

GetMinionsForMaster ==
    /\ pc = "list"
    /\ \E ord \in Orders(MinionsOf(read)) :
          found' = LocationsIn(MinionsOf(read), ord)
    /\ Goto("write") /\ UNCHANGED read
    /\ UNCHANGED <<informer, workqueue, configurator, nginx>>

\* addOrUpdateIngress leaves cnf.minions alone.
AddOrUpdateIngress ==
    /\ pc = "write" /\ ~IsMaster(read)
    /\ ingresses' = [ingresses EXCEPT ![task.Key] = read]
    /\ locations' = [locations EXCEPT ![task.Key] = {}]
    /\ Goto("reload") /\ Keep
    /\ UNCHANGED <<informer, workqueue, minions, nginx>>

AddOrUpdateMergeableIngress ==
    /\ pc = "write" /\ IsMaster(read)
    /\ ingresses' = [ingresses EXCEPT ![task.Key] = read]
    /\ locations' = [locations EXCEPT ![task.Key] = found]
    /\ minions' = [minions EXCEPT ![task.Key] = {l.minion : l \in found}]
    /\ Goto("reload") /\ Keep
    /\ UNCHANGED <<informer, workqueue, nginx>>

RemoveIngress(label) ==
    /\ pc = "delete"
    /\ ingresses' = [ingresses EXCEPT ![task.Key] = None]
    /\ locations' = [locations EXCEPT ![task.Key] = {}]
    /\ minions' = [minions EXCEPT ![task.Key] = {}]
    /\ Goto(label) /\ Keep
    /\ UNCHANGED <<informer, workqueue, nginx>>

DeleteIngress == RemoveIngress("reload")

\* A reload that fails may have been too slow only.  Nothing is tried again.
Reload(ok) ==
    /\ pc = "reload" /\ (ok \/ ReloadFails)
    /\ reloaded' = ok
    /\ \/ running' = <<ingresses, locations>>
       \/ ~ok /\ UNCHANGED running
    /\ Goto("done") /\ Keep
    /\ UNCHANGED <<informer, workqueue, configurator>>

SyncIngMinion ==
    /\ pc = "sync" /\ task.Kind = "IngressMinion"
    /\ read' = cache[task.Key] /\ UNCHANGED found
    /\ Goto(IF Exists(task.Key) THEN "find" ELSE "done")
    /\ UNCHANGED <<informer, workqueue, configurator, nginx>>

\* Fault: the master is synced again only if it has the minion already.
EnqueueMasterKnown ==
    /\ pc = "find"
    /\ \/ MastersFor(read) = {} /\ RequeueAfter(task)
       \/ \E m \in MastersFor(read) :
             IF HasMinion(m, task.Key) THEN Enqueue(Task("Ingress", m))
             ELSE UNCHANGED workqueue
    /\ Goto("done") /\ Keep
    /\ UNCHANGED <<informer, configurator, nginx>>

\* The rest of syncIngMinion, from the list of Ingresses FindMasterForMinion
\* gets to the call of Enqueue.
EnqueueMaster ==
    /\ pc = "find"
    /\ \/ MastersFor(read) = {} /\ RequeueAfter(task)
       \/ \E m \in MastersFor(read) :
             IF Creatable(read) THEN Enqueue(Task("Ingress", m))
             ELSE /\ sleeping' = [sleeping EXCEPT ![task] = @ + 1]
                  /\ IF HasMinion(m, task.Key) THEN Add(Task("Ingress", m))
                     ELSE UNCHANGED <<queue, dirty>>
    /\ Goto("done") /\ Keep
    /\ UNCHANGED <<informer, configurator, nginx>>

\* Done puts a task back that was marked while it was processed.
Done ==
    /\ pc = "done" /\ pc' = "get" /\ task' = None /\ read' = None /\ found' = {}
    /\ queue' = IF task \in dirty THEN Append(queue, task) ELSE queue
    /\ UNCHANGED <<informer, dirty, sleeping, configurator, nginx>>

Handle == \E k \in Ingresses : OnAdd(k) \/ OnUpdate(k) \/ OnDelete(k)
Work ==
    \/ Get \/ SyncIng \/ GetMinionsForMaster
    \/ AddOrUpdateIngress \/ AddOrUpdateMergeableIngress \/ DeleteIngress
    \/ \E ok \in BOOLEAN : Reload(ok)
    \/ SyncIngMinion \/ EnqueueMaster \/ Done

Next ==
    \/ \E k \in Ingresses, unknown \in BOOLEAN :
          \E s \in Specs[k] \cup {None} : Change(k, s, unknown)
    \/ Handle
    \/ Work
    \/ \E t \in Tasks : Wake(t)

Spec == Init /\ [][Next]_vars

\* Goroutines are scheduled, and a sleep ends.
LiveSpec ==
    /\ Spec
    /\ WF_vars(Handle) /\ WF_vars(Work)
    /\ \A t \in Tasks : WF_vars(Wake(t))

-----------------------------------------------------------------------------
Location == [minion: Ingresses, spec: AllSpecs, created: Nat,
             paths: SUBSET UNION {s.paths : s \in AllSpecs}]

InformerOK ==
    /\ cache \in [Ingresses -> AllSpecs \cup {None}]
    /\ created \in [Ingresses -> Nat]
    /\ event \in [key: Ingresses \cup {None}, old: AllSpecs \cup {None}, unknown: BOOLEAN]
    /\ missed \subseteq Ingresses
    /\ changes \in Nat /\ now \in Nat

Queued(t) == \E i \in 1 .. Len(queue) : queue[i] = t
QueueOK ==
    /\ dirty \subseteq Tasks /\ sleeping \in [Tasks -> Nat]
    /\ queue \in Seq(Tasks)
    /\ \A i, j \in 1 .. Len(queue) : queue[i] = queue[j] => i = j
    /\ \A t \in Tasks : Queued(t) <=> t \in dirty /\ ~Processing(t)

WorkerOK ==
    /\ pc \in {"get", "sync", "list", "write", "delete", "reload", "find", "done"}
    /\ task \in Tasks \cup {None} /\ (pc # "get" => task \in Tasks)
    /\ read \in AllSpecs \cup {None}
    /\ found \subseteq Location

ConfiguratorOK ==
    /\ ingresses \in [Ingresses -> AllSpecs \cup {None}]
    /\ locations \in [Ingresses -> SUBSET Location]
    /\ minions \in [Ingresses -> SUBSET Ingresses]
    /\ reloaded \in BOOLEAN

\* Every variable has its type, and the queue holds exactly the dirty tasks that
\* are not being processed, once each (workqueue.Type, TaskQueue, Configurator,
\* the informer's Process function).
TypeOK == InformerOK /\ QueueOK /\ WorkerOK /\ ConfiguratorOK

\* Nothing is under way for the Ingress k: its handler has run and no sync of it
\* is queued or going on.
Settled(k) == event.key # k /\ Task("Ingress", k) \notin dirty /\ ~Processing(Task("Ingress", k))

\* syncIng can make configuration of it.
Accepted(s) ==
    /\ IsNginxIngress(s) /\ ~IsMinion(s)
    /\ IF IsMaster(s) THEN CreatableMaster(s) ELSE Creatable(s)

\* No change of a resource is lost between its handler, the queue's merging of
\* tasks and a sync that read an older version: once nothing is under way for an
\* Ingress of ours, its file is made from what the cache has (CreateIngressHandlers,
\* TaskQueue.worker, syncIng).
ChangesApplied ==
    \A k \in Ingresses :
        Exists(k) /\ Accepted(cache[k]) /\ Settled(k) => ingresses[k] = cache[k]

\* The configuration of a deleted Ingress is gone once nothing is under way for
\* it, provided its class and type were never such that its deletion is not our
\* business (DeleteFunc, syncIng, DeleteIngress).  Only a deletion that was missed
\* and came as a DeletedFinalStateUnknown leaves it, until the Ingress is made and
\* deleted again.
AlwaysOurs(k) == \A s \in Specs[k] : IsNginxIngress(s) /\ ~IsMinion(s)
DeletedGone ==
    \A k \in Ingresses \ missed :
        AlwaysOurs(k) /\ ~Exists(k) /\ Settled(k) => ~HasIngress(k) /\ locations[k] = {}

\* The Ingresses that might be the master of the host h.
MasterKeys(h) == {m \in Ingresses : \E s \in Specs[m] : IsMaster(s) /\ s.host = h}
Joinable(n) == Exists(n) /\ IsNginxIngress(cache[n]) /\ IsMinion(cache[n])
               /\ cache[n].single /\ cache[n].http /\ ~cache[n].tls
IsMasterOf(m, n) ==
    /\ MasterKeys(cache[n].host) = {m}
    /\ Exists(m) /\ IsMaster(cache[m]) /\ Accepted(cache[m]) /\ cache[m].host = cache[n].host
Joined(m, n) == \E l \in locations[m] : l.minion = n /\ l.spec = cache[n]

\* A minion and its master may come in any order, change and be synced while the
\* other one is: once nothing is under way for either, the master's file has the
\* minion as it is now (syncIngMinion, FindMasterForMinion, getMinionsForMaster).
MinionsJoined ==
    \A m, n \in Ingresses :
        /\ Joinable(n) /\ IsMasterOf(m, n) /\ Settled(m) /\ event.key # n
        /\ LET t == Task("IngressMinion", n) IN
              t \notin dirty /\ ~Processing(t) /\ sleeping[t] = 0
        => Joined(m, n)

\* If a conflicting path is present then the path defined on the oldest minion is
\* used, and no path is given to two (getMinionsForMaster).
OldestPathWins ==
    \A k \in Ingresses : \A l1, l2 \in locations[k] :
        l1 # l2 => /\ l1.paths \cap l2.paths = {}
                   /\ l1.created < l2.created => l1.spec.paths \cap l2.paths = {}

\* Whatever a task did to the files, NGINX has loaded them when the worker turns
\* to the next one, unless the reload failed (AddOrUpdateIngress,
\* AddOrUpdateMergeableIngress, DeleteIngress, Reload).
LoadedWhenReloaded == pc = "get" /\ reloaded => running = <<ingresses, locations>>

\* Every change is applied in the end: an Ingress of ours that syncIng accepts
\* gets its file unless it changes again, whatever else keeps the worker busy
\* (TaskQueue.worker).
AppliedEventually ==
    \A k \in Ingresses : \A s \in {x \in Specs[k] : Accepted(x)} :
        cache[k] = s ~> ingresses[k] = s \/ cache[k] # s

\* A minion joins its master in the end, though it may have come before the
\* master and its sync has to be tried again (RequeueAfter, syncIngMinion).
JoinedEventually ==
    \A m, n \in Ingresses :
      \A sm \in {s \in Specs[m] : IsMaster(s)}, sn \in {s \in Specs[n] : IsMinion(s)} :
        cache[m] = sm /\ cache[n] = sn /\ Joinable(n) /\ IsMasterOf(m, n)
            ~> Joined(m, n) \/ cache[m] # sm \/ cache[n] # sn
=============================================================================
