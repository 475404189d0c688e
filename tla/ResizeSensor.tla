---------------------------- MODULE ResizeSensor ----------------------------
(***************************************************************************)
(* The size sensor of the hugo-uno theme (ResizeSensor.js) on one element. *)
(* Two scrolled panes in the element are at rest for one size; when the    *)
(* element takes another, the browser moves their scroll offsets and fires *)
(* a scroll event.  Its handler measures the element and has an animation  *)
(* frame call the listeners.  Each new ResizeSensor on an element without  *)
(* one makes a sensor: a closure with its locals, an event queue and a     *)
(* div.  The locals and the frames of a sensor outlive its detachment.     *)
(*                                                                         *)
(* A size stands for the rounded width and height; 0 is an element without *)
(* a box (hidden, or out of the document).  Handlers run to completion,    *)
(* but for the calls of the listeners, which may detach and attach.        *)
(***************************************************************************)
EXTENDS Naturals, Sequences, FiniteSets

CONSTANTS
    Listeners,      \* the callbacks given to ResizeSensor
    Sizes,          \* the sizes of the element when it is shown
    MaxSensors,     \* bound: sensors made
    MaxListening,   \* bound: length of a queue
    MaxSteps        \* bound: what scripts do, the element's changes included

ASSUME SensorAssumption ==
    /\ Sizes \subseteq Nat \ {0}
    /\ MaxSensors \in Nat /\ MaxListening \in Nat /\ MaxSteps \in Nat

Sensors == 1 .. MaxSensors
Callback == [fn : {"reset", "poll", "onResized"}, s : Sensors]
Frame(f, s) == [fn |-> f, s |-> s]
NoCall == [q |-> 0, i |-> 0, j |-> 0, inside |-> FALSE, removed |-> FALSE,
           due |-> {}, reached |-> {}]

VARIABLES
    box,           \* what getElementSize would return now
    inDocument,    \* the element is in the document
    mutated,       \* a mutation record names the element among addedNodes
    lost,          \* history: it was without a box since its last reset
    made,          \* sensors made so far
    attached,      \* the sensor of resizedAttached and resizeSensor, 0 for none
    q,             \* the event queue of each sensor
    size, last, dirty, rafId, hiddenCheck, polling,  \* the locals of each sensor
    at,            \* the size its scroll offsets are at rest for, 0 for none
    events,        \* sensors with a scroll event under way
    raf,           \* callbacks of the next animation frame
    running,       \* callbacks left of the current one
    call,          \* the call of an event queue in progress
    steps          \* counts what scripts do

element == <<box, inDocument>>
locals == <<size, last, dirty, rafId, hiddenCheck, polling>>
scrolling == <<at, events, lost>>
queues == <<made, attached, q>>
vars == <<element, mutated, locals, scrolling, queues, raf, running, call, steps>>

Idle == call = NoCall
\* A step of the page's scripts: outside the handlers, or in a listener called.
Script ==
    /\ Idle \/ call.inside
    /\ steps < MaxSteps /\ steps' = steps + 1

Init ==
    /\ box \in Sizes \cup {0} /\ inDocument = TRUE
    /\ mutated = FALSE /\ lost = FALSE /\ steps = 0
    /\ made = 0 /\ attached = 0 /\ q = [s \in Sensors |-> <<>>]
    /\ size = [s \in Sensors |-> 0] /\ last = [s \in Sensors |-> 0]
    /\ dirty = [s \in Sensors |-> FALSE] /\ rafId = [s \in Sensors |-> FALSE]
    /\ hiddenCheck = [s \in Sensors |-> TRUE]
    /\ polling = [s \in Sensors |-> FALSE]
    /\ at = [s \in Sensors |-> 0] /\ events = {}
    /\ raf = <<>> /\ running = <<>> /\ call = NoCall

-----------------------------------------------------------------------------
(***************************************************************************)
(* The element, changed by scripts and by layout.                          *)
(***************************************************************************)
Changing(b) ==
    /\ Script
    /\ box' = b
    /\ lost' = (lost \/ b = 0)
    /\ UNCHANGED <<locals, queues, raf, running, call>>

\* A shown element changes size.  Offsets at rest for another size are moved.
Resize(b) ==
    /\ box # 0 /\ b # box /\ b # 0
    /\ Changing(b)
    /\ events' = events \cup {s \in {attached} \ {0} : at[s] # 0}
    /\ UNCHANGED <<inDocument, mutated, at>>

\* It is hidden, or leaves the document.  A browser drops the scroll offsets
\* of nodes that leave; it may drop those of hidden ones.
Hide(removed, keep) ==
    /\ inDocument /\ (box # 0 \/ removed)
    /\ keep => ~removed
    /\ Changing(0)
    /\ inDocument' = ~removed
    /\ at' = IF keep THEN at ELSE [s \in Sensors |-> 0]
    /\ UNCHANGED <<events, mutated>>

\* It is shown again, or comes back: by itself, or inside an ancestor.
Show(b) ==
    /\ inDocument /\ box = 0 /\ b # 0
    /\ Changing(b)
    /\ events' = events \cup {s \in {attached} \ {0} : at[s] \notin {0, b}}
    /\ UNCHANGED <<inDocument, mutated, at>>

Insert(b, alone) ==
    /\ ~inDocument
    /\ Changing(b)
    /\ inDocument' = TRUE
    /\ mutated' = (mutated \/ alone)
    /\ UNCHANGED <<at, events>>

-----------------------------------------------------------------------------
(***************************************************************************)
(* reset and resetExpandShrink, where ev are the scroll events, r the      *)
(* requested frames and p[s] the pending look at a hidden element.  Panes  *)
(* without a box cannot be scrolled, and a reset leaves them at rest for   *)
(* no size; offsets that move fire a scroll event.                         *)
(***************************************************************************)
Reset(s, ev, r, p) ==
    IF hiddenCheck[s] /\ box = 0
      THEN /\ polling' = [p EXCEPT ![s] = TRUE]
           /\ raf' = IF p[s] THEN r ELSE Append(r, Frame("poll", s))
           /\ events' = ev
           /\ UNCHANGED <<hiddenCheck, at, lost>>
      ELSE /\ hiddenCheck' = [hiddenCheck EXCEPT ![s] = FALSE]
           /\ raf' = r /\ polling' = p
           /\ at' = IF s = attached THEN [at EXCEPT ![s] = box] ELSE at
           /\ events' = IF s = attached /\ box \notin {0, at[s]} THEN ev \cup {s} ELSE ev
           /\ lost' = (lost /\ ~(s = attached /\ box # 0))

\* onScroll: measure, ask for a frame if the size is new, put the offsets back.
\* Faults: every event asks for a frame; a frame under way keeps the element
\* from being measured.
OnScrollEager(s) ==
    /\ Idle /\ s \in events
    /\ size' = [size EXCEPT ![s] = box]
    /\ dirty' = [dirty EXCEPT ![s] = box # last[s]]
    /\ rafId' = [rafId EXCEPT ![s] = @ \/ box # last[s]]
    /\ Reset(s, events \ {s},
             IF box # last[s] THEN Append(raf, Frame("onResized", s)) ELSE raf, polling)
    /\ UNCHANGED <<steps, element, mutated, queues, call, last, running>>

OnScrollOnce(s) ==
    /\ Idle /\ s \in events
    /\ size' = [size EXCEPT ![s] = IF rafId[s] THEN @ ELSE box]
    /\ dirty' = [dirty EXCEPT ![s] = IF rafId[s] THEN @ ELSE box # last[s]]
    /\ rafId' = [rafId EXCEPT ![s] = @ \/ box # last[s]]
    /\ Reset(s, events \ {s}, IF box # last[s] /\ ~rafId[s]
               THEN Append(raf, Frame("onResized", s)) ELSE raf, polling)
    /\ UNCHANGED <<steps, element, mutated, queues, call, last, running>>

OnScroll(s) ==
    /\ Idle /\ s \in events
    /\ size' = [size EXCEPT ![s] = box]
    /\ dirty' = [dirty EXCEPT ![s] = box # last[s]]
    /\ rafId' = [rafId EXCEPT ![s] = @ \/ box # last[s]]
    /\ Reset(s, events \ {s}, IF box # last[s] /\ ~rafId[s]
               THEN Append(raf, Frame("onResized", s)) ELSE raf, polling)
    /\ UNCHANGED <<steps, element, mutated, queues, call, last, running>>

-----------------------------------------------------------------------------
(***************************************************************************)
(* Animation frames.  The callbacks of a frame run one by one; what they   *)
(* request runs in the next.                                               *)
(***************************************************************************)
StartFrame ==
    /\ Idle /\ running = <<>> /\ raf # <<>>
    /\ running' = raf /\ raf' = <<>>
    /\ UNCHANGED <<steps, element, mutated, locals, scrolling, queues, call>>

Runs(f, s) ==
    /\ Idle /\ running # <<>> /\ Head(running) = Frame(f, s)
    /\ running' = Tail(running)
    /\ UNCHANGED <<element, mutated, queues>>

FrameReset(s) ==
    /\ Runs("reset", s)
    /\ Reset(s, events, raf, polling)
    /\ UNCHANGED <<steps, size, last, dirty, rafId, call>>

\* Fault: lastAnimationFrame is not cleared.
FramePollKeeps(s) ==
    /\ Runs("poll", s)
    /\ Reset(s, events, raf, polling)
    /\ UNCHANGED <<steps, size, last, dirty, rafId, call>>

FramePoll(s) ==
    /\ Runs("poll", s)
    /\ Reset(s, events, raf, [polling EXCEPT ![s] = FALSE])
    /\ UNCHANGED <<steps, size, last, dirty, rafId, call>>

\* EventQueue.call begins: i = 0, j = q.length.
Calling(a) ==
    [q |-> a, i |-> 0, j |-> Len(q[a]), inside |-> FALSE, removed |-> FALSE,
     due |-> {q[a][n] : n \in DOMAIN q[a]}, reached |-> {}]

\* Fault: the new size is not remembered.
OnResizedForgets(s) ==
    /\ Runs("onResized", s)
    /\ rafId' = [rafId EXCEPT ![s] = FALSE]
    /\ call' = IF dirty[s] /\ attached # 0 THEN Calling(attached) ELSE call
    /\ UNCHANGED <<steps, size, last, dirty, hiddenCheck, polling, scrolling, raf>>

OnResized(s) ==
    /\ Runs("onResized", s)
    /\ rafId' = [rafId EXCEPT ![s] = FALSE]
    /\ last' = IF dirty[s] THEN [last EXCEPT ![s] = size[s]] ELSE last
    /\ call' = IF dirty[s] /\ attached # 0 THEN Calling(attached) ELSE call
    /\ UNCHANGED <<steps, size, dirty, hiddenCheck, polling, scrolling, raf>>

-----------------------------------------------------------------------------
(***************************************************************************)
(* The loop of EventQueue.call.  Its i and j are those of remove as well.  *)
(***************************************************************************)
Listen ==
    /\ ~Idle /\ ~call.inside /\ call.i < call.j
    /\ call' = [call EXCEPT !.inside = TRUE, !.reached = @ \cup {q[call.q][call.i + 1]}]
    /\ UNCHANGED <<steps, element, mutated, locals, scrolling, queues, raf, running>>

Return ==
    /\ ~Idle /\ call.inside
    /\ call' = [call EXCEPT !.inside = FALSE, !.i = @ + 1]
    /\ UNCHANGED <<steps, element, mutated, locals, scrolling, queues, raf, running>>

\* Nothing catches what a listener throws: it ends the loop and its frame.
Throw ==
    /\ ~Idle /\ call.inside
    /\ call' = NoCall
    /\ UNCHANGED <<steps, element, mutated, locals, scrolling, queues, raf, running>>

EndCall ==
    /\ ~Idle /\ ~call.inside /\ call.i >= call.j
    /\ call' = NoCall
    /\ UNCHANGED <<steps, element, mutated, locals, scrolling, queues, raf, running>>

-----------------------------------------------------------------------------
(***************************************************************************)
(* What a script calls.                                                    *)
(***************************************************************************)
\* EventQueue.add.  Fault: a listener is put in front of the others.
AddFirst(queue, l) == <<l>> \o queue
Add(queue, l) == Append(queue, l)

\* new ResizeSensor(element, l).
Attach(l) ==
    /\ Script
    /\ IF attached # 0
         THEN /\ Len(q[attached]) < MaxListening
              /\ q' = [q EXCEPT ![attached] = Add(@, l)]
              /\ UNCHANGED <<made, attached, size, last, raf, lost>>
         ELSE /\ made < MaxSensors
              /\ made' = made + 1 /\ attached' = made'
              /\ q' = [q EXCEPT ![made'] = Add(<<>>, l)]
              /\ size' = [size EXCEPT ![made'] = box]
              /\ last' = [last EXCEPT ![made'] = box]
              /\ raf' = Append(raf, Frame("reset", made'))
              /\ lost' = FALSE
    /\ UNCHANGED <<element, mutated, dirty, rafId, hiddenCheck, polling, at, events,
                   running, call>>

Dropping == attached' = 0 /\ at' = [at EXCEPT ![attached] = 0] /\ lost' = FALSE

\* sensor.detach(): the queue and the div go, with all listeners.
DetachAll ==
    /\ Script /\ attached # 0
    /\ Dropping
    /\ UNCHANGED <<element, mutated, locals, events, made, q, raf, running, call>>

\* EventQueue.remove: a new queue of the listeners other than l.
Remove(queue, l) ==
    LET newQueue[n \in 0 .. Len(queue)] ==
          IF n = 0 THEN <<>>
          ELSE IF queue[n] = l THEN newQueue[n - 1] ELSE Append(newQueue[n - 1], queue[n])
    IN  newQueue[Len(queue)]

\* sensor.detach(l): l leaves the queue, and the last one takes all with it.
\* remove ends with i = j = the length the queue had.
Detach(l) ==
    /\ Script /\ attached # 0
    /\ LET rest == Remove(q[attached], l) IN
         /\ q' = [q EXCEPT ![attached] = rest]
         /\ IF rest = <<>> THEN Dropping ELSE UNCHANGED <<attached, at, lost>>
    /\ call' = IF call.q = attached
                 THEN [call EXCEPT !.i = Len(q[attached]), !.j = Len(q[attached]),
                                   !.removed = TRUE]
                 ELSE call
    /\ UNCHANGED <<element, mutated, locals, events, made, raf, running>>

\* sensor.reset(), ResizeSensor.reset(element).
ResetSensor ==
    /\ Script /\ attached # 0
    /\ Reset(attached, events, raf, polling)
    /\ UNCHANGED <<element, mutated, queues, size, last, dirty, rafId, running, call>>

\* The mutation observer resets the nodes that were added themselves.
Observe ==
    /\ Idle /\ mutated /\ mutated' = FALSE
    /\ IF attached # 0
         THEN Reset(attached, events, raf, polling)
         ELSE UNCHANGED <<hiddenCheck, polling, raf, scrolling>>
    /\ UNCHANGED <<steps, element, queues, size, last, dirty, rafId, running, call>>

Environment ==
    \/ \E b \in Sizes : Resize(b) \/ Show(b)
    \/ \E removed, keep \in BOOLEAN : Hide(removed, keep)
    \/ \E b \in Sizes \cup {0}, alone \in BOOLEAN : Insert(b, alone)

Frames == \E s \in Sensors : FrameReset(s) \/ FramePoll(s) \/ OnResized(s)

Next ==
    \/ Environment
    \/ \E s \in Sensors : OnScroll(s)
    \/ StartFrame \/ Frames
    \/ Listen \/ Return \/ Throw \/ EndCall
    \/ \E l \in Listeners : Attach(l) \/ Detach(l)
    \/ DetachAll \/ ResetSensor \/ Observe

(***************************************************************************)
(* The event loop of a page in view: events, mutation records and frames   *)
(* are served, and a listener returns or throws.                           *)
(***************************************************************************)
Fairness ==
    /\ \A s \in Sensors : WF_vars(OnScroll(s))
    /\ WF_vars(StartFrame) /\ WF_vars(Frames) /\ WF_vars(Observe)
    /\ WF_vars(Listen) /\ WF_vars(Return \/ Throw) /\ WF_vars(EndCall)

SafeSpec == Init /\ [][Next]_vars
Spec == SafeSpec /\ Fairness

-----------------------------------------------------------------------------

Pending(f, s) == {i \in DOMAIN raf : raf[i] = Frame(f, s)}
Current(f, s) == {i \in DOMAIN running : running[i] = Frame(f, s)}

\* "the event callback count is limited to max 1 call per fps per sensor": at
\* any time at most one call of onResized of a sensor is left, in this frame or
\* the next.  The locals of a sensor see to it; a queue may be called again by
\* the frame of a sensor that was detached.
OneCallPerFrame ==
    \A s \in Sensors :
        /\ \A i, j \in Pending("onResized", s) : i = j
        /\ \A i, j \in Current("onResized", s) : i = j
        /\ Pending("onResized", s) = {} \/ Current("onResized", s) = {}

\* The sensor has a way to notice a change: it waits for the element to be
\* shown first, or has put its offsets since the element was last without a box.
Heard == attached # 0 => hiddenCheck[attached] \/ ~lost

Quiet(s) ==
    /\ s \notin events
    /\ \A f \in {"reset", "poll", "onResized"} : Pending(f, s) = {} /\ Current(f, s) = {}

\* No change of size is missed, in whatever order sizes change, events and
\* frames are served and sensors come and go: when nothing of the sensor is
\* under way, its listeners were called for the size the element has.
NoMissedResize ==
    attached # 0 /\ box # 0 /\ Heard /\ Quiet(attached) => last[attached] = box

\* The listeners behind the one that is being called.
Behind(c) == IF c.inside THEN {q[c.q][n] : n \in c.i + 2 .. c.j} ELSE {}

\* A call of the queue reaches every listener that was in it, whatever they
\* attach, reset or detach altogether; a listener that throws, so that the call
\* ends inside it, keeps it only from those behind that listener.  The one
\* exception is a listener that detaches a listener of this queue meanwhile:
\* remove moves the index of the loop.
CallReachesAll ==
    [][call # NoCall /\ call' = NoCall /\ ~call.removed =>
          call.due \ call.reached \subseteq Behind(call)]_vars

\* A look at a hidden element is asked for once at a time, and the sensor does
\* not stop looking before the element was shown.
PollingGoesOn ==
    \A s \in Sensors :
        /\ polling[s] <=> (Pending("poll", s) \cup Current("poll", s)) # {}
        /\ s <= made /\ hiddenCheck[s] =>
             \E f \in {"reset", "poll"} : (Pending(f, s) \cup Current(f, s)) # {}

Watch == INSTANCE SizeWatch WITH
    size <- box, heard <- Heard, watching <- attached # 0,
    measured <- IF attached = 0 THEN 0 ELSE size[attached],
    known <- IF attached = 0 THEN 0 ELSE last[attached]

\* The sensor keeps the promise of SizeWatch.
Refines == Watch!Spec
=============================================================================
