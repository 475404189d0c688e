------------------------- MODULE ResizeSensorProofs -------------------------
(***************************************************************************)
(* Proofs about ResizeSensor, for every number of sensors and listeners,   *)
(* every set of sizes and every number of steps.                           *)
(*                                                                         *)
(* OneCallPerFrame and PollingGoesOn need that the flags of a sensor count *)
(* its frames (FlagsCount), NoMissedResize that a sensor with its offsets  *)
(* at rest has measured the size they are at rest for (OffsetsTell), and   *)
(* CallReachesAll that the loop of a call is in order (CallOK).            *)
(***************************************************************************)
EXTENDS ResizeSensor, WellFoundedInduction, TLAPS

\* The provers are tried in turn: those a leaf cites, or else Zenon before SMT.
USE ZenonT(30), SMTT(30)

Types ==
    /\ box \in Sizes \cup {0} /\ lost \in BOOLEAN /\ (inDocument \/ box = 0)
    /\ made \in 0 .. MaxSensors /\ attached \in 0 .. made
    /\ size \in [Sensors -> Sizes \cup {0}] /\ last \in [Sensors -> Sizes \cup {0}]
    /\ at \in [Sensors -> Sizes \cup {0}]
    /\ dirty \in [Sensors -> BOOLEAN] /\ rafId \in [Sensors -> BOOLEAN]
    /\ hiddenCheck \in [Sensors -> BOOLEAN] /\ polling \in [Sensors -> BOOLEAN]
    /\ events \subseteq Sensors
    /\ raf \in Seq(Callback) /\ running \in Seq(Callback)

Has(r, x) == \E i \in DOMAIN r : r[i] = x
One(r, x) == \A i, j \in DOMAIN r : r[i] = x /\ r[j] = x => i = j

\* x is left to run once if b holds, in this frame or the next, else not at all.
Alone(r, run, x, b) ==
    /\ One(r, x) /\ One(run, x)
    /\ ~(Has(r, x) /\ Has(run, x))
    /\ b <=> Has(r, x) \/ Has(run, x)

\* rafId and lastAnimationFrame are set exactly while the frame they stand for
\* is to run.
FlagsCount ==
    \A t \in Sensors : /\ Alone(raf, running, Frame("poll", t), polling[t])
                       /\ Alone(raf, running, Frame("onResized", t), rafId[t])

\* A sensor that waits for the element to be shown has its first reset or a look
\* to come.
Looks ==
    \A t \in 1 .. made : hiddenCheck[t] =>
        polling[t] \/ Has(raf, Frame("reset", t)) \/ Has(running, Frame("reset", t))

\* Of a sensor that was not made there is nothing.
Unmade ==
    \A t \in Sensors : t > made =>
        /\ hiddenCheck[t] /\ t \notin events
        /\ \A f \in {"reset", "poll", "onResized"} :
             ~Has(raf, Frame(f, t)) /\ ~Has(running, Frame(f, t))

\* Offsets are put by the first reset with a box.  A sensor that is heard has
\* them at rest for the size the element has, or an event to come; without one
\* it has measured the size they are at rest for, and has reported it or has a
\* frame to come.
OffsetsTell ==
    /\ \A t \in Sensors : hiddenCheck[t] => at[t] = 0
    /\ attached # 0 /\ ~hiddenCheck[attached] =>
         /\ ~lost => box # 0 /\ at[attached] # 0 /\ (at[attached] = box \/ attached \in events)
         /\ at[attached] # 0 /\ attached \notin events =>
              /\ size[attached] = at[attached]
              /\ last[attached] # at[attached] => dirty[attached] /\ rafId[attached]

SensorInv == Types /\ FlagsCount /\ Looks /\ Unmade /\ OffsetsTell

-----------------------------------------------------------------------------
(***************************************************************************)
(* Requests for animation frames.                                          *)
(***************************************************************************)
LEMMA FrameFacts ==
    ASSUME NEW f \in {"reset", "poll", "onResized"}, NEW s \in Sensors
    PROVE  /\ Frame(f, s) \in Callback
           /\ \A g, t : Frame(f, s) = Frame(g, t) => f = g /\ s = t
  BY DEF Frame, Callback

LEMMA AppendFrame ==
    ASSUME NEW r \in Seq(Callback), NEW x \in Callback, NEW y
    PROVE  /\ Append(r, x) \in Seq(Callback)
           /\ Has(Append(r, x), y) <=> Has(r, y) \/ x = y
           /\ One(r, y) /\ (x = y => ~Has(r, y)) => One(Append(r, x), y)
  <1>1. /\ Append(r, x) \in Seq(Callback)
        /\ DOMAIN Append(r, x) = 1 .. Len(r) + 1 /\ DOMAIN r = 1 .. Len(r) /\ Len(r) \in Nat
        /\ \A i \in 1 .. Len(r) : Append(r, x)[i] = r[i]
        /\ Append(r, x)[Len(r) + 1] = x
    BY SMTT(30), Z3T(30)
  <1>2. Has(Append(r, x), y) <=> Has(r, y) \/ x = y
    BY SMTT(30), Z3T(30), <1>1 DEF Has
  <1>3. ASSUME One(r, y), x = y => ~Has(r, y)
        PROVE  One(Append(r, x), y)
    BY SMTT(30), Z3T(30), <1>1, <1>3 DEF One, Has
  <1> QED
    BY <1>1, <1>2, <1>3

LEMMA TailFrame ==
    ASSUME NEW r \in Seq(Callback), r # <<>>, NEW y
    PROVE  /\ Tail(r) \in Seq(Callback)
           /\ Has(r, y) <=> Head(r) = y \/ Has(Tail(r), y)
           /\ One(r, y) => One(Tail(r), y)
           /\ One(r, y) /\ Head(r) = y => ~Has(Tail(r), y)
  <1>1. /\ Tail(r) \in Seq(Callback) /\ Len(r) \in Nat \ {0}
        /\ DOMAIN Tail(r) = 1 .. Len(r) - 1 /\ DOMAIN r = 1 .. Len(r)
        /\ \A i \in 1 .. Len(r) - 1 : Tail(r)[i] = r[i + 1]
        /\ Head(r) = r[1]
    BY SMTT(30), Z3T(30)
  <1>2. \A i \in DOMAIN r : i = 1 \/ (i - 1 \in DOMAIN Tail(r) /\ r[i] = Tail(r)[i - 1])
    BY SMTT(30), Z3T(30), <1>1
  <1>3. \A i \in DOMAIN Tail(r) : i + 1 \in DOMAIN r /\ i + 1 # 1 /\ Tail(r)[i] = r[i + 1]
    BY SMTT(30), Z3T(30), <1>1
  <1>4. 1 \in DOMAIN r
    BY SMTT(30), Z3T(30), <1>1
  <1>5. Has(r, y) <=> Head(r) = y \/ Has(Tail(r), y)
    BY <1>1, <1>2, <1>3, <1>4 DEF Has
  <1>6. ASSUME One(r, y)
        PROVE  One(Tail(r), y) /\ (Head(r) = y => ~Has(Tail(r), y))
    <2>1. \A i, j \in DOMAIN Tail(r) : i + 1 = j + 1 => i = j
      BY SMTT(30), Z3T(30), <1>1
    <2> QED
      BY SMTT(30), Z3T(30), <1>1, <1>3, <1>4, <1>6, <2>1 DEF One, Has
  <1> QED
    BY <1>1, <1>5, <1>6

LEMMA NoFrame ==
    ASSUME NEW y
    PROVE  <<>> \in Seq(Callback) /\ ~Has(<<>>, y) /\ One(<<>>, y)
  BY SMTT(30), Z3T(30) DEF Has, One

-----------------------------------------------------------------------------
(***************************************************************************)
(* reset, on the frames r and the flags p that its caller leaves.          *)
(***************************************************************************)
LEMMA ResetTypes ==
    ASSUME Types, NEW s \in Sensors, NEW ev \in SUBSET Sensors, NEW r \in Seq(Callback),
           NEW p \in [Sensors -> BOOLEAN], Reset(s, ev, r, p)
    PROVE  /\ raf' \in Seq(Callback) /\ events' \subseteq Sensors /\ lost' \in BOOLEAN
           /\ polling' \in [Sensors -> BOOLEAN] /\ hiddenCheck' \in [Sensors -> BOOLEAN]
           /\ at' \in [Sensors -> Sizes \cup {0}]
  <1>1. Append(r, Frame("poll", s)) \in Seq(Callback)
    BY AppendFrame, FrameFacts
  <1>2. CASE hiddenCheck[s] /\ box = 0
    BY <1>1, <1>2 DEF Reset, Types
  <1>3. CASE ~(hiddenCheck[s] /\ box = 0)
    <2>1. raf' = r /\ polling' = p /\ hiddenCheck' = [hiddenCheck EXCEPT ![s] = FALSE]
      BY <1>3 DEF Reset
    <2>2. at' \in [Sensors -> Sizes \cup {0}] /\ events' \subseteq Sensors
      BY SMTT(30), Z3T(30), <1>3 DEF Reset, Types
    <2>3. lost' \in BOOLEAN
      BY <1>3 DEF Reset
    <2> QED
      BY <2>1, <2>2, <2>3 DEF Types
  <1> QED
    BY <1>2, <1>3

\* It keeps what the flags say, and leaves a sensor that looks or has its offsets.
LEMMA ResetFrames ==
    ASSUME Types, NEW s \in Sensors, NEW ev \in SUBSET Sensors, NEW r \in Seq(Callback),
           NEW p \in [Sensors -> BOOLEAN], Reset(s, ev, r, p), NEW run,
           \A t \in Sensors : Alone(r, run, Frame("poll", t), p[t]),
           NEW t \in Sensors, NEW b
    PROVE  /\ Alone(raf', run, Frame("poll", t), polling'[t])
           /\ Alone(r, run, Frame("onResized", t), b) => Alone(raf', run, Frame("onResized", t), b)
           /\ Has(raf', Frame("reset", t)) <=> Has(r, Frame("reset", t))
           /\ Has(raf', Frame("onResized", t)) <=> Has(r, Frame("onResized", t))
           /\ Has(raf', Frame("poll", t)) => t = s \/ Has(r, Frame("poll", t))
           /\ hiddenCheck'[t] => hiddenCheck[t] /\ (t = s \/ p[t] => polling'[t])
           /\ t # s => hiddenCheck'[t] = hiddenCheck[t]
  <1> DEFINE x == Frame("poll", s)
  <1>1. CASE hiddenCheck[s] /\ box = 0 /\ ~p[s]
    <2>1. /\ raf' = Append(r, x) /\ polling' = [p EXCEPT ![s] = TRUE]
          /\ hiddenCheck' = hiddenCheck
      BY <1>1 DEF Reset
    <2>2. \A f \in {"reset", "poll", "onResized"} : x = Frame(f, t) <=> f = "poll" /\ t = s
      BY DEF Frame
    <2>3. x \in Callback
      BY FrameFacts
    <2>4. ~Has(r, x) /\ ~Has(run, x)
      BY <1>1 DEF Alone
    <2>5. \A y : /\ Has(Append(r, x), y) <=> Has(r, y) \/ x = y
                 /\ One(r, y) /\ (x = y => ~Has(r, y)) => One(Append(r, x), y)
      BY <2>3, AppendFrame
    <2>6. polling'[t] = (p[t] \/ t = s)
      BY <2>1
    <2>7. Alone(raf', run, Frame("poll", t), polling'[t])
      BY <2>1, <2>2, <2>4, <2>5, <2>6 DEF Alone
    <2>8. Alone(r, run, Frame("onResized", t), b) => Alone(raf', run, Frame("onResized", t), b)
      BY <2>1, <2>2, <2>5 DEF Alone
    <2> QED
      BY <2>1, <2>2, <2>5, <2>6, <2>7, <2>8 DEF Types
  <1>2. CASE hiddenCheck[s] /\ box = 0 /\ p[s]
    <2>1. raf' = r /\ polling' = p /\ hiddenCheck' = hiddenCheck
      BY <1>2 DEF Reset
    <2> QED
      BY <1>2, <2>1
  <1>3. CASE ~(hiddenCheck[s] /\ box = 0)
    <2>1. raf' = r /\ polling' = p /\ hiddenCheck' = [hiddenCheck EXCEPT ![s] = FALSE]
      BY <1>3 DEF Reset
    <2> QED
      BY <2>1 DEF Types
  <1> QED
    BY <1>1, <1>2, <1>3

\* What a reset does to the offsets, for callers that measured or did not.
LEMMA ResetOffsets ==
    ASSUME Types, OffsetsTell, NEW s \in Sensors, NEW ev, NEW r, NEW p, Reset(s, ev, r, p),
           UNCHANGED <<box, attached>>,
           \/ ev = events /\ UNCHANGED <<size, last, dirty, rafId>>
           \/ /\ ev = events \ {s} /\ UNCHANGED last
              /\ size' = [size EXCEPT ![s] = box]
              /\ dirty' = [dirty EXCEPT ![s] = box # last[s]]
              /\ rafId' = [rafId EXCEPT ![s] = @ \/ box # last[s]]
    PROVE  OffsetsTell'
  <1>1. \A t \in Sensors : hiddenCheck'[t] => at'[t] = 0
    <2>1. CASE hiddenCheck[s] /\ box = 0
      BY <2>1 DEF Reset, OffsetsTell
    <2>2. CASE ~(hiddenCheck[s] /\ box = 0)
      BY SMTT(30), Z3T(30), <2>2 DEF Reset, OffsetsTell, Types
    <2> QED
      BY <2>1, <2>2
  <1> SUFFICES ASSUME attached # 0, ~hiddenCheck'[attached]
               PROVE  /\ ~lost' => /\ box # 0 /\ at'[attached] # 0
                                   /\ at'[attached] = box \/ attached \in events'
                      /\ at'[attached] # 0 /\ attached \notin events' =>
                           /\ size'[attached] = at'[attached]
                           /\ last'[attached] # at'[attached] => dirty'[attached] /\ rafId'[attached]
    BY <1>1 DEF OffsetsTell
  <1>2. attached \in Sensors
    BY SMTT(30), Z3T(30), SensorAssumption DEF Types, Sensors
  <1>3. CASE s # attached
    <2>1. /\ at'[attached] = at[attached] /\ lost' = lost
          /\ hiddenCheck'[attached] = hiddenCheck[attached]
          /\ attached \in events' <=> attached \in events
      BY SMTT(30), Z3T(30), <1>2, <1>3 DEF Reset, Types
    <2>2. /\ size'[attached] = size[attached] /\ last'[attached] = last[attached]
          /\ dirty'[attached] = dirty[attached] /\ rafId'[attached] = rafId[attached]
      BY <1>2, <1>3 DEF Types
    <2> QED
      BY <2>1, <2>2 DEF OffsetsTell
  <1>4. CASE s = attached
    <2>1. ~(hiddenCheck[s] /\ box = 0)
      BY <1>4 DEF Reset
    <2>2. /\ at'[s] = box
          /\ events' = IF box \notin {0, at[s]} THEN ev \cup {s} ELSE ev
          /\ lost' = (lost /\ box = 0)
      BY SMTT(30), Z3T(30), <1>4, <2>1 DEF Reset, Types
    <2>3. hiddenCheck[s] => at[s] = 0
      BY DEF OffsetsTell
    <2>4. CASE ev = events /\ UNCHANGED <<size, last, dirty, rafId>>
      BY <1>4, <2>1, <2>2, <2>3, <2>4 DEF OffsetsTell
    <2>5. CASE /\ ev = events \ {s} /\ UNCHANGED last
               /\ size' = [size EXCEPT ![s] = box]
               /\ dirty' = [dirty EXCEPT ![s] = box # last[s]]
               /\ rafId' = [rafId EXCEPT ![s] = @ \/ box # last[s]]
      <3>1. /\ size'[s] = box /\ last'[s] = last[s] /\ dirty'[s] = (box # last[s])
            /\ rafId'[s] = (rafId[s] \/ box # last[s])
        BY <2>5 DEF Types
      <3>2. ~lost' => box # 0
        BY <1>4, <2>1, <2>2 DEF OffsetsTell
      <3> QED
        BY <1>4, <2>2, <3>1, <3>2
    <2> QED
      BY <2>4, <2>5
  <1> QED
    BY <1>3, <1>4

\* A callback leaves the current frame.
LEMMA RunFrame ==
    ASSUME Types, NEW x, NEW y, NEW b, running # <<>>, Head(running) = x,
           Alone(raf, running, y, b)
    PROVE  /\ Tail(running) \in Seq(Callback)
           /\ Has(running, x)
           /\ Has(running, y) => x = y \/ Has(Tail(running), y)
           /\ Has(Tail(running), y) => Has(running, y)
           /\ Alone(raf, Tail(running), y, b /\ x # y)
  <1>1. /\ Tail(running) \in Seq(Callback)
        /\ Has(running, y) <=> x = y \/ Has(Tail(running), y)
        /\ One(running, y) => One(Tail(running), y)
        /\ One(running, y) /\ x = y => ~Has(Tail(running), y)
    BY TailFrame DEF Types
  <1>2. Has(running, x)
    BY TailFrame DEF Types
  <1> QED
    BY <1>1, <1>2 DEF Alone

\* A step that ends with reset keeps the invariant, given what it did before.
LEMMA ResetStep ==
    ASSUME SensorInv, NEW s \in Sensors, s =< made,
           NEW ev \in SUBSET Sensors, NEW r \in Seq(Callback), NEW p \in [Sensors -> BOOLEAN],
           Reset(s, ev, r, p), UNCHANGED <<box, inDocument, made, attached>>, ev \subseteq events,
           OffsetsTell', running' \in Seq(Callback),
           size' \in [Sensors -> Sizes \cup {0}], last' \in [Sensors -> Sizes \cup {0}],
           dirty' \in [Sensors -> BOOLEAN], rafId' \in [Sensors -> BOOLEAN],
           \A t \in Sensors : /\ Alone(r, running', Frame("poll", t), p[t])
                              /\ Alone(r, running', Frame("onResized", t), rafId'[t]),
           \A t \in Sensors : t # s =>
               /\ polling[t] => p[t]
               /\ Has(raf, Frame("reset", t)) \/ Has(running, Frame("reset", t)) =>
                    Has(r, Frame("reset", t)) \/ Has(running', Frame("reset", t)),
           \A t \in Sensors : t > made => \A f \in {"reset", "poll", "onResized"} :
               ~Has(r, Frame(f, t)) /\ ~Has(running', Frame(f, t))
    PROVE  SensorInv'
  <1>1. Types'
    BY ResetTypes DEF Types, SensorInv
  <1>2. ASSUME NEW t \in Sensors
        PROVE  /\ Alone(raf', running', Frame("poll", t), polling'[t])
               /\ Alone(raf', running', Frame("onResized", t), rafId'[t])
               /\ Has(raf', Frame("reset", t)) <=> Has(r, Frame("reset", t))
               /\ Has(raf', Frame("onResized", t)) <=> Has(r, Frame("onResized", t))
               /\ Has(raf', Frame("poll", t)) => t = s \/ Has(r, Frame("poll", t))
               /\ hiddenCheck'[t] => hiddenCheck[t] /\ (t = s \/ p[t] => polling'[t])
               /\ t # s => hiddenCheck'[t] = hiddenCheck[t]
    <2>1. Types
      BY DEF SensorInv
    <2> QED
      BY SMTT(30), Z3T(30), <2>1, ResetFrames
  <1>3. FlagsCount'
    BY <1>2 DEF FlagsCount
  <1>4. Looks'
    <2> SUFFICES ASSUME NEW t \in 1 .. made, hiddenCheck'[t]
                 PROVE  \/ polling'[t] \/ Has(raf', Frame("reset", t))
                        \/ Has(running', Frame("reset", t))
      BY DEF Looks
    <2>1. t \in Sensors
      BY SMTT(30), Z3T(30), SensorAssumption DEF SensorInv, Types, Sensors
    <2>2. \/ polling[t] \/ Has(raf, Frame("reset", t))
          \/ Has(running, Frame("reset", t))
      BY <1>2, <2>1 DEF SensorInv, Looks
    <2> QED
      BY <1>2, <2>1, <2>2
  <1>5. Unmade'
    <2> SUFFICES ASSUME NEW t \in Sensors, t > made
                 PROVE  /\ hiddenCheck'[t] /\ t \notin events'
                        /\ \A f \in {"reset", "poll", "onResized"} :
                             ~Has(raf', Frame(f, t)) /\ ~Has(running', Frame(f, t))
      BY DEF Unmade
    <2>1. t # s
      BY SMTT(30), Z3T(30) DEF SensorInv, Types, Sensors
    <2>2. t \notin events' /\ hiddenCheck[t]
      BY SMTT(30), Z3T(30), <2>1 DEF Reset, SensorInv, Unmade
    <2> QED
      BY <1>2, <2>1, <2>2
  <1> QED
    BY <1>1, <1>3, <1>4, <1>5 DEF SensorInv

\* The sensor of a frame, of an event or of the element was made.
LEMMA Made ==
    ASSUME SensorInv, NEW s \in Sensors, NEW f \in {"reset", "poll", "onResized"}
    PROVE  /\ s \in events => s =< made
           /\ Has(raf, Frame(f, s)) => s =< made
           /\ Has(running, Frame(f, s)) => s =< made
           /\ attached # 0 => attached \in Sensors /\ attached =< made
  <1>1. s =< made \/ s > made
    BY SMTT(30), Z3T(30) DEF SensorInv, Types, Sensors
  <1>2. attached # 0 => attached \in Sensors /\ attached =< made
    BY SMTT(30), Z3T(30), SensorAssumption DEF SensorInv, Types, Sensors
  <1> QED
    BY <1>1, <1>2 DEF SensorInv, Unmade

-----------------------------------------------------------------------------
(***************************************************************************)
(* The steps.                                                              *)
(***************************************************************************)
LEMMA InitInv == Init => SensorInv
  <1> SUFFICES ASSUME Init PROVE SensorInv
    OBVIOUS
  <1>1. raf = <<>> /\ running = <<>> /\ raf \in Seq(Callback)
    BY SMTT(30), Z3T(30) DEF Init
  <1>2. \A y : ~Has(raf, y) /\ ~Has(running, y) /\ One(raf, y) /\ One(running, y)
    BY <1>1, NoFrame
  <1>3. Types
    <2>1. running \in Seq(Callback) /\ made \in 0 .. MaxSensors /\ attached \in 0 .. made
      BY SMTT(30), Z3T(30), <1>1, SensorAssumption DEF Init
    <2>2. /\ dirty \in [Sensors -> BOOLEAN] /\ rafId \in [Sensors -> BOOLEAN]
          /\ hiddenCheck \in [Sensors -> BOOLEAN] /\ polling \in [Sensors -> BOOLEAN]
      BY DEF Init
    <2>3. /\ size \in [Sensors -> Sizes \cup {0}] /\ last \in [Sensors -> Sizes \cup {0}]
          /\ at \in [Sensors -> Sizes \cup {0}]
      BY DEF Init
    <2> QED
      BY <1>1, <2>1, <2>2, <2>3 DEF Init, Types
  <1>4. FlagsCount
    BY <1>2 DEF Init, FlagsCount, Alone
  <1>5. Looks
    BY SMTT(30), Z3T(30) DEF Init, Looks
  <1>6. Unmade
    BY <1>2 DEF Init, Unmade
  <1>7. OffsetsTell
    BY DEF Init, OffsetsTell
  <1> QED
    BY <1>3, <1>4, <1>5, <1>6, <1>7 DEF SensorInv

LEMMA OnScrollStep ==
    ASSUME SensorInv, NEW s \in Sensors, OnScroll(s)
    PROVE  SensorInv'
  <1> DEFINE x == Frame("onResized", s)
             asks == box # last[s] /\ ~rafId[s]
             r == IF asks THEN Append(raf, x) ELSE raf
  <1>1. /\ Types /\ OffsetsTell /\ s =< made /\ s \in events
        /\ raf \in Seq(Callback) /\ running \in Seq(Callback)
    BY Made DEF SensorInv, Types, OnScroll
  <1>2. /\ Reset(s, events \ {s}, r, polling)
        /\ UNCHANGED <<box, inDocument, made, attached, last, running>>
        /\ size' = [size EXCEPT ![s] = box]
        /\ dirty' = [dirty EXCEPT ![s] = box # last[s]]
        /\ rafId' = [rafId EXCEPT ![s] = @ \/ box # last[s]]
    BY DEF OnScroll, element, queues
  <1>3. OffsetsTell'
    BY <1>1, <1>2, ResetOffsets
  <1>4. /\ size' \in [Sensors -> Sizes \cup {0}] /\ last' \in [Sensors -> Sizes \cup {0}]
        /\ dirty' \in [Sensors -> BOOLEAN] /\ rafId' \in [Sensors -> BOOLEAN]
        /\ polling \in [Sensors -> BOOLEAN] /\ events \ {s} \in SUBSET Sensors
    BY <1>1, <1>2 DEF Types
  <1>5. \A t \in Sensors : rafId'[t] = (rafId[t] \/ (t = s /\ box # last[s]))
    BY <1>1, <1>2 DEF Types
  <1>6. x \in Callback
    BY FrameFacts
  <1>7. \A y : /\ r \in Seq(Callback)
               /\ Has(r, y) <=> Has(raf, y) \/ (asks /\ x = y)
               /\ One(raf, y) /\ (x = y => ~Has(raf, y) \/ ~asks) => One(r, y)
    BY <1>1, <1>6, AppendFrame
  <1>8. \A t \in Sensors : \A f \in {"reset", "poll", "onResized"} :
          x = Frame(f, t) <=> f = "onResized" /\ t = s
    BY DEF Frame
  <1> HIDE DEF x, r
  <1>9. ASSUME NEW t \in Sensors
        PROVE  /\ Alone(r, running', Frame("poll", t), polling[t])
               /\ Alone(r, running', Frame("onResized", t), rafId'[t])
    <2>1. /\ Alone(raf, running, Frame("poll", t), polling[t])
          /\ Alone(raf, running, Frame("onResized", t), rafId[t])
      BY DEF SensorInv, FlagsCount
    <2>2. Alone(r, running, Frame("poll", t), polling[t])
      BY <1>7, <1>8, <2>1 DEF Alone
    <2>3. Alone(r, running, Frame("onResized", t), rafId'[t])
      BY <1>5, <1>7, <1>8, <2>1 DEF Alone
    <2> QED
      BY <1>2, <2>2, <2>3
  <1>10. \A t \in Sensors : t > made => \A f \in {"reset", "poll", "onResized"} :
           ~Has(r, Frame(f, t)) /\ ~Has(running', Frame(f, t))
    <2>1. \A t \in Sensors : t > made => t # s
      BY SMTT(30), Z3T(30), <1>1 DEF Types, Sensors
    <2> QED
      BY <1>2, <1>7, <1>8, <2>1 DEF SensorInv, Unmade
  <1>11. r \in Seq(Callback) /\ running' \in Seq(Callback)
    BY <1>1, <1>2, <1>7
  <1>12. \A t \in Sensors : t # s =>
           /\ polling[t] => polling[t]
           /\ Has(raf, Frame("reset", t)) \/ Has(running, Frame("reset", t)) =>
                Has(r, Frame("reset", t)) \/ Has(running', Frame("reset", t))
    BY <1>2, <1>7
  <1> QED
    BY SMTT(30), Z3T(30), <1>1, <1>2, <1>3, <1>4, <1>9, <1>10, <1>11, <1>12, ResetStep

\* A reset in the frame that runs: the first of a sensor, or a look.
LEMMA FrameResetStep ==
    ASSUME SensorInv, NEW s \in Sensors, FrameReset(s) \/ FramePoll(s)
    PROVE  SensorInv'
  <1> DEFINE run == Tail(running)
  <1>1. PICK f \in {"reset", "poll"} :
          /\ Runs(f, s)
          /\ Reset(s, events, raf, IF f = "poll" THEN [polling EXCEPT ![s] = FALSE] ELSE polling)
          /\ UNCHANGED <<size, last, dirty, rafId>>
    BY DEF FrameReset, FramePoll
  <1> DEFINE p == IF f = "poll" THEN [polling EXCEPT ![s] = FALSE] ELSE polling
  <1>2. /\ running # <<>> /\ Head(running) = Frame(f, s) /\ running' = run
        /\ UNCHANGED <<box, inDocument, made, attached>>
    BY <1>1 DEF Runs, element, queues
  <1>3. /\ Types /\ OffsetsTell /\ raf \in Seq(Callback)
        /\ polling \in [Sensors -> BOOLEAN] /\ rafId \in [Sensors -> BOOLEAN]
    BY DEF SensorInv, Types
  <1>4. OffsetsTell'
    BY <1>1, <1>2, <1>3, ResetOffsets
  <1>5. \A y, b : Alone(raf, running, y, b) =>
          /\ run \in Seq(Callback)
          /\ Has(running, Frame(f, s))
          /\ Has(running, y) => Frame(f, s) = y \/ Has(run, y)
          /\ Has(run, y) => Has(running, y)
          /\ Alone(raf, run, y, b /\ Frame(f, s) # y)
    BY SMTT(30), Z3T(30), <1>2, <1>3, RunFrame
  <1>6. \A y : Has(running, y) <=> Frame(f, s) = y \/ Has(run, y)
    BY SMTT(30), Z3T(30), <1>2, <1>3, TailFrame DEF Types
  <1>7. run \in Seq(Callback)
    BY <1>2, <1>3, TailFrame DEF Types
  <1>8. p \in [Sensors -> BOOLEAN]
        /\ \A t \in Sensors : p[t] = (polling[t] /\ Frame(f, s) # Frame("poll", t))
    BY <1>3 DEF Frame
  <1>9. \A t \in Sensors : \A g \in {"reset", "poll", "onResized"} :
          Frame(f, s) = Frame(g, t) <=> f = g /\ t = s
    BY DEF Frame
  <1> HIDE DEF run, p
  <1>10. ASSUME NEW t \in Sensors
         PROVE  /\ Alone(raf, running', Frame("poll", t), p[t])
                /\ Alone(raf, running', Frame("onResized", t), rafId'[t])
    <2>1. /\ Alone(raf, running, Frame("poll", t), polling[t])
          /\ Alone(raf, running, Frame("onResized", t), rafId[t])
      BY DEF SensorInv, FlagsCount
    <2>2. Alone(raf, run, Frame("poll", t), p[t])
      BY SMTT(30), Z3T(30), <1>5, <1>8, <2>1
    <2>3. rafId'[t] = rafId[t] /\ Frame(f, s) # Frame("onResized", t)
      BY <1>1, <1>9
    <2>4. Alone(raf, run, Frame("onResized", t), rafId[t])
      <3>1. Alone(raf, run, Frame("onResized", t), rafId[t] /\ Frame(f, s) # Frame("onResized", t))
        BY <1>5, <2>1
      <3> QED
        BY <2>3, <3>1 DEF Alone
    <2> QED
      BY <1>2, <2>2, <2>3, <2>4
  <1>11. s =< made
    BY <1>6, Made
  <1>12. \A t \in Sensors : t > made => \A g \in {"reset", "poll", "onResized"} :
           ~Has(raf, Frame(g, t)) /\ ~Has(running', Frame(g, t))
    BY <1>2, <1>6 DEF SensorInv, Unmade
  <1>13. \A t \in Sensors : t # s =>
           /\ polling[t] => p[t]
           /\ Has(raf, Frame("reset", t)) \/ Has(running, Frame("reset", t)) =>
                Has(raf, Frame("reset", t)) \/ Has(running', Frame("reset", t))
    BY <1>2, <1>6, <1>8, <1>9
  <1>14. Reset(s, events, raf, p)
    BY <1>1 DEF p
  <1>15. /\ size' \in [Sensors -> Sizes \cup {0}] /\ last' \in [Sensors -> Sizes \cup {0}]
         /\ dirty' \in [Sensors -> BOOLEAN] /\ rafId' \in [Sensors -> BOOLEAN]
         /\ events \in SUBSET Sensors /\ running' \in Seq(Callback)
    BY <1>1, <1>2, <1>3, <1>7 DEF Types
  <1> QED
    BY <1>2, <1>3, <1>4, <1>8, <1>10, <1>11, <1>12, <1>13, <1>14, <1>15, ResetStep

LEMMA OnResizedStep ==
    ASSUME SensorInv, NEW s \in Sensors, OnResized(s)
    PROVE  SensorInv'
  <1> DEFINE run == Tail(running)
             x == Frame("onResized", s)
  <1>1. /\ running # <<>> /\ Head(running) = x /\ running' = run
        /\ UNCHANGED <<box, inDocument, made, attached, size, dirty, hiddenCheck, polling,
                       at, events, lost, raf>>
        /\ rafId' = [rafId EXCEPT ![s] = FALSE]
        /\ last' = IF dirty[s] THEN [last EXCEPT ![s] = size[s]] ELSE last
    BY DEF OnResized, Runs, element, queues, scrolling
  <1>2. Types /\ OffsetsTell
    BY DEF SensorInv
  <1>3. \A y, b : Alone(raf, running, y, b) => Alone(raf, run, y, b /\ x # y)
    BY SMTT(30), Z3T(30), <1>1, <1>2, RunFrame
  <1>4. \A y : Has(running, y) <=> x = y \/ Has(run, y)
    BY SMTT(30), Z3T(30), <1>1, <1>2, TailFrame DEF Types
  <1>5. run \in Seq(Callback)
    BY <1>1, <1>2, TailFrame DEF Types
  <1>6. \A t \in Sensors : \A g \in {"reset", "poll", "onResized"} :
          x = Frame(g, t) <=> g = "onResized" /\ t = s
    BY DEF Frame
  <1> HIDE DEF run, x
  <1>7. Types'
    <2>1. last' \in [Sensors -> Sizes \cup {0}] /\ rafId' \in [Sensors -> BOOLEAN]
      BY <1>1, <1>2 DEF Types
    <2> QED
      BY <1>1, <1>2, <1>5, <2>1 DEF Types
  <1>8. FlagsCount'
    <2> SUFFICES ASSUME NEW t \in Sensors
                 PROVE  /\ Alone(raf, run, Frame("poll", t), polling[t])
                        /\ Alone(raf, run, Frame("onResized", t), rafId'[t])
      BY <1>1 DEF FlagsCount
    <2>1. /\ Alone(raf, running, Frame("poll", t), polling[t])
          /\ Alone(raf, running, Frame("onResized", t), rafId[t])
      BY DEF SensorInv, FlagsCount
    <2>2. /\ Alone(raf, run, Frame("poll", t), polling[t] /\ x # Frame("poll", t))
          /\ Alone(raf, run, Frame("onResized", t), rafId[t] /\ x # Frame("onResized", t))
      BY SMTT(30), Z3T(30), <1>3, <2>1
    <2>3. x # Frame("poll", t) /\ rafId'[t] = (rafId[t] /\ x # Frame("onResized", t))
      BY <1>1, <1>2, <1>6 DEF Types
    <2> QED
      BY <2>2, <2>3 DEF Alone
  <1>9. Looks'
    <2>1. \A t \in 1 .. made : t \in Sensors
      BY SMTT(30), Z3T(30), <1>2, SensorAssumption DEF Types, Sensors
    <2> QED
      BY <1>1, <1>4, <1>6, <2>1 DEF SensorInv, Looks
  <1>10. Unmade'
    BY <1>1, <1>4 DEF SensorInv, Unmade
  <1>11. OffsetsTell'
    <2>1. attached # 0 => attached \in Sensors
      BY Made
    <2>2. \A t \in Sensors : /\ rafId'[t] = (rafId[t] /\ t # s)
                             /\ last'[t] = IF dirty[s] /\ t = s THEN size[s] ELSE last[t]
      BY <1>1, <1>2 DEF Types
    <2> QED
      BY <1>1, <1>2, <2>1, <2>2 DEF OffsetsTell
  <1> QED
    BY <1>7, <1>8, <1>9, <1>10, <1>11 DEF SensorInv

LEMMA StartFrameStep ==
    ASSUME SensorInv, StartFrame
    PROVE  SensorInv'
  <1>1. /\ running = <<>> /\ running' = raf /\ raf' = <<>>
        /\ UNCHANGED <<box, inDocument, made, attached, size, last, dirty, rafId, hiddenCheck,
                       polling, at, events, lost>>
    BY DEF StartFrame, element, locals, scrolling, queues
  <1>2. \A y : /\ ~Has(running, y) /\ ~Has(raf', y) /\ One(raf', y)
               /\ Has(running', y) <=> Has(raf, y)
               /\ One(running', y) <=> One(raf, y)
    BY <1>1, NoFrame
  <1>3. Types'
    BY <1>1, NoFrame DEF SensorInv, Types
  <1>4. FlagsCount'
    BY <1>1, <1>2 DEF SensorInv, FlagsCount, Alone
  <1>5. Looks'
    BY <1>1, <1>2 DEF SensorInv, Looks
  <1>6. Unmade'
    BY <1>1, <1>2 DEF SensorInv, Unmade
  <1>7. OffsetsTell'
    BY <1>1 DEF SensorInv, OffsetsTell
  <1> QED
    BY <1>3, <1>4, <1>5, <1>6, <1>7 DEF SensorInv

\* Steps that leave the frames and what counts them: only the offsets, the
\* events and the size matter.
LEMMA SameFrames ==
    ASSUME SensorInv, UNCHANGED <<made, size, last, dirty, rafId, hiddenCheck, polling, raf, running>>,
           box' \in Sizes \cup {0}, lost' \in BOOLEAN, inDocument' \/ box' = 0,
           attached' \in 0 .. made, at' \in [Sensors -> Sizes \cup {0}],
           events' \subseteq events \cup ({attached} \ {0}), OffsetsTell'
    PROVE  SensorInv'
  <1>1. \A t \in Sensors : t > made => t # attached
    BY SMTT(30), Z3T(30) DEF SensorInv, Types, Sensors
  <1>2. attached # 0 => attached \in Sensors
    BY SMTT(30), Z3T(30), SensorAssumption DEF SensorInv, Types, Sensors
  <1>3. Types'
    BY <1>2 DEF SensorInv, Types
  <1>4. FlagsCount' /\ Looks'
    BY DEF SensorInv, FlagsCount, Looks
  <1>5. Unmade'
    BY <1>1 DEF SensorInv, Unmade
  <1> QED
    BY <1>3, <1>4, <1>5 DEF SensorInv

LEMMA EnvironmentStep ==
    ASSUME SensorInv, Environment
    PROVE  SensorInv'
  <1>1. attached # 0 => attached \in Sensors
    BY SMTT(30), Z3T(30), SensorAssumption DEF SensorInv, Types, Sensors
  <1>2. Types /\ OffsetsTell
    BY DEF SensorInv
  <1>3. ASSUME NEW b, Changing(b)
        PROVE  /\ box' = b /\ lost' = (lost \/ b = 0)
               /\ UNCHANGED <<made, attached, size, last, dirty, rafId, hiddenCheck, polling,
                              raf, running>>
    BY <1>3 DEF Changing, locals, queues
  <1>4. ASSUME NEW b \in Sizes, Resize(b) PROVE SensorInv'
    <2>1. /\ Changing(b) /\ box # 0 /\ b # 0 /\ UNCHANGED <<inDocument, at>>
          /\ events' = events \cup {s \in {attached} \ {0} : at[s] # 0}
      BY <1>4 DEF Resize
    <2>2. OffsetsTell'
      BY <1>1, <1>2, <1>3, <2>1 DEF OffsetsTell
    <2>3. box' \in Sizes \cup {0} /\ lost' \in BOOLEAN /\ inDocument' /\ attached' \in 0 .. made
      BY SMTT(30), Z3T(30), <1>2, <1>3, <2>1 DEF Types
    <2> QED
      BY <1>2, <1>3, <2>1, <2>2, <2>3, SameFrames DEF Types
  <1>5. ASSUME NEW b \in Sizes, Show(b) PROVE SensorInv'
    <2>1. /\ Changing(b) /\ box = 0 /\ b # 0 /\ inDocument /\ UNCHANGED <<inDocument, at>>
          /\ events' = events \cup {s \in {attached} \ {0} : at[s] \notin {0, b}}
      BY <1>5 DEF Show
    <2>2. OffsetsTell'
      BY <1>1, <1>2, <1>3, <2>1 DEF OffsetsTell
    <2>3. box' \in Sizes \cup {0} /\ lost' \in BOOLEAN /\ inDocument' /\ attached' \in 0 .. made
      BY SMTT(30), Z3T(30), <1>2, <1>3, <2>1 DEF Types
    <2> QED
      BY <1>2, <1>3, <2>1, <2>2, <2>3, SameFrames DEF Types
  <1>6. ASSUME NEW removed, NEW keep, Hide(removed, keep) PROVE SensorInv'
    <2>1. /\ Changing(0) /\ UNCHANGED events
          /\ at' = IF keep THEN at ELSE [s \in Sensors |-> 0]
      BY <1>6 DEF Hide
    <2>2. OffsetsTell'
      BY <1>1, <1>2, <1>3, <2>1 DEF OffsetsTell
    <2>3. /\ box' = 0 /\ lost' \in BOOLEAN /\ attached' \in 0 .. made
          /\ at' \in [Sensors -> Sizes \cup {0}]
      BY <1>2, <1>3, <2>1 DEF Types
    <2> QED
      BY <1>3, <2>1, <2>2, <2>3, SameFrames
  <1>7. ASSUME NEW b \in Sizes \cup {0}, NEW alone, Insert(b, alone) PROVE SensorInv'
    <2>1. Changing(b) /\ ~inDocument /\ inDocument' /\ UNCHANGED <<at, events>>
      BY <1>7 DEF Insert
    <2>2. OffsetsTell'
      BY <1>1, <1>2, <1>3, <2>1 DEF OffsetsTell, Types
    <2>3. box' \in Sizes \cup {0} /\ lost' \in BOOLEAN /\ attached' \in 0 .. made
      <3>1. box' = b /\ lost' = (lost \/ b = 0) /\ attached' = attached
        BY <1>3, <2>1
      <3> QED
        BY <1>2, <3>1 DEF Types
    <2> QED
      BY <1>2, <1>3, <2>1, <2>2, <2>3, SameFrames DEF Types
  <1> QED
    BY <1>4, <1>5, <1>6, <1>7 DEF Environment

\* new ResizeSensor on an element without one.
LEMMA AttachStep ==
    ASSUME SensorInv, NEW l, Attach(l), attached = 0
    PROVE  SensorInv'
  <1> DEFINE x == Frame("reset", made + 1)
  <1>1. /\ made < MaxSensors /\ made' = made + 1 /\ attached' = made + 1
        /\ size' = [size EXCEPT ![made + 1] = box] /\ last' = [last EXCEPT ![made + 1] = box]
        /\ raf' = Append(raf, x) /\ lost' = FALSE
        /\ UNCHANGED <<box, inDocument, dirty, rafId, hiddenCheck, polling, at, events, running>>
    BY DEF Attach, element
  <1>2. /\ Types /\ made + 1 \in Sensors /\ made \in Nat
        /\ made + 1 \in 0 .. MaxSensors /\ made + 1 \in 0 .. made + 1
    BY SMTT(30), Z3T(30), <1>1, SensorAssumption DEF SensorInv, Types, Sensors
  <1>3. x \in Callback
    BY <1>2, FrameFacts
  <1>4. \A y : /\ raf' \in Seq(Callback)
               /\ Has(raf', y) <=> Has(raf, y) \/ x = y
               /\ One(raf, y) /\ (x = y => ~Has(raf, y)) => One(raf', y)
    BY SMTT(30), Z3T(30), <1>1, <1>2, <1>3, AppendFrame DEF Types
  <1>5. \A t : \A g \in {"reset", "poll", "onResized"} :
          x = Frame(g, t) <=> g = "reset" /\ t = made + 1
    BY DEF Frame
  <1> HIDE DEF x
  <1>6. hiddenCheck[made + 1]
    BY SMTT(30), Z3T(30), <1>2 DEF SensorInv, Unmade
  <1>7. Types'
    BY <1>1, <1>2, <1>4 DEF Types
  <1>8. FlagsCount'
    BY <1>1, <1>4, <1>5 DEF SensorInv, FlagsCount, Alone
  <1>9. Looks'
    <2>1. \A t \in 1 .. made + 1 : t \in 1 .. made \/ t = made + 1
      BY SMTT(30), Z3T(30), <1>2
    <2> QED
      BY <1>1, <1>4, <2>1 DEF SensorInv, Looks, x
  <1>10. Unmade'
    <2>1. \A t \in Sensors : t > made + 1 => t > made /\ t # made + 1
      BY SMTT(30), Z3T(30), <1>2 DEF Sensors
    <2> QED
      BY <1>1, <1>4, <1>5, <2>1 DEF SensorInv, Unmade
  <1>11. OffsetsTell'
    BY <1>1, <1>6 DEF SensorInv, OffsetsTell
  <1> QED
    BY <1>7, <1>8, <1>9, <1>10, <1>11 DEF SensorInv

\* The sensor goes.
LEMMA DropStep ==
    ASSUME SensorInv, attached # 0, Dropping,
           UNCHANGED <<box, inDocument, made, events, size, last, dirty, rafId, hiddenCheck, polling,
                       raf, running>>
    PROVE  SensorInv'
  <1>1. attached' = 0 /\ at' = [at EXCEPT ![attached] = 0] /\ lost' = FALSE
    BY DEF Dropping
  <1>2. /\ Types /\ OffsetsTell /\ attached \in Sensors /\ 0 \in 0 .. made
    BY SMTT(30), Z3T(30), SensorAssumption DEF SensorInv, Types, Sensors
  <1>3. OffsetsTell'
    BY <1>1, <1>2 DEF OffsetsTell, Types
  <1>4. at' \in [Sensors -> Sizes \cup {0}]
    BY <1>1, <1>2 DEF Types
  <1>5. box' \in Sizes \cup {0} /\ (inDocument' \/ box' = 0)
    BY <1>2 DEF Types
  <1> QED
    BY <1>1, <1>2, <1>3, <1>4, <1>5, SameFrames

\* A reset by a script, or by the mutation observer.
LEMMA ResetAttachedStep ==
    ASSUME SensorInv, attached # 0, Reset(attached, events, raf, polling),
           UNCHANGED <<box, inDocument, made, attached, size, last, dirty, rafId, running>>
    PROVE  SensorInv'
  <1>1. /\ Types /\ OffsetsTell /\ attached \in Sensors /\ attached =< made
        /\ raf \in Seq(Callback) /\ polling \in [Sensors -> BOOLEAN] /\ events \in SUBSET Sensors
    BY SMTT(30), Z3T(30), SensorAssumption DEF SensorInv, Types, Sensors
  <1>2. OffsetsTell'
    BY <1>1, ResetOffsets
  <1>3. /\ size' \in [Sensors -> Sizes \cup {0}] /\ last' \in [Sensors -> Sizes \cup {0}]
        /\ dirty' \in [Sensors -> BOOLEAN] /\ rafId' \in [Sensors -> BOOLEAN]
        /\ running' \in Seq(Callback)
    BY <1>1 DEF Types
  <1>4. \A t \in Sensors : /\ Alone(raf, running', Frame("poll", t), polling[t])
                           /\ Alone(raf, running', Frame("onResized", t), rafId'[t])
    BY DEF SensorInv, FlagsCount
  <1>5. \A t \in Sensors : t > made => \A f \in {"reset", "poll", "onResized"} :
          ~Has(raf, Frame(f, t)) /\ ~Has(running', Frame(f, t))
    BY DEF SensorInv, Unmade
  <1> QED
    BY <1>1, <1>2, <1>3, <1>4, <1>5, ResetStep

LEMMA SameInv ==
    ASSUME SensorInv,
           UNCHANGED <<box, inDocument, made, attached, size, last, dirty, rafId, hiddenCheck,
                       polling, at, events, lost, raf, running>>
    PROVE  SensorInv'
  BY SMTT(30), Z3T(30) DEF SensorInv, Types, FlagsCount, Looks, Unmade, OffsetsTell

LEMMA SensorInvStep == SensorInv /\ [Next]_vars => SensorInv'
  <1> SUFFICES ASSUME SensorInv, [Next]_vars PROVE SensorInv'
    OBVIOUS
  <1>1. CASE Environment
    BY <1>1, EnvironmentStep
  <1>2. CASE \E s \in Sensors : OnScroll(s)
    BY <1>2, OnScrollStep
  <1>3. CASE StartFrame
    BY <1>3, StartFrameStep
  <1>4. CASE Frames
    BY <1>4, FrameResetStep, OnResizedStep DEF Frames
  <1>5. CASE Listen \/ Return \/ Throw \/ EndCall
    BY <1>5, SameInv DEF Listen, Return, Throw, EndCall, element, locals, scrolling, queues
  <1>6. ASSUME NEW l \in Listeners, Attach(l) PROVE SensorInv'
    <2>1. CASE attached # 0
      BY <1>6, <2>1, SameInv DEF Attach, element
    <2> QED
      BY <1>6, <2>1, AttachStep
  <1>7. ASSUME NEW l \in Listeners, Detach(l) PROVE SensorInv'
    <2>1. /\ attached # 0
          /\ Dropping \/ UNCHANGED <<attached, at, lost>>
          /\ UNCHANGED <<box, inDocument, made, events, size, last, dirty, rafId, hiddenCheck,
                         polling, raf, running>>
      BY <1>7 DEF Detach, element, locals
    <2>2. CASE Dropping
      BY <2>1, <2>2, DropStep
    <2>3. CASE UNCHANGED <<attached, at, lost>>
      BY <2>1, <2>3, SameInv
    <2> QED
      BY <2>1, <2>2, <2>3
  <1>8. CASE DetachAll
    BY <1>8, DropStep DEF DetachAll, element, locals
  <1>9. CASE ResetSensor
    BY <1>9, ResetAttachedStep DEF ResetSensor, element, queues
  <1>10. CASE Observe
    <2>1. CASE attached # 0
      BY <1>10, <2>1, ResetAttachedStep DEF Observe, element, queues
    <2>2. CASE attached = 0
      BY <1>10, <2>2, SameInv DEF Observe, element, queues, scrolling
    <2> QED
      BY <2>1, <2>2
  <1>11. CASE UNCHANGED vars
    BY <1>11, SameInv DEF vars, element, locals, scrolling, queues
  <1> QED
    BY <1>1, <1>2, <1>3, <1>4, <1>5, <1>6, <1>7, <1>8, <1>9, <1>10, <1>11 DEF Next

-----------------------------------------------------------------------------
(***************************************************************************)
(* What follows.                                                           *)
(***************************************************************************)
LEMMA SensorInvariant == SafeSpec => []SensorInv
  BY InitInv, SensorInvStep, PTL DEF SafeSpec

LEMMA Sought ==
    ASSUME NEW f, NEW s
    PROVE  /\ Pending(f, s) # {} <=> Has(raf, Frame(f, s))
           /\ Current(f, s) # {} <=> Has(running, Frame(f, s))
           /\ Pending(f, s) \cup Current(f, s) # {} <=>
                Has(raf, Frame(f, s)) \/ Has(running, Frame(f, s))
           /\ One(raf, Frame(f, s)) => \A i, j \in Pending(f, s) : i = j
           /\ One(running, Frame(f, s)) => \A i, j \in Current(f, s) : i = j
  BY DEF Pending, Current, Has, One

\* At most one call of onResized of a sensor is left at any time, so that a
\* frame calls its listeners once, whatever order events and frames come in.
THEOREM CallsLimited == SafeSpec => []OneCallPerFrame
  <1>1. SensorInv => OneCallPerFrame
    BY Sought DEF SensorInv, FlagsCount, Alone, OneCallPerFrame
  <1> QED
    BY <1>1, SensorInvariant, PTL

\* The look at a hidden element is asked for once at a time, and a sensor that
\* was made while the element was hidden goes on looking, attached or not.
THEOREM LooksGoOn == SafeSpec => []PollingGoesOn
  <1>1. ASSUME SensorInv PROVE PollingGoesOn
    <2> SUFFICES ASSUME NEW s \in Sensors
                 PROVE  /\ polling[s] <=> (Pending("poll", s) \cup Current("poll", s)) # {}
                        /\ s <= made /\ hiddenCheck[s] =>
                             \E f \in {"reset", "poll"} : (Pending(f, s) \cup Current(f, s)) # {}
      BY DEF PollingGoesOn
    <2>1. polling[s] <=> (Pending("poll", s) \cup Current("poll", s)) # {}
      BY <1>1, Sought DEF SensorInv, FlagsCount, Alone
    <2>2. s <= made => s \in 1 .. made
      BY SMTT(30), Z3T(30), <1>1 DEF SensorInv, Types, Sensors
    <2>3. s <= made /\ hiddenCheck[s] =>
            polling[s] \/ Has(raf, Frame("reset", s)) \/ Has(running, Frame("reset", s))
      BY <1>1, <2>2 DEF SensorInv, Looks
    <2> QED
      BY <2>1, <2>3, Sought
  <1> QED
    BY <1>1, SensorInvariant, PTL

\* When nothing of the sensor is under way and it can hear the element, its
\* listeners were called for the size the element has.
THEOREM ResizesNoticed == SafeSpec => []NoMissedResize
  <1>1. ASSUME SensorInv PROVE NoMissedResize
    <2> SUFFICES ASSUME attached # 0, box # 0, Heard, Quiet(attached)
                 PROVE  last[attached] = box
      BY DEF NoMissedResize
    <2>1. attached \in Sensors /\ attached \in 1 .. made
      BY SMTT(30), Z3T(30), <1>1, SensorAssumption DEF SensorInv, Types, Sensors
    <2>2. /\ attached \notin events
          /\ \A f \in {"reset", "poll", "onResized"} :
               ~Has(raf, Frame(f, attached)) /\ ~Has(running, Frame(f, attached))
      BY Sought DEF Quiet
    <2>3. ~polling[attached] /\ ~rafId[attached]
      BY <1>1, <2>1, <2>2 DEF SensorInv, FlagsCount, Alone
    <2>4. ~hiddenCheck[attached]
      BY <1>1, <2>1, <2>2, <2>3 DEF SensorInv, Looks
    <2>5. ~lost
      BY <2>4 DEF Heard
    <2> QED
      BY <1>1, <2>2, <2>3, <2>4, <2>5 DEF SensorInv, OffsetsTell
  <1> QED
    BY <1>1, SensorInvariant, PTL

-----------------------------------------------------------------------------
(***************************************************************************)
(* The steps of the sensor are steps of the watch.                         *)
(***************************************************************************)
LEMMA WatchChanges ==
    ASSUME SensorInv, SensorInv', attached' = attached,
           attached # 0 => size'[attached] = size[attached] /\ last'[attached] = last[attached]
    PROVE  Watch!Next
  <1>1. box' \in Sizes \cup {0}
    BY DEF SensorInv, Types
  <1>2. Heard' \in BOOLEAN
    BY DEF Heard
  <1>3. Watch!Change
    BY <1>1, <1>2 DEF Watch!Change
  <1> QED
    BY <1>3 DEF Watch!Next

LEMMA ScrollMeasures ==
    ASSUME SensorInv, SensorInv', NEW s \in Sensors, OnScroll(s)
    PROVE  Watch!Next
  <1>1. /\ attached' = attached /\ size' = [size EXCEPT ![s] = box] /\ last' = last /\ box' = box
        /\ size \in [Sensors -> Sizes \cup {0}]
        /\ hiddenCheck \in [Sensors -> BOOLEAN] /\ lost \in BOOLEAN
    BY DEF OnScroll, queues, element, SensorInv, Types
  <1>2. CASE s # attached
    <2>1. attached # 0 => size'[attached] = size[attached] /\ last'[attached] = last[attached]
      BY SMTT(30), Z3T(30), <1>1, <1>2
    <2> QED
      BY <1>1, <2>1, WatchChanges
  <1>3. CASE s = attached
    <2>1. attached # 0 /\ size'[attached] = box /\ last'[attached] = last[attached]
      BY SMTT(30), Z3T(30), <1>1, <1>3, SensorAssumption DEF Sensors
    <2>2. Heard' \in {Heard, TRUE}
      <3>1. \/ hiddenCheck'[s] = hiddenCheck[s] /\ lost' = lost
            \/ /\ ~hiddenCheck'[s] /\ ~(hiddenCheck[s] /\ box = 0)
               /\ lost' = (lost /\ box = 0)
        BY <1>1, <1>3 DEF OnScroll, Reset
      <3>2. (Heard' <=> Heard) \/ Heard'
        BY <1>1, <1>3, <2>1, <3>1 DEF Heard
      <3>3. Heard \in BOOLEAN /\ Heard' \in BOOLEAN
        BY DEF Heard
      <3> QED
        BY <3>2, <3>3
    <2>3. Watch!Measure
      BY <1>1, <2>1, <2>2 DEF Watch!Measure
    <2> QED
      BY <2>3 DEF Watch!Next
  <1> QED
    BY <1>2, <1>3

LEMMA FrameReports ==
    ASSUME SensorInv, SensorInv', NEW s \in Sensors, OnResized(s)
    PROVE  Watch!Next
  <1>1. /\ UNCHANGED <<attached, size, box, hiddenCheck, lost>>
        /\ last' = IF dirty[s] THEN [last EXCEPT ![s] = size[s]] ELSE last
        /\ last \in [Sensors -> Sizes \cup {0}]
    BY DEF OnResized, Runs, queues, element, scrolling, SensorInv, Types
  <1>2. CASE s # attached \/ ~dirty[s]
    <2>1. attached # 0 => size'[attached] = size[attached] /\ last'[attached] = last[attached]
      BY SMTT(30), Z3T(30), <1>1, <1>2
    <2> QED
      BY <1>1, <2>1, WatchChanges
  <1>3. CASE s = attached /\ dirty[s]
    <2>1. attached # 0 /\ last'[attached] = size[attached] /\ size'[attached] = size[attached]
      BY SMTT(30), Z3T(30), <1>1, <1>3, SensorAssumption DEF Sensors
    <2>2. Heard' = Heard
      BY <1>1 DEF Heard
    <2>3. Watch!Report
      BY <1>1, <2>1, <2>2 DEF Watch!Report
    <2> QED
      BY <2>3 DEF Watch!Next
  <1> QED
    BY <1>2, <1>3

LEMMA AttachStarts ==
    ASSUME SensorInv, NEW l, Attach(l), attached = 0
    PROVE  Watch!Next
  <1>1. /\ attached' = made + 1 /\ made + 1 \in Sensors /\ made + 1 # 0 /\ box' = box
        /\ size' = [size EXCEPT ![made + 1] = box] /\ last' = [last EXCEPT ![made + 1] = box]
        /\ hiddenCheck' = hiddenCheck
        /\ size \in [Sensors -> Sizes \cup {0}] /\ last \in [Sensors -> Sizes \cup {0}]
    BY SMTT(30), Z3T(30), SensorAssumption DEF Attach, element, SensorInv, Types, Sensors
  <1>2. hiddenCheck[made + 1]
    BY SMTT(30), Z3T(30), <1>1 DEF SensorInv, Types, Unmade
  <1>3. Heard' = TRUE
    BY <1>1, <1>2 DEF Heard
  <1>4. size'[attached'] = box /\ last'[attached'] = box
    BY <1>1
  <1>5. Watch!Start
    BY <1>1, <1>3, <1>4 DEF Watch!Start
  <1> QED
    BY <1>5 DEF Watch!Next

LEMMA DropStops ==
    ASSUME attached # 0, Dropping, box' = box
    PROVE  Watch!Next
  <1>1. attached' = 0 /\ Heard' = TRUE
    BY DEF Dropping, Heard
  <1>2. Watch!Stop
    BY <1>1 DEF Watch!Stop
  <1> QED
    BY <1>2 DEF Watch!Next

LEMMA StepsWatch == SensorInv /\ SensorInv' /\ [Next]_vars => [Watch!Next]_(Watch!vars)
  <1> SUFFICES ASSUME SensorInv, SensorInv', [Next]_vars
               PROVE  Watch!Next \/ UNCHANGED Watch!vars
    OBVIOUS
  <1>1. CASE UNCHANGED <<attached, size, last>>
    BY <1>1, WatchChanges
  <1>2. CASE \E s \in Sensors : OnScroll(s)
    BY <1>2, ScrollMeasures
  <1>3. CASE Frames
    <2>1. ASSUME NEW s \in Sensors, FrameReset(s) \/ FramePoll(s)
          PROVE  UNCHANGED <<attached, size, last>>
      BY <2>1 DEF FrameReset, FramePoll, Runs, queues
    <2> QED
      BY <1>1, <1>3, <2>1, FrameReports DEF Frames
  <1>4. ASSUME NEW l \in Listeners, Attach(l) PROVE Watch!Next
    <2>1. CASE attached # 0
      BY <1>4, <2>1, WatchChanges DEF Attach
    <2> QED
      BY <1>4, <2>1, AttachStarts
  <1>5. CASE DetachAll \/ \E l \in Listeners : Detach(l)
    <2>1. /\ attached # 0 /\ box' = box /\ UNCHANGED <<size, last>>
          /\ Dropping \/ UNCHANGED attached
      BY <1>5 DEF DetachAll, Detach, element, locals
    <2> QED
      BY <1>1, <2>1, DropStops
  <1>6. CASE \/ Environment \/ StartFrame \/ ResetSensor \/ Observe
             \/ Listen \/ Return \/ Throw \/ EndCall
    <2>1. UNCHANGED <<attached, size, last>>
      BY <1>6 DEF Environment, Resize, Show, Hide, Insert, Changing, StartFrame, Listen, Return,
                  Throw, EndCall, ResetSensor, Observe, locals, queues
    <2> QED
      BY <1>1, <2>1
  <1>7. CASE UNCHANGED vars
    BY <1>1, <1>7 DEF vars, locals, queues
  <1> QED
    BY <1>2, <1>3, <1>4, <1>5, <1>6, <1>7 DEF Next

\* The sensor, as it starts and steps, is a watch on the size: what it takes for
\* known was measured, and only the sensor of the element reports.
THEOREM SensorWatches == SafeSpec => Watch!SafeSpec
  <1>1. Init => Watch!Init
    <2> SUFFICES ASSUME Init PROVE Watch!Init
      OBVIOUS
    <2>1. attached = 0 /\ box \in Sizes \cup {0}
      BY DEF Init
    <2>2. Heard = TRUE
      BY <2>1 DEF Heard
    <2> QED
      BY <2>1, <2>2 DEF Watch!Init
  <1> QED
    BY <1>1, StepsWatch, SensorInvariant, PTL DEF SafeSpec, Watch!SafeSpec

-----------------------------------------------------------------------------
(***************************************************************************)
(* The loop of EventQueue.call.  What a script does in a listener that is  *)
(* called leaves the part of the queue the loop runs over alone, unless it *)
(* removes a listener of that queue.                                       *)
(***************************************************************************)
\* A set of natural numbers has a least element.  This is what induction over
\* numbers rests on here.
LEMMA LeastNatural ==
    ASSUME NEW S, S \subseteq Nat, S # {}
    PROVE  \E m \in S : \A k \in S : m =< k
  <1>1. IsWellFoundedOn(OpToRel(<, Nat), Nat)
    BY ZenonT(30), NatLessThanWellFounded
  <1>2. PICK m \in S : \A k \in S : ~(<<k, m>> \in OpToRel(<, Nat))
    BY ONLY Zenon, <1>1, S \subseteq Nat, S # {}, WFMin
  <1>3. \A k \in S : ~(k < m)
    BY ZenonT(30), <1>2 DEF OpToRel
  <1> QED
    BY SMTT(30), Z3T(30), <1>3

\* What holds of the first value of a function, and of each if of the one before,
\* holds of all.
LEMMA Inductively ==
    ASSUME NEW n \in Nat, NEW f, NEW Good, f[0] \in Good,
           \A k \in 1 .. n : f[k - 1] \in Good => f[k] \in Good
    PROVE  \A k \in 0 .. n : f[k] \in Good
  <1> DEFINE S == {k \in 0 .. n : f[k] \notin Good}
  <1> SUFFICES ASSUME S # {} PROVE FALSE
    OBVIOUS
  <1>1. S \subseteq Nat
    BY SMTT(30), Z3T(30)
  <1> HIDE DEF S
  <1>2. PICK m \in S : \A k \in S : m =< k
    BY <1>1, LeastNatural
  <1>3. m \in 0 .. n /\ f[m] \notin Good
    BY <1>2 DEF S
  <1>4. m \in 1 .. n /\ m - 1 \in 0 .. n /\ ~(m =< m - 1)
    BY SMTT(30), Z3T(30), <1>3
  <1>5. f[m - 1] \in Good
    BY <1>2, <1>4 DEF S
  <1> QED
    BY <1>3, <1>4, <1>5

\* A function may be defined by recursion from its first value.
StepsOn(n, D) == [1 .. n -> [D -> D]]
RunOf(g, n, D, start, step) ==
    g \in [0 .. n -> D] /\ g[0] = start /\ \A k \in 1 .. n : g[k] = step[k][g[k - 1]]

LEMMA Recursively ==
    ASSUME NEW n \in Nat, NEW D, NEW start \in D, NEW step \in StepsOn(n, D)
    PROVE  \E g : RunOf(g, n, D, start, step)
  <1> DEFINE To(m, g) == /\ g \in [0 .. m -> D] /\ g[0] = start
                         /\ \A k \in 1 .. m : g[k] = step[k][g[k - 1]]
             S == {m \in 0 .. n : ~\E g : To(m, g)}
  <1>0. step \in [1 .. n -> [D -> D]]
    BY DEF StepsOn
  <1> SUFFICES ASSUME S # {} PROVE FALSE
    <2>1. n \in 0 .. n
      BY SMTT(30), Z3T(30)
    <2> QED
      BY <2>1 DEF RunOf
  <1>1. S \subseteq Nat
    BY SMTT(30), Z3T(30)
  <1> HIDE DEF S
  <1>2. PICK m \in S : \A k \in S : m =< k
    BY <1>1, LeastNatural
  <1>3. m \in 0 .. n /\ ~\E g : To(m, g)
    BY <1>2 DEF S
  <1>4. CASE m = 0
    <2>1. To(0, [k \in 0 .. 0 |-> start])
      BY SMTT(30), Z3T(30)
    <2> QED
      BY <1>3, <1>4, <2>1
  <1>5. CASE m # 0
    <2>1. m \in 1 .. n /\ m - 1 \in 0 .. n /\ ~(m =< m - 1) /\ m \in Nat
      BY SMTT(30), Z3T(30), <1>3, <1>5
    <2>2. PICK g : To(m - 1, g)
      BY <1>2, <2>1 DEF S
    <2> DEFINE h == [k \in 0 .. m |-> IF k = m THEN step[m][g[m - 1]] ELSE g[k]]
    <2>3. g[m - 1] \in D /\ step[m][g[m - 1]] \in D
      BY SMTT(30), Z3T(30), <1>0, <2>1, <2>2
    <2>4. h \in [0 .. m -> D] /\ h[0] = start
      BY SMTT(30), Z3T(30), <2>1, <2>2, <2>3, <1>5
    <2>5. ASSUME NEW k \in 1 .. m PROVE h[k] = step[k][h[k - 1]]
      BY SMTT(30), Z3T(30), <2>1, <2>2
    <2>6. To(m, h)
      BY <2>4, <2>5
    <2> QED
      BY <1>3, <2>6
  <1> QED
    BY <1>4, <1>5

\* remove makes a queue of listeners.
LEMMA RemoveType ==
    ASSUME NEW queue \in Seq(Listeners), NEW l PROVE Remove(queue, l) \in Seq(Listeners)
  <1> DEFINE n == Len(queue)
             D == Seq(Listeners)
             step == [k \in 1 .. n |-> [t \in D |-> IF queue[k] = l THEN t ELSE Append(t, queue[k])]]
             Def(g) == g = [k \in 0 .. n |-> IF k = 0 THEN <<>>
                             ELSE IF queue[k] = l THEN g[k - 1] ELSE Append(g[k - 1], queue[k])]
             f == CHOOSE g : Def(g)
  <1>1. n \in Nat /\ <<>> \in D /\ n \in 0 .. n
    BY SMTT(30), Z3T(30)
  <1>2. step \in [1 .. n -> [D -> D]]
    <2>1. \A k \in 1 .. n : \A t \in D : Append(t, queue[k]) \in D
      BY SMTT(30), Z3T(30)
    <2> HIDE DEF D
    <2> QED
      BY <2>1
  <1>3. PICK g \in [0 .. n -> D] : g[0] = <<>> /\ \A k \in 1 .. n : g[k] = step[k][g[k - 1]]
    <2> HIDE DEF step, D, n
    <2>1. PICK empty \in D : empty = <<>>
      BY <1>1
    <2>2. n \in Nat /\ step \in StepsOn(n, D)
      BY <1>1, <1>2 DEF StepsOn
    <2>3. \E g : RunOf(g, n, D, empty, step)
      BY <2>2, Recursively
    <2> QED
      BY <2>1, <2>3 DEF RunOf
  <1>4. Def(g)
    <2>1. \A k \in 0 .. n : k = 0 \/ (k \in 1 .. n /\ k - 1 \in 0 .. n)
      BY SMTT(30), Z3T(30), <1>1
    <2>2. \A k \in 1 .. n : g[k - 1] \in D => g[k] = IF queue[k] = l THEN g[k - 1] ELSE Append(g[k - 1], queue[k])
      BY <1>3
    <2>3. ASSUME NEW k \in 0 .. n
          PROVE  g[k] = IF k = 0 THEN <<>>
                        ELSE IF queue[k] = l THEN g[k - 1] ELSE Append(g[k - 1], queue[k])
      <3> HIDE DEF step, D, n
      <3> QED
        BY <1>3, <2>1, <2>2
    <2> HIDE DEF step, D, n
    <2> QED
      BY <1>3, <2>3
  <1>5. Def(f)
    BY <1>4
  <1>6. f[0] \in D
    <2>1. 0 \in 0 .. n
      BY SMTT(30), Z3T(30), <1>1
    <2> HIDE DEF f, n
    <2> QED
      BY <1>1, <1>5, <2>1
  <1>7. ASSUME NEW k \in 1 .. n, f[k - 1] \in D PROVE f[k] \in D
    <2>1. k \in 0 .. n /\ k # 0 /\ Append(f[k - 1], queue[k]) \in D
      <3> HIDE DEF f
      <3> QED
        BY SMTT(30), Z3T(30), <1>1, <1>7
    <2> HIDE DEF f, n, D
    <2> QED
      BY <1>5, <1>7, <2>1
  <1>8. \A k \in 0 .. n : f[k] \in D
    <2> HIDE DEF f, n, D
    <2> QED
      BY <1>1, <1>6, <1>7, Inductively
  <1> QED
    BY <1>1, <1>8 DEF Remove

CallType == [q : Nat, i : Nat, j : Nat, inside : BOOLEAN, removed : BOOLEAN,
             due : SUBSET Listeners, reached : SUBSET Listeners]

\* A loop over queue that no removal has disturbed: what is due are the first j
\* listeners, and the first i of them are reached, or one more in a call.
InOrder(c, queue) ==
    /\ c.i =< c.j /\ c.j =< Len(queue)
    /\ c.due \subseteq {queue[m] : m \in 1 .. c.j}
    /\ {queue[m] : m \in 1 .. c.i} \subseteq c.reached
    /\ c.inside => c.i < c.j /\ queue[c.i + 1] \in c.reached

\* After a removal the loop is at its end.
Looping(c, queue) == (~c.removed => InOrder(c, queue)) /\ (c.removed => c.j =< c.i)

CallOK ==
    /\ q \in [Sensors -> Seq(Listeners)] /\ call \in CallType
    /\ call # NoCall => call.q \in 1 .. made /\ Looping(call, q[call.q])

LEMMA CallBegins ==
    ASSUME NEW queue \in Seq(Listeners), NEW a \in Nat, NEW c,
           c = [q |-> a, i |-> 0, j |-> Len(queue), inside |-> FALSE, removed |-> FALSE,
                due |-> {queue[n] : n \in DOMAIN queue}, reached |-> {}]
    PROVE  c \in CallType /\ InOrder(c, queue)
  <1>1. /\ Len(queue) \in Nat /\ DOMAIN queue = 1 .. Len(queue) /\ 1 .. 0 = {}
        /\ \A n \in DOMAIN queue : queue[n] \in Listeners
        /\ 0 =< Len(queue) /\ Len(queue) =< Len(queue) /\ 0 \in Nat
    BY SMTT(30), Z3T(30)
  <1>2. c \in CallType
    BY <1>1 DEF CallType
  <1>3. c.i = 0 /\ c.j = Len(queue) /\ c.inside = FALSE /\ c.reached = {}
        /\ c.due = {queue[n] : n \in DOMAIN queue}
    OBVIOUS
  <1> QED
    BY <1>1, <1>2, <1>3 DEF InOrder

LEMMA CallGoesOn ==
    ASSUME NEW queue \in Seq(Listeners), NEW c \in CallType, InOrder(c, queue), ~c.inside, c.i < c.j,
           NEW d, d = [c EXCEPT !.inside = TRUE, !.reached = @ \cup {queue[c.i + 1]}]
    PROVE  d \in CallType /\ InOrder(d, queue)
  <1>1. /\ d.q = c.q /\ d.i = c.i /\ d.j = c.j /\ d.inside = TRUE /\ d.removed = c.removed
        /\ d.due = c.due /\ d.reached = c.reached \cup {queue[c.i + 1]}
    BY SMTT(30), Z3T(30) DEF CallType
  <1>2. /\ c.q \in Nat /\ c.i \in Nat /\ c.j \in Nat /\ c.removed \in BOOLEAN
        /\ c.due \subseteq Listeners /\ c.reached \subseteq Listeners
    BY DEF CallType
  <1>3. c.i + 1 \in 1 .. Len(queue)
    <2>1. c.j =< Len(queue)
      BY DEF InOrder
    <2> QED
      BY SMTT(30), Z3T(30), <1>2, <2>1
  <1>4. queue[c.i + 1] \in Listeners
    BY SMTT(30), Z3T(30), <1>3
  <1>5. d \in CallType
    BY <1>1, <1>2, <1>4 DEF CallType
  <1>6. InOrder(d, queue)
    BY <1>1 DEF InOrder
  <1> QED
    BY <1>5, <1>6

LEMMA CallReturns ==
    ASSUME NEW queue, NEW c \in CallType, Looping(c, queue), c.inside,
           NEW d, d = [c EXCEPT !.inside = FALSE, !.i = @ + 1]
    PROVE  d \in CallType /\ d.q = c.q /\ Looping(d, queue)
  <1>1. /\ d.q = c.q /\ d.i = c.i + 1 /\ d.j = c.j /\ d.inside = FALSE /\ d.removed = c.removed
        /\ d.due = c.due /\ d.reached = c.reached
    BY SMTT(30), Z3T(30) DEF CallType
  <1>2. /\ c.q \in Nat /\ c.i \in Nat /\ c.j \in Nat /\ c.removed \in BOOLEAN
        /\ c.due \subseteq Listeners /\ c.reached \subseteq Listeners
    BY DEF CallType
  <1>3. c.i + 1 \in Nat /\ \A m \in 1 .. c.i + 1 : m \in 1 .. c.i \/ m = c.i + 1
    BY SMTT(30), Z3T(30), <1>2
  <1>4. d \in CallType
    BY <1>1, <1>2, <1>3 DEF CallType
  <1>5. InOrder(c, queue) => InOrder(d, queue)
    <2> SUFFICES ASSUME InOrder(c, queue) PROVE InOrder(d, queue)
      OBVIOUS
    <2>1. c.i < c.j /\ queue[c.i + 1] \in c.reached /\ {queue[m] : m \in 1 .. c.i} \subseteq c.reached
      BY DEF InOrder
    <2>2. c.i + 1 =< c.j
      BY SMTT(30), Z3T(30), <1>2, <2>1
    <2>3. {queue[m] : m \in 1 .. c.i + 1} \subseteq c.reached
      BY <1>3, <2>1
    <2> QED
      BY <1>1, <2>2, <2>3 DEF InOrder
  <1>6. c.j =< c.i => c.j =< c.i + 1
    BY SMTT(30), Z3T(30), <1>2
  <1> QED
    BY <1>1, <1>4, <1>5, <1>6 DEF Looping

\* A listener that is added goes behind those the loop runs over.
LEMMA AddedBehind ==
    ASSUME NEW queue \in Seq(Listeners), NEW l \in Listeners, NEW c \in CallType, InOrder(c, queue)
    PROVE  InOrder(c, Add(queue, l))
  <1> DEFINE new == Append(queue, l)
  <1>1. /\ Len(new) = Len(queue) + 1 /\ Len(queue) \in Nat
        /\ \A m \in 1 .. Len(queue) : new[m] = queue[m]
    BY SMTT(30), Z3T(30)
  <1> HIDE DEF new
  <1>2. c.i \in Nat /\ c.j \in Nat /\ c.i =< c.j /\ c.j =< Len(queue)
    BY DEF CallType, InOrder
  <1>3. /\ c.j =< Len(new)
        /\ \A m \in 1 .. c.j : m \in 1 .. Len(queue)
        /\ \A m \in 1 .. c.i : m \in 1 .. Len(queue)
        /\ c.i < c.j => c.i + 1 \in 1 .. Len(queue)
    BY SMTT(30), Z3T(30), <1>1, <1>2
  <1>4. /\ {new[m] : m \in 1 .. c.j} = {queue[m] : m \in 1 .. c.j}
        /\ {new[m] : m \in 1 .. c.i} = {queue[m] : m \in 1 .. c.i}
        /\ c.i < c.j => new[c.i + 1] = queue[c.i + 1]
    BY <1>1, <1>3
  <1> QED
    BY <1>3, <1>4 DEF InOrder, Add, new

LEMMA CallInit == Init => CallOK
  <1> SUFFICES ASSUME Init PROVE CallOK
    OBVIOUS
  <1>1. <<>> \in Seq(Listeners) /\ 0 \in Nat
    BY SMTT(30), Z3T(30)
  <1>2. q \in [Sensors -> Seq(Listeners)]
    BY <1>1 DEF Init
  <1>3. call = NoCall /\ NoCall \in CallType
    BY <1>1 DEF Init, NoCall, CallType
  <1> QED
    BY <1>2, <1>3 DEF CallOK

\* What neither calls nor changes a queue.
LEMMA NotInCall ==
    ASSUME CallOK, UNCHANGED <<made, q, call>> PROVE CallOK'
  BY DEF CallOK, Looping, InOrder

\* EventQueue.call: its begin, and the steps of its loop.
LEMMA LoopStep ==
    ASSUME SensorInv, CallOK,
           Listen \/ Return \/ Throw \/ EndCall \/ \E s \in Sensors : OnResized(s)
    PROVE  /\ CallOK'
           /\ call # NoCall /\ call' = NoCall /\ ~call.removed =>
                 call.due \ call.reached \subseteq Behind(call)
  <1>1. /\ q \in [Sensors -> Seq(Listeners)] /\ call \in CallType
        /\ call # NoCall => call.q \in 1 .. made /\ Looping(call, q[call.q])
    BY DEF CallOK
  <1>2. \A t \in 1 .. made : t \in Sensors /\ t \in Nat /\ t # 0
    BY SMTT(30), Z3T(30), SensorAssumption DEF SensorInv, Types, Sensors
  <1>3. PICK c : c = call'
    OBVIOUS
  <1>4. NoCall.q = 0 /\ NoCall \in CallType
    <2>1. 0 \in Nat
      BY SMTT(30), Z3T(30)
    <2> QED
      BY <2>1 DEF NoCall, CallType
  <1>5. ASSUME made' = made, q' = q, c \in CallType,
               c = NoCall \/ (c.q \in 1 .. made /\ Looping(c, q[c.q]))
        PROVE  CallOK'
    <2>1. CallOK' <=> /\ q' \in [Sensors -> Seq(Listeners)] /\ c \in CallType
                      /\ c # NoCall => c.q \in 1 .. made' /\ Looping(c, q'[c.q])
      BY <1>3 DEF CallOK, Looping, InOrder
    <2> QED
      BY <1>1, <1>5, <2>1
  <1>6. CASE Listen
    <2>1. /\ call # NoCall /\ ~call.inside /\ call.i < call.j /\ UNCHANGED <<made, q>>
          /\ c = [call EXCEPT !.inside = TRUE, !.reached = @ \cup {q[call.q][call.i + 1]}]
      BY <1>3, <1>6 DEF Listen, Idle, queues
    <2>2. c.q = call.q /\ c.removed = call.removed
      BY <1>1, <2>1 DEF CallType
    <2>3. PICK queue \in Seq(Listeners) : queue = q[call.q]
      BY <1>1, <1>2, <2>1
    <2>4. c \in CallType /\ InOrder(c, queue) /\ ~c.removed
      <3>1. call.i \in Nat /\ call.j \in Nat
        BY <1>1 DEF CallType
      <3>2. ~(call.j =< call.i)
        BY SMTT(30), Z3T(30), <2>1, <3>1
      <3>3. ~call.removed /\ InOrder(call, queue)
        BY <1>1, <2>1, <2>3, <3>2 DEF Looping
      <3> QED
        BY <1>1, <2>1, <2>2, <2>3, <3>3, CallGoesOn
    <2>5. c # NoCall
      BY <1>1, <1>2, <1>4, <2>1, <2>2
    <2> QED
      BY <1>1, <1>3, <1>5, <2>1, <2>2, <2>3, <2>4, <2>5 DEF Looping
  <1>7. CASE Return
    <2>1. /\ call # NoCall /\ call.inside /\ UNCHANGED <<made, q>>
          /\ c = [call EXCEPT !.inside = FALSE, !.i = @ + 1]
      BY <1>3, <1>7 DEF Return, Idle, queues
    <2>2. c \in CallType /\ c.q = call.q /\ Looping(c, q[call.q])
      BY <1>1, <2>1, CallReturns
    <2>3. c # NoCall
      BY <1>1, <1>2, <1>4, <2>1, <2>2
    <2> QED
      BY <1>1, <1>3, <1>5, <2>1, <2>2, <2>3
  <1>8. CASE EndCall
    <2>1. /\ call # NoCall /\ ~call.inside /\ call.i >= call.j /\ UNCHANGED <<made, q>>
          /\ c = NoCall
      BY <1>3, <1>8 DEF EndCall, Idle, queues
    <2>2. ASSUME ~call.removed PROVE call.due \subseteq call.reached
      <3>1. InOrder(call, q[call.q]) /\ call.i \in Nat /\ call.j \in Nat
        BY <1>1, <2>1, <2>2 DEF CallType, Looping
      <3>2. call.i =< call.j
        BY <3>1 DEF InOrder
      <3>3. call.i = call.j
        BY SMTT(30), Z3T(30), <2>1, <3>1, <3>2
      <3> QED
        BY <3>1, <3>3 DEF InOrder
    <2> QED
      BY <1>4, <1>5, <2>1, <2>2
  <1>9. CASE Throw
    <2>1. /\ call # NoCall /\ call.inside /\ UNCHANGED <<made, q>> /\ c = NoCall
      BY <1>3, <1>9 DEF Throw, Idle, queues
    <2>2. ASSUME ~call.removed PROVE call.due \ call.reached \subseteq Behind(call)
      <3>1. PICK queue : queue = q[call.q]
        OBVIOUS
      <3>2. InOrder(call, queue) /\ call.i \in Nat /\ call.j \in Nat
        BY <1>1, <2>1, <2>2, <3>1 DEF CallType, Looping
      <3>3. \A m \in 1 .. call.j :
               m \in 1 .. call.i \/ m = call.i + 1 \/ m \in call.i + 2 .. call.j
        BY SMTT(30), Z3T(30), <3>2
      <3>4. \A x \in call.due : x \in call.reached \/ \E m \in call.i + 2 .. call.j : x = queue[m]
        BY <2>1, <3>2, <3>3 DEF InOrder
      <3> QED
        BY <2>1, <3>1, <3>4 DEF Behind
    <2> QED
      BY <1>4, <1>5, <2>1, <2>2
  <1>10. ASSUME NEW s \in Sensors, OnResized(s) PROVE CallOK' /\ call = NoCall
    <2>1. /\ call = NoCall /\ UNCHANGED <<made, q>>
          /\ c = call \/ (attached # 0 /\ c = Calling(attached))
      BY <1>3, <1>10 DEF OnResized, Runs, Idle, queues
    <2>2. CASE c = call
      BY <1>4, <1>5, <2>1, <2>2
    <2>3. CASE attached # 0 /\ c = Calling(attached)
      <3>1. attached \in 1 .. made
        BY SMTT(30), Z3T(30), <2>3, SensorAssumption DEF SensorInv, Types
      <3>2. PICK a \in Nat : a = attached
        BY <1>2, <3>1
      <3>3. PICK queue \in Seq(Listeners) : queue = q[a]
        BY <1>1, <1>2, <3>1, <3>2
      <3>4. c = [q |-> a, i |-> 0, j |-> Len(queue), inside |-> FALSE, removed |-> FALSE,
                 due |-> {queue[n] : n \in DOMAIN queue}, reached |-> {}]
        BY <2>3, <3>2, <3>3 DEF Calling
      <3>5. c \in CallType /\ InOrder(c, queue)
        BY <3>4, CallBegins
      <3>6. c.q = a /\ ~c.removed
        BY <3>4
      <3> QED
        BY <1>5, <2>1, <3>1, <3>2, <3>3, <3>5, <3>6 DEF Looping
    <2> QED
      BY <2>1, <2>2, <2>3
  <1> QED
    BY <1>6, <1>7, <1>8, <1>9, <1>10

\* new ResizeSensor and sensor.detach(l), in a listener that is called or outside.
LEMMA QueueStep ==
    ASSUME SensorInv, CallOK, NEW l \in Listeners, Attach(l) \/ Detach(l)
    PROVE  CallOK' /\ (call # NoCall => call' # NoCall)
  <1>1. /\ q \in [Sensors -> Seq(Listeners)] /\ call \in CallType
        /\ call # NoCall => call.q \in 1 .. made /\ Looping(call, q[call.q])
    BY DEF CallOK
  <1>2. /\ \A t \in 1 .. made : t \in Sensors /\ t # 0 /\ t \in 1 .. made + 1 /\ t # made + 1
        /\ attached # 0 => attached \in Sensors
        /\ made < MaxSensors => made + 1 \in Sensors
    BY SMTT(30), Z3T(30), SensorAssumption DEF SensorInv, Types, Sensors
  <1>3. PICK p : p = q'
    OBVIOUS
  <1>4. CASE Attach(l) /\ attached # 0
    <2>1. p = [q EXCEPT ![attached] = Add(@, l)] /\ UNCHANGED <<made, call>>
      BY <1>3, <1>4 DEF Attach
    <2>2. PICK queue \in Seq(Listeners) : queue = q[attached]
      BY <1>1, <1>2, <1>4
    <2>3. Add(queue, l) \in Seq(Listeners)
      BY SMTT(30), Z3T(30) DEF Add
    <2>4. p \in [Sensors -> Seq(Listeners)]
      BY <1>1, <2>1, <2>2, <2>3
    <2>5. ASSUME call # NoCall PROVE Looping(call, p[call.q])
      <3>1. call.q \in Sensors /\ Looping(call, q[call.q])
        BY <1>1, <1>2, <2>5
      <3>2. CASE call.q # attached
        <4>1. p[call.q] = q[call.q]
          BY <1>1, <2>1, <3>1, <3>2
        <4> QED
          BY <3>1, <4>1
      <3>3. CASE call.q = attached
        <4>1. p[call.q] = Add(queue, l)
          BY <1>1, <2>1, <2>2, <3>1, <3>3
        <4>2. Looping(call, queue)
          BY <2>2, <3>1, <3>3
        <4>3. InOrder(call, queue) => InOrder(call, Add(queue, l))
          BY <1>1, AddedBehind
        <4> QED
          BY <4>1, <4>2, <4>3 DEF Looping
      <3> QED
        BY <3>2, <3>3
    <2>6. CallOK' <=> /\ p \in [Sensors -> Seq(Listeners)] /\ call' \in CallType
                      /\ call' # NoCall => call'.q \in 1 .. made' /\ Looping(call', p[call'.q])
      BY <1>3 DEF CallOK, Looping, InOrder
    <2> QED
      BY <1>1, <2>1, <2>4, <2>5, <2>6
  <1>5. CASE Attach(l) /\ attached = 0
    <2>1. /\ made < MaxSensors /\ made' = made + 1 /\ p = [q EXCEPT ![made + 1] = Add(<<>>, l)]
          /\ UNCHANGED call
      BY <1>3, <1>5 DEF Attach
    <2>2. Add(<<>>, l) \in Seq(Listeners)
      BY SMTT(30), Z3T(30) DEF Add
    <2>3. p \in [Sensors -> Seq(Listeners)]
      BY <1>1, <2>1, <2>2
    <2>4. ASSUME call # NoCall PROVE call.q \in 1 .. made + 1 /\ Looping(call, p[call.q])
      <3>1. call.q \in Sensors /\ call.q # made + 1 /\ call.q \in 1 .. made + 1 /\ Looping(call, q[call.q])
        BY <1>1, <1>2, <2>4
      <3>2. p[call.q] = q[call.q]
        BY <1>1, <2>1, <3>1
      <3> QED
        BY <3>1, <3>2
    <2>5. CallOK' <=> /\ p \in [Sensors -> Seq(Listeners)] /\ call' \in CallType
                      /\ call' # NoCall => call'.q \in 1 .. made' /\ Looping(call', p[call'.q])
      BY <1>3 DEF CallOK, Looping, InOrder
    <2> QED
      BY <1>1, <2>1, <2>3, <2>4, <2>5
  <1>6. CASE Detach(l)
    <2>1. PICK queue \in Seq(Listeners) : queue = q[attached]
      BY <1>1, <1>2, <1>6 DEF Detach
    <2>2. /\ attached # 0 /\ p = [q EXCEPT ![attached] = Remove(queue, l)] /\ made' = made
          /\ call' = IF call.q = attached
                       THEN [call EXCEPT !.i = Len(queue), !.j = Len(queue), !.removed = TRUE]
                       ELSE call
      BY <1>3, <1>6, <2>1 DEF Detach
    <2>3. p \in [Sensors -> Seq(Listeners)]
      BY <1>1, <2>2, RemoveType
    <2>4. CASE call.q # attached
      <3>1. UNCHANGED call
        BY <2>2, <2>4
      <3>2. ASSUME call # NoCall PROVE Looping(call, p[call.q])
        <4>1. call.q \in Sensors /\ Looping(call, q[call.q])
          BY <1>1, <1>2, <3>2
        <4>2. p[call.q] = q[call.q]
          BY <1>1, <2>2, <2>4, <4>1
        <4> QED
          BY <4>1, <4>2
      <3>3. CallOK' <=> /\ p \in [Sensors -> Seq(Listeners)] /\ call' \in CallType
                        /\ call' # NoCall => call'.q \in 1 .. made' /\ Looping(call', p[call'.q])
        BY <1>3 DEF CallOK, Looping, InOrder
      <3> QED
        BY <1>1, <2>2, <2>3, <3>1, <3>2, <3>3
    <2>5. CASE call.q = attached
      <3>1. PICK c : c = call'
        OBVIOUS
      <3>2. c = [call EXCEPT !.i = Len(queue), !.j = Len(queue), !.removed = TRUE]
        BY <2>2, <2>5, <3>1
      <3>3. Len(queue) \in Nat /\ Len(queue) =< Len(queue)
        BY SMTT(30), Z3T(30)
      <3>4. c \in CallType /\ c.q = attached /\ c.removed = TRUE /\ c.j =< c.i
        <4>1. c \in CallType
          BY <1>1, <3>2, <3>3 DEF CallType
        <4>2. c.q = attached /\ c.removed = TRUE /\ c.i = Len(queue) /\ c.j = Len(queue)
          BY <1>1, <2>5, <3>2 DEF CallType
        <4> QED
          BY <3>3, <4>1, <4>2
      <3>5. attached \in 1 .. made
        BY SMTT(30), Z3T(30), <2>2, SensorAssumption DEF SensorInv, Types
      <3>6. c # NoCall
        BY SMTT(30), Z3T(30), <2>2, <3>4 DEF NoCall
      <3>7. CallOK' <=> /\ p \in [Sensors -> Seq(Listeners)] /\ c \in CallType
                        /\ c # NoCall => c.q \in 1 .. made' /\ Looping(c, p[c.q])
        BY <1>3, <3>1 DEF CallOK, Looping, InOrder
      <3> QED
        BY <2>2, <2>3, <3>1, <3>4, <3>5, <3>6, <3>7 DEF Looping
    <2> QED
      BY <2>4, <2>5
  <1> QED
    BY <1>4, <1>5, <1>6

LEMMA CallStep ==
    ASSUME SensorInv, CallOK, [Next]_vars
    PROVE  /\ CallOK'
           /\ call # NoCall /\ call' = NoCall /\ ~call.removed =>
                 call.due \ call.reached \subseteq Behind(call)
  <1>1. CASE UNCHANGED <<made, q, call>>
    BY <1>1, NotInCall
  <1>2. CASE Listen \/ Return \/ Throw \/ EndCall \/ \E s \in Sensors : OnResized(s)
    BY <1>2, LoopStep
  <1>3. CASE \E l \in Listeners : Attach(l) \/ Detach(l)
    BY <1>3, QueueStep
  <1>4. ASSUME Environment PROVE UNCHANGED <<made, q, call>>
    BY <1>4 DEF Environment, Resize, Show, Hide, Insert, Changing, queues
  <1>5. ASSUME \E s \in Sensors : OnScroll(s) \/ FrameReset(s) \/ FramePoll(s)
        PROVE  UNCHANGED <<made, q, call>>
    BY <1>5 DEF OnScroll, FrameReset, FramePoll, Runs, queues
  <1>6. ASSUME StartFrame \/ DetachAll \/ ResetSensor \/ Observe \/ UNCHANGED vars
        PROVE  UNCHANGED <<made, q, call>>
    BY <1>6 DEF StartFrame, DetachAll, ResetSensor, Observe, vars, queues
  <1> QED
    BY <1>1, <1>2, <1>3, <1>4, <1>5, <1>6 DEF Next, Frames

\* A call of an event queue that ends has reached every listener that was in the
\* queue when it began, save those behind one that throws, whatever listeners
\* attach or reset meanwhile and also if they detach the whole sensor; only
\* sensor.detach(l) on the queue that is called moves the loop's index.
THEOREM CallsReachAll == SafeSpec => CallReachesAll
  <1>1. SensorInv /\ CallOK /\ [Next]_vars => CallOK'
    BY CallStep
  <1>2. SensorInv /\ CallOK /\ [Next]_vars =>
          [call # NoCall /\ call' = NoCall /\ ~call.removed =>
              call.due \ call.reached \subseteq Behind(call)]_vars
    BY CallStep
  <1> QED
    BY <1>1, <1>2, CallInit, SensorInvariant, PTL DEF SafeSpec, CallReachesAll
=============================================================================
