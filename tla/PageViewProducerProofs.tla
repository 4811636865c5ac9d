----------------------- MODULE PageViewProducerProofs -----------------------
(***************************************************************************)
(* Proofs about PageViewProducer: for every start mode and batch size, any *)
(* requests to /control, at any time, and any number of flushLoops.        *)
(***************************************************************************)
EXTENDS PageViewProducer, SequenceTheorems, TLAPS

(* The messages of sequences *)

LEMMA ToSetType ==
  ASSUME NEW S, NEW s \in Seq(S) PROVE ToSet(s) \subseteq S
  BY DEF ToSet

LEMMA ToSetEmpty == ToSet(<<>>) = {}
  BY DEF ToSet

LEMMA ToSetSingle ==
  ASSUME NEW e PROVE ToSet(<<e>>) = {e}
  BY DEF ToSet

LEMMA ToSetConcat ==
  ASSUME NEW S, NEW s \in Seq(S), NEW t \in Seq(S)
  PROVE  ToSet(s \o t) = ToSet(s) \cup ToSet(t)
  <1>1. ToSet(s) = Range(s) /\ ToSet(t) = Range(t) /\ ToSet(s \o t) = Range(s \o t)
    BY DEF ToSet, Range
  <1>2. QED
    BY <1>1, RangeConcatenation

\* A sequence stays free of repetitions when it is extended by one that is and
\* that shares nothing with it.
LEMMA InjectiveConcat ==
  ASSUME NEW S, NEW s \in Seq(S), NEW t \in Seq(S), IsInjective(s), IsInjective(t),
         ToSet(s) \cap ToSet(t) = {}
  PROVE  IsInjective(s \o t)
  <1> DEFINE u == s \o t
  <1>1. /\ DOMAIN u = 1..(Len(s) + Len(t)) /\ Len(s) \in Nat /\ Len(t) \in Nat
        /\ \A i \in DOMAIN u : u[i] = IF i <= Len(s) THEN s[i] ELSE t[i - Len(s)]
    BY ConcatProperties, LenProperties
  <1>2. DOMAIN s = 1..Len(s) /\ DOMAIN t = 1..Len(t)
    BY LenProperties
  <1>3. \A i \in 1..Len(s), j \in 1..Len(t) : s[i] # t[j]
    BY <1>2 DEF ToSet
  <1> HIDE DEF u
  <1>4. ASSUME NEW i \in DOMAIN u, NEW j \in DOMAIN u, u[i] = u[j] PROVE i = j
    <2>1. CASE i <= Len(s) /\ j <= Len(s)
      BY <1>1, <1>2, <1>4, <2>1 DEF IsInjective
    <2>2. CASE i > Len(s) /\ j > Len(s)
      <3>1. i - Len(s) \in DOMAIN t /\ j - Len(s) \in DOMAIN t
        BY <1>1, <1>2, <2>2
      <3>2. t[i - Len(s)] = t[j - Len(s)]
        BY <1>1, <1>4, <2>2
      <3>3. i - Len(s) = j - Len(s)
        BY <3>1, <3>2 DEF IsInjective
      <3>4. QED
        BY <1>1, <3>3
    <2>3. CASE i <= Len(s) /\ j > Len(s)
      BY <1>1, <1>3, <1>4, <2>3
    <2>4. CASE i > Len(s) /\ j <= Len(s)
      BY <1>1, <1>3, <1>4, <2>4
    <2>5. QED
      BY <1>1, <2>1, <2>2, <2>3, <2>4
  <1>5. QED
    BY <1>4 DEF IsInjective, u

-----------------------------------------------------------------------------
(* kafka.Writer *)

\* A call that returns has given its messages to the writer; unless the writer is
\* asynchronous, each of them is in the topic or counted as failed.
LEMMA WriteAccounts ==
  ASSUME NEW E, WriteReturns(E)
  PROVE  /\ UNCHANGED written
         /\ given' = given \cup E
         /\ refused \subseteq refused' /\ refused' \subseteq refused \cup E
         /\ cfgMode # "async" => E \subseteq written' \cup refused'
  BY DEF WriteReturns

-----------------------------------------------------------------------------
(* The types *)

\* Where each goroutine can be.
PlaceInv ==
    /\ at[Gen] \in {"idle", "append", "flush", "write", "stopped"}
    /\ at[Main] \in {"idle", "flush", "write", "close", "exited"}
    /\ \A l \in Loops : at[l] \in {"none", "ready", "wait", "flush", "write", "exited"}

\* There is a flushLoop to start for every request still to come: each request
\* starts at most one, and none runs beyond the last ticker.
TickerInv ==
    /\ \A l \in Loops : l > ticker => at[l] = "none"
    /\ update = NoControl => ticker <= controls + 1
    /\ update # NoControl => ticker <= controls

TypeInv == TypeOK /\ PlaceInv /\ TickerInv

LEMMA ActorsAre ==
  /\ Main \in Actors /\ Gen \in Actors /\ Loops \subseteq Actors
  /\ Main # Gen /\ Main \notin Loops /\ Gen \notin Loops
  /\ \A a \in Actors : a = Main \/ a = Gen \/ a \in Loops
  BY DEF Main, Gen, Loops, Actors

\* What a request asks for is of the type of the configuration.
LEMMA ControlValues ==
  ASSUME NEW c \in Controls, cfgMode \in Modes
  PROVE  ModeOf(c) \in Modes /\ SizeOf(c) \in Int
  <1>1. c.sendMode \in {"", "sync", "async", "batch"} /\ c.batchSize \in Int
    BY ControlsAssumption, Zenon
  <1>2. ModeOf(c) \in Modes
    BY <1>1 DEF ModeOf, Modes
  <1>3. SizeOf(c) = BatchSize \/ SizeOf(c) = c.batchSize
    BY Zenon DEF SizeOf
  <1>4. BatchSize \in Int
    BY ProducerBounds
  <1>5. QED
    BY <1>1, <1>2, <1>3, <1>4, Zenon

LEMMA InitType == Init => TypeInv
  <1> SUFFICES ASSUME Init PROVE TypeInv
    OBVIOUS
  <1>1. cfgMode \in Modes
    BY StartModesAssumption DEF Init, Modes
  <1>2. at \in [Actors -> Places] /\ PlaceInv /\ TickerInv
    <2>1. at \in [Actors -> Places]
      BY DEF Init, Places
    <2>2. PlaceInv
      BY ActorsAre DEF Init, PlaceInv
    <2>3. TickerInv
      BY ActorsAre, ProducerBounds DEF Init, TickerInv, Loops
    <2>4. QED
      BY <2>1, <2>2, <2>3
  <1>3. ticker \in 0..(MaxControls + 1) /\ ticking \in BOOLEAN /\ controls \in 0..MaxControls
    <2>1. ticking \in BOOLEAN
      BY Zenon DEF Init
    <2>2. QED
      BY <2>1, ProducerBounds DEF Init
  <1>4. /\ hand \in [Actors -> Seq(Events)] /\ batch \in Seq(Events)
        /\ \A a \in Actors : hand[a] = <<>> /\ at[a] \notin {"append", "write"}
    BY DEF Init
  <1>5. on \in [Loops -> 0..(MaxControls + 1)] /\ next \in 0..MaxEvents
    BY ProducerBounds DEF Init
  <1>6. /\ sendMode = cfgMode /\ batchSize \in Int /\ largest \in Int /\ update = NoControl
        /\ flights = {} /\ written = {} /\ given = {} /\ refused = {}
        /\ stopFlush = FALSE /\ quit = FALSE
    <2>1. batchSize = BatchSize /\ largest = BatchSize /\ BatchSize \in Int
      BY ProducerBounds DEF Init
    <2>2. QED
      BY <2>1, Zenon DEF Init
  <1>7. QED
    BY <1>1, <1>2, <1>3, <1>4, <1>5, <1>6 DEF TypeInv, TypeOK

\* The types a step of one goroutine has to keep, when it leaves the configuration,
\* the tickers and the requests alone.
LEMMA GoroutineType ==
  ASSUME TypeInv, NEW a \in Actors, NEW place \in Places, Move(a, place),
         UNCHANGED <<config, timer, admin, quit>>,
         place \in IF a = Gen THEN {"idle", "append", "flush", "write", "stopped"}
                   ELSE IF a = Main THEN {"idle", "flush", "write", "close", "exited"}
                   ELSE {"ready", "wait", "flush", "write", "exited"},
         a \in Loops => at[a] # "none"
  PROVE  /\ at' \in [Actors -> Places]
         /\ at'[a] = place
         /\ \A b \in Actors \ {a} : at'[b] = at[b]
         /\ PlaceInv' /\ TickerInv'
  <1>1. at' = [at EXCEPT ![a] = place] /\ at \in [Actors -> Places]
    BY DEF Move, TypeInv, TypeOK
  <1>2. PlaceInv'
    BY <1>1, ActorsAre DEF TypeInv, PlaceInv
  <1>3. TickerInv'
    BY <1>1, ActorsAre DEF TypeInv, TickerInv, timer, admin
  <1>4. QED
    BY <1>1, <1>2, <1>3

LEMMA SendType == TypeInv /\ Send => TypeInv'
  <1> SUFFICES ASSUME TypeInv, Send PROVE TypeInv'
    OBVIOUS
  <1> DEFINE e == next + 1
  <1>1. e \in Events /\ e \in 0..MaxEvents /\ <<e>> \in Seq(Events) /\ <<e>> # <<>>
    BY ProducerBounds DEF Send, Events, TypeInv, TypeOK
  <1>2. next' = e /\ UNCHANGED <<config, timer, admin, batch, on, kafka, quit>>
    BY DEF Send
  <1> HIDE DEF e
  <1>3. CASE hand' = [hand EXCEPT ![Gen] = <<e>>] /\ UNCHANGED flights
             /\ (Move(Gen, "append") \/ Move(Gen, "write"))
    <2>1. PICK place \in {"append", "write"} : Move(Gen, place)
      BY <1>3
    <2>2. /\ at' \in [Actors -> Places] /\ at'[Gen] = place
          /\ \A b \in Actors \ {Gen} : at'[b] = at[b]
          /\ PlaceInv' /\ TickerInv'
      BY <1>2, <2>1, ActorsAre, GoroutineType DEF Places
    <2>3. hand' \in [Actors -> Seq(Events)]
          /\ \A a \in Actors : (hand'[a] # <<>>) <=> (at'[a] \in {"append", "write"})
      BY <1>1, <1>3, <2>2, ActorsAre DEF TypeInv, TypeOK
    <2>4. QED
      BY <1>1, <1>2, <1>3, <2>2, <2>3 DEF TypeInv, TypeOK, config, timer, admin, kafka, calls
  <1>4. CASE flights' = flights \cup {e} /\ UNCHANGED <<hand, at>>
    BY <1>1, <1>2, <1>4
       DEF TypeInv, TypeOK, PlaceInv, TickerInv, config, timer, admin, kafka, calls
  <1>5. QED
    BY <1>3, <1>4 DEF Send, e

LEMMA SendBatchType == TypeInv /\ SendBatch => TypeInv'
  <1> SUFFICES ASSUME TypeInv, SendBatch PROVE TypeInv'
    OBVIOUS
  <1>1. /\ UNCHANGED <<config, timer, admin, on, flights, next, kafka, quit>>
        /\ hand' = [hand EXCEPT ![Gen] = <<>>]
        /\ batch' = batch \o hand[Gen]
    BY DEF SendBatch
  <1>2. PICK place \in {"flush", "idle"} : Move(Gen, place)
    BY DEF SendBatch
  <1>3. /\ at' \in [Actors -> Places] /\ at'[Gen] = place
        /\ \A b \in Actors \ {Gen} : at'[b] = at[b]
        /\ PlaceInv' /\ TickerInv'
    BY <1>1, <1>2, ActorsAre, GoroutineType DEF Places
  <1>4. batch' \in Seq(Events)
    BY <1>1, ActorsAre, ConcatProperties DEF TypeInv, TypeOK
  <1>5. /\ hand' \in [Actors -> Seq(Events)]
        /\ \A a \in Actors : (hand'[a] # <<>>) <=> (at'[a] \in {"append", "write"})
    BY <1>1, <1>3, ActorsAre DEF TypeInv, TypeOK
  <1>6. QED
    BY <1>1, <1>3, <1>4, <1>5 DEF TypeInv, TypeOK, config, timer, admin, kafka, calls

\* Steps that only move a goroutine that has nothing in its hands.
LEMMA MoveType ==
  ASSUME TypeInv, NEW a \in Actors, NEW place \in Places, Move(a, place),
         UNCHANGED <<config, timer, admin, batch, hand, flights, next, kafka, quit>>,
         on' \in [Loops -> 0..(MaxControls + 1)],
         place \in IF a = Gen THEN {"idle", "flush", "stopped"}
                   ELSE IF a = Main THEN {"idle", "flush", "close", "exited"}
                   ELSE {"ready", "wait", "flush", "exited"},
         at[a] \notin {"none", "append", "write"}
  PROVE  TypeInv'
  <1>1. /\ at' \in [Actors -> Places] /\ at'[a] = place
        /\ \A b \in Actors \ {a} : at'[b] = at[b]
        /\ PlaceInv' /\ TickerInv'
    BY ActorsAre, GoroutineType
  <1>2. \A b \in Actors : (hand'[b] # <<>>) <=> (at'[b] \in {"append", "write"})
    BY <1>1 DEF TypeInv, TypeOK
  <1>3. QED
    BY <1>1, <1>2 DEF TypeInv, TypeOK, config, timer, admin, kafka, calls

LEMMA LoopType == TypeInv /\ (\E l \in Loops : LoopStep(l)) => TypeInv'
  <1> SUFFICES ASSUME TypeInv, NEW l \in Loops, LoopStep(l) PROVE TypeInv'
    OBVIOUS
  <1>1. on' \in [Loops -> 0..(MaxControls + 1)]
    BY DEF LoopStep, Select, Tick, LoopStops, TypeInv, TypeOK
  <1>2. l \in Actors /\ l # Gen /\ l # Main
    BY ActorsAre
  <1>3. \E place \in {"wait", "flush", "exited"} : Move(l, place)
    BY DEF LoopStep, Select, Tick, LoopStops
  <1>4. /\ at[l] \notin {"none", "append", "write"}
        /\ UNCHANGED <<config, timer, admin, batch, hand, flights, next, kafka, quit>>
    BY DEF LoopStep, Select, Tick, LoopStops
  <1>5. QED
    BY <1>1, <1>2, <1>3, <1>4, MoveType DEF Places

\* Flush and WriteMessages return to where they were called.
LEMMA AfterFlushPlace ==
  ASSUME NEW a \in Actors
  PROVE  AfterFlush(a) \in IF a = Gen THEN {"idle"}
                           ELSE IF a = Main THEN {"close"} ELSE {"ready"}
  BY DEF AfterFlush

LEMMA FlushType == TypeInv /\ (\E a \in Actors : Flush(a)) => TypeInv'
  <1> SUFFICES ASSUME TypeInv, NEW a \in Actors, Flush(a) PROVE TypeInv'
    OBVIOUS
  <1>1. /\ UNCHANGED <<config, timer, admin, on, flights, next, kafka, quit>>
        /\ hand' = [hand EXCEPT ![a] = batch] /\ batch' = <<>>
        /\ at[a] = "flush"
    BY DEF Flush
  <1> DEFINE place == IF batch = <<>> THEN AfterFlush(a) ELSE "write"
  <1>2. Move(a, place)
    BY DEF Flush
  <1>3. place \in Places /\ place # "append" /\ (place = "write" <=> batch # <<>>)
    BY AfterFlushPlace DEF Places
  <1>4. place \in IF a = Gen THEN {"idle", "append", "flush", "write", "stopped"}
                  ELSE IF a = Main THEN {"idle", "flush", "write", "close", "exited"}
                  ELSE {"ready", "wait", "flush", "write", "exited"}
    BY AfterFlushPlace
  <1> HIDE DEF place
  <1>5. /\ at' \in [Actors -> Places] /\ at'[a] = place
        /\ \A b \in Actors \ {a} : at'[b] = at[b]
        /\ PlaceInv' /\ TickerInv'
    BY <1>1, <1>2, <1>3, <1>4, GoroutineType
  <1>6. /\ hand' \in [Actors -> Seq(Events)]
        /\ \A b \in Actors : (hand'[b] # <<>>) <=> (at'[b] \in {"append", "write"})
    BY <1>1, <1>3, <1>5 DEF TypeInv, TypeOK
  <1>7. QED
    BY <1>1, <1>5, <1>6 DEF TypeInv, TypeOK, config, timer, admin, kafka, calls

LEMMA WriteType == TypeInv /\ (\E a \in Actors : WriteMessages(a)) => TypeInv'
  <1> SUFFICES ASSUME TypeInv, NEW a \in Actors, WriteMessages(a) PROVE TypeInv'
    OBVIOUS
  <1>1. /\ UNCHANGED <<config, timer, admin, batch, on, flights, next, quit>>
        /\ hand' = [hand EXCEPT ![a] = <<>>]
        /\ at[a] = "write" /\ Move(a, AfterFlush(a)) /\ WriteReturns(ToSet(hand[a]))
    BY DEF WriteMessages
  <1>2. ToSet(hand[a]) \subseteq Events
    BY ToSetType DEF TypeInv, TypeOK
  <1>3. UNCHANGED written /\ given' \subseteq Events /\ refused' \subseteq Events
    BY <1>1, <1>2, WriteAccounts DEF TypeInv, TypeOK
  <1>4. /\ AfterFlush(a) \in Places /\ AfterFlush(a) \notin {"append", "write"}
        /\ AfterFlush(a) \in
             IF a = Gen THEN {"idle", "append", "flush", "write", "stopped"}
             ELSE IF a = Main THEN {"idle", "flush", "write", "close", "exited"}
             ELSE {"ready", "wait", "flush", "write", "exited"}
    BY AfterFlushPlace DEF Places
  <1>5. /\ at' \in [Actors -> Places] /\ at'[a] = AfterFlush(a)
        /\ \A b \in Actors \ {a} : at'[b] = at[b]
        /\ PlaceInv' /\ TickerInv'
    BY <1>1, <1>4, GoroutineType
  <1>6. /\ hand' \in [Actors -> Seq(Events)]
        /\ \A b \in Actors : (hand'[b] # <<>>) <=> (at'[b] \in {"append", "write"})
    BY <1>1, <1>4, <1>5 DEF TypeInv, TypeOK
  <1>7. QED
    BY <1>1, <1>3, <1>5, <1>6 DEF TypeInv, TypeOK, config, timer, admin

LEMMA AsyncType == TypeInv /\ (\E e \in flights : SendAsync(e)) => TypeInv'
  <1> SUFFICES ASSUME TypeInv, NEW e \in flights, SendAsync(e) PROVE TypeInv'
    OBVIOUS
  <1>1. e \in Events
    BY DEF TypeInv, TypeOK
  <1>2. UNCHANGED written /\ given' \subseteq Events /\ refused' \subseteq Events
    BY <1>1, WriteAccounts DEF SendAsync, TypeInv, TypeOK
  <1>3. QED
    BY <1>2 DEF SendAsync, TypeInv, TypeOK, PlaceInv, TickerInv, config, timer, admin

LEMMA ControlType == TypeInv /\ (\E c \in Controls : HandleControl(c)) => TypeInv'
  <1> SUFFICES ASSUME TypeInv, NEW c \in Controls, HandleControl(c) PROVE TypeInv'
    OBVIOUS
  <1>1. c # NoControl
    BY ControlsAssumption
  <1>2. controls' \in 0..MaxControls /\ sendMode' \in Modes \cup {"torn"} /\ TickerInv'
    BY <1>1, ProducerBounds DEF HandleControl, MutexFree, TypeInv, TypeOK, TickerInv, timer
  <1>3. QED
    BY <1>2 DEF HandleControl, TypeInv, TypeOK, PlaceInv, timer, kafka, calls

LEMMA UpdateType == TypeInv /\ UpdateConfig => TypeInv'
  <1> SUFFICES ASSUME TypeInv, UpdateConfig PROVE TypeInv'
    OBVIOUS
  <1>1. update \in Controls /\ update # NoControl
    BY DEF UpdateConfig, MutexFree, TypeInv, TypeOK
  <1>2. sendMode' \in Modes /\ batchSize' \in Int /\ largest' \in Int
    BY <1>1, ControlValues DEF UpdateConfig, TypeInv, TypeOK
  <1>3. CASE ticker' = ticker + 1 /\ ticking' = TRUE /\ NewLoop(ticker')
    <2>1. ticker <= controls /\ ticker' \in Loops /\ at[ticker'] = "none"
      BY <1>1, <1>3, ProducerBounds DEF TypeInv, TypeOK, TickerInv, Loops
    <2>2. at' = [at EXCEPT ![ticker'] = "ready"] /\ at \in [Actors -> Places]
      BY <1>3 DEF NewLoop, Move, TypeInv, TypeOK
    <2>3. at' \in [Actors -> Places] /\ PlaceInv'
      BY <2>1, <2>2, ActorsAre DEF TypeInv, PlaceInv, Places
    <2>4. \A a \in Actors : (hand[a] # <<>>) <=> (at'[a] \in {"append", "write"})
      BY <2>1, <2>2, ActorsAre DEF TypeInv, TypeOK
    <2>5. \A l \in Loops : l > ticker' => at'[l] = "none"
      BY <1>3, <2>1, <2>2, ActorsAre DEF TypeInv, TypeOK, TickerInv, Loops
    <2>6. update' = NoControl /\ ticker' <= controls' + 1 /\ ticker' \in 0..(MaxControls + 1)
      BY <1>3, <2>1, ProducerBounds DEF UpdateConfig, TypeInv, TypeOK
    <2>7. QED
      BY <1>2, <1>3, <2>3, <2>4, <2>5, <2>6
         DEF UpdateConfig, TypeInv, TypeOK, TickerInv, kafka, calls
  <1>4. CASE ticking' = FALSE /\ UNCHANGED <<ticker, at>>
    <2>1. update' = NoControl /\ ticker <= controls + 1 /\ controls' = controls
      BY <1>1, <1>4 DEF UpdateConfig, TypeInv, TypeOK, TickerInv
    <2>2. QED
      BY <1>2, <1>4, <2>1 DEF UpdateConfig, TypeInv, TypeOK, PlaceInv, TickerInv, kafka, calls
  <1>5. QED
    BY <1>3, <1>4 DEF UpdateConfig

LEMMA CloseType == TypeInv /\ Close => TypeInv'
  <1> SUFFICES ASSUME TypeInv, Close PROVE TypeInv'
    OBVIOUS
  <1>1. at' = [at EXCEPT ![Main] = "flush"] /\ at[Main] = "idle"
    BY DEF Close, Move
  <1>2. at' \in [Actors -> Places] /\ PlaceInv'
    BY <1>1, ActorsAre DEF TypeInv, TypeOK, PlaceInv, Places
  <1>3. \A a \in Actors : (hand'[a] # <<>>) <=> (at'[a] \in {"append", "write"})
    BY <1>1, ActorsAre DEF Close, TypeInv, TypeOK
  <1>4. TickerInv'
    BY <1>1, ActorsAre DEF Close, TypeInv, TypeOK, TickerInv, admin
  <1>5. ticking' \in BOOLEAN /\ stopFlush' \in BOOLEAN
    BY DEF Close, TypeInv, TypeOK
  <1>6. QED
    BY <1>2, <1>3, <1>4, <1>5 DEF Close, TypeInv, TypeOK, config, admin, kafka, calls

LEMMA NextType == TypeInv /\ [Next]_vars => TypeInv'
  <1> SUFFICES ASSUME TypeInv, [Next]_vars PROVE TypeInv'
    OBVIOUS
  <1>1. CASE GeneratorStops
    <2>1. on' \in [Loops -> 0..(MaxControls + 1)]
      BY <1>1 DEF GeneratorStops, TypeInv, TypeOK
    <2>2. QED
      BY <1>1, <2>1, ActorsAre, MoveType DEF GeneratorStops, Places
  <1>2. CASE Exit
    <2>1. on' \in [Loops -> 0..(MaxControls + 1)]
      BY <1>2 DEF Exit, TypeInv, TypeOK
    <2>2. QED
      BY <1>2, <2>1, ActorsAre, MoveType DEF Exit, Places
  <1>3. CASE Quit
    BY <1>3 DEF Quit, TypeInv, TypeOK, PlaceInv, TickerInv, config, timer, admin, kafka, calls
  <1>4. CASE Exited \/ UNCHANGED vars
    BY <1>4 DEF Exited, vars, TypeInv, TypeOK, PlaceInv, TickerInv, config, timer, admin,
                kafka, calls
  <1>5. CASE \E e \in Events : WriterWrites(e)
    BY <1>5 DEF WriterWrites, TypeInv, TypeOK, PlaceInv, TickerInv, config, timer, admin, calls
  <1>6. QED
    BY <1>1, <1>2, <1>3, <1>4, <1>5, SendType, SendBatchType, LoopType, FlushType, WriteType,
       AsyncType, ControlType, UpdateType, CloseType
       DEF Next, GeneratorStep, WriterStep

LEMMA TypeInvariant == Spec => []TypeInv
  BY InitType, NextType, PTL DEF Spec

\* TypeOK: every variable keeps its type, a goroutine holds messages exactly where
\* it is about to append or to write them, and the flushLoops of all requests to
\* /control have a slot.
THEOREM ProducerTypeCorrect == Spec => []TypeOK
  <1>1. TypeInv => TypeOK
    BY DEF TypeInv
  <1>2. QED
    BY TypeInvariant, <1>1, PTL

-----------------------------------------------------------------------------
(* Shutdown *)

\* Main only goes on when the generator has stopped, which nothing starts again;
\* so nothing is appended to the batch after the Flush of Close has emptied it.
ShutInv ==
    /\ at[Main] # "idle" => at[Gen] = "stopped"
    /\ at[Main] \in {"write", "close", "exited"} => batch = <<>>

LEMMA InitShut == Init => ShutInv
  BY ActorsAre DEF Init, ShutInv

LEMMA NextShut == TypeInv /\ ShutInv /\ [Next]_vars => ShutInv'
  <1> SUFFICES ASSUME TypeInv, ShutInv, [Next]_vars PROVE ShutInv'
    OBVIOUS
  <1> USE ActorsAre DEF ShutInv
  <1>0. at \in [Actors -> Places]
    BY DEF TypeInv, TypeOK
  <1>1. CASE Send
    BY <1>0, <1>1 DEF Send, Move
  <1>2. CASE SendBatch
    BY <1>0, <1>2 DEF SendBatch, Move
  <1>3. CASE GeneratorStops
    BY <1>0, <1>3 DEF GeneratorStops, Move
  <1>4. CASE \E e \in flights : SendAsync(e)
    BY <1>4 DEF SendAsync
  <1>5. CASE \E l \in Loops : LoopStep(l)
    BY <1>0, <1>5 DEF LoopStep, Select, Tick, LoopStops, Move
  <1>6. ASSUME NEW a \in Actors, Flush(a) PROVE ShutInv'
    <2>1. batch' = <<>> /\ \A b \in Actors \ {a} : at'[b] = at[b]
      BY <1>0, <1>6 DEF Flush, Move
    <2>2. a # Gen \/ at[Main] = "idle"
      BY <1>6 DEF Flush
    <2>3. a = Main => at[Gen] = "stopped"
      BY <1>6 DEF Flush
    <2>4. QED
      BY <2>1, <2>2, <2>3
  <1>7. ASSUME NEW a \in Actors, WriteMessages(a) PROVE ShutInv'
    <2>1. at[a] = "write" /\ batch' = batch /\ \A b \in Actors \ {a} : at'[b] = at[b]
      BY <1>0, <1>7 DEF WriteMessages, Move
    <2>2. QED
      BY <2>1
  <1>8. CASE \E c \in Controls : HandleControl(c)
    BY <1>8 DEF HandleControl
  <1>9. CASE UpdateConfig
    <2>1. batch' = batch /\ at'[Gen] = at[Gen] /\ at'[Main] = at[Main]
      <3>1. CASE UNCHANGED at
        BY <1>9, <3>1 DEF UpdateConfig
      <3>2. CASE NewLoop(ticker') /\ ticker' = ticker + 1
        <4>1. ticker' # Gen /\ ticker' # Main
          BY <3>2 DEF TypeInv, TypeOK, Gen, Main
        <4>2. QED
          BY <1>0, <1>9, <3>2, <4>1 DEF UpdateConfig, NewLoop, Move
      <3>3. QED
        BY <1>9, <3>1, <3>2 DEF UpdateConfig
    <2>2. QED
      BY <2>1
  <1>10. CASE Quit
    BY <1>10 DEF Quit
  <1>11. CASE Close
    BY <1>0, <1>11 DEF Close, WaitDone, Move
  <1>12. CASE Exit
    BY <1>0, <1>12 DEF Exit, Move
  <1>13. CASE Exited \/ UNCHANGED vars
    BY <1>13 DEF Exited, vars
  <1>14. CASE \E e \in Events : WriterWrites(e)
    BY <1>14 DEF WriterWrites
  <1>15. QED
    BY <1>1, <1>2, <1>3, <1>4, <1>5, <1>6, <1>7, <1>8, <1>9, <1>10, <1>11, <1>12, <1>13, <1>14
       DEF Next, GeneratorStep, WriterStep

\* ShutdownFlushed: whatever flushLoops and requests to /control do during the
\* shutdown, the process does not end with messages in the batch.
THEOREM BatchFlushedAtExit == Spec => []ShutdownFlushed
  <1>1. ShutInv => ShutdownFlushed
    BY DEF ShutInv, ShutdownFlushed, Running
  <1>2. QED
    BY TypeInvariant, InitShut, NextShut, <1>1, PTL DEF Spec

-----------------------------------------------------------------------------
(* The size of the batch *)

Cap == IF largest < 1 THEN 1 ELSE largest

\* The generator appends one message at a time, and only to a batch that its last
\* look, under the mutex of its append, has found below the size configured then.
\* Flushes of others make the batch shorter; a request makes the size smaller or
\* larger, but never the largest size so far smaller.
BoundInv ==
    /\ batchSize <= largest
    /\ at[Gen] = "append" => Len(hand[Gen]) = 1
    /\ at[Gen] # "flush" => Len(batch) < Cap
    /\ Len(batch) <= Cap

LEMMA CapIsInt ==
  ASSUME largest \in Int PROVE Cap \in Int /\ Cap > 0 /\ largest <= Cap
  BY DEF Cap

LEMMA InitBound == Init => BoundInv
  <1> SUFFICES ASSUME Init PROVE BoundInv
    OBVIOUS
  <1>1. largest = BatchSize /\ BatchSize \in Int /\ batchSize = largest
    BY ProducerBounds DEF Init
  <1>2. batch = <<>> /\ at[Gen] = "idle"
    BY ActorsAre DEF Init
  <1>3. Len(batch) = 0
    BY <1>2
  <1>4. QED
    BY <1>1, <1>2, <1>3, CapIsInt DEF BoundInv

\* Steps that leave the batch and the generator alone.
LEMMA SameBound ==
  ASSUME BoundInv, UNCHANGED <<batchSize, largest>>, batch' = batch,
         hand'[Gen] = hand[Gen], at'[Gen] = at[Gen]
  PROVE  BoundInv'
  BY DEF BoundInv, Cap

LEMMA NextBound == TypeInv /\ BoundInv /\ [Next]_vars => BoundInv'
  <1> SUFFICES ASSUME TypeInv, BoundInv, [Next]_vars PROVE BoundInv'
    OBVIOUS
  <1>0. /\ at \in [Actors -> Places] /\ hand \in [Actors -> Seq(Events)]
        /\ batch \in Seq(Events) /\ Len(batch) \in Int
        /\ batchSize \in Int /\ largest \in Int /\ batchSize <= largest
    BY LenProperties DEF TypeInv, TypeOK, BoundInv
  <1>a. Cap \in Int /\ Cap > 0 /\ largest <= Cap
    BY <1>0, CapIsInt
  <1>1. CASE Send
    <2>1. at[Gen] = "idle" /\ batch' = batch /\ UNCHANGED <<batchSize, largest>>
      BY <1>1 DEF Send, config
    <2>2. at'[Gen] # "flush" /\ (at'[Gen] = "append" => Len(hand'[Gen]) = 1)
      BY <1>0, <1>1, ActorsAre DEF Send, Move
    <2>3. QED
      BY <2>1, <2>2 DEF BoundInv, Cap
  <1>2. CASE SendBatch
    <2>1. at[Gen] = "append" /\ UNCHANGED <<batchSize, largest>> /\ batch' = batch \o hand[Gen]
      BY <1>2 DEF SendBatch, config
    <2>2. Len(batch') = Len(batch) + 1
      <3>1. hand[Gen] \in Seq(Events) /\ Len(hand[Gen]) = 1
        BY <1>0, <2>1, ActorsAre DEF BoundInv
      <3>2. Len(batch \o hand[Gen]) = Len(batch) + Len(hand[Gen])
        BY <1>0, <3>1, ConcatProperties
      <3>3. QED
        BY <2>1, <3>1, <3>2
    <2>3. Len(batch') <= Cap
      BY <1>0, <1>a, <2>1, <2>2 DEF BoundInv
    <2>4. CASE ShouldFlush(batch')
      <3>1. at'[Gen] = "flush"
        BY <1>0, <1>2, <2>4, ActorsAre DEF SendBatch, Move
      <3>2. QED
        BY <1>0, <2>1, <2>3, <3>1 DEF BoundInv, Cap
    <2>5. CASE ~ShouldFlush(batch')
      <3>1. at'[Gen] = "idle"
        BY <1>0, <1>2, <2>5, ActorsAre DEF SendBatch, Move
      <3>2. Len(batch') < batchSize /\ Len(batch') < Cap
        BY <1>0, <1>a, <2>2, <2>5 DEF ShouldFlush
      <3>3. QED
        BY <1>0, <2>1, <2>3, <3>1, <3>2 DEF BoundInv, Cap
    <2>6. QED
      BY <2>4, <2>5
  <1>3. CASE GeneratorStops
    <2>1. at[Gen] = "idle" /\ at'[Gen] = "stopped" /\ batch' = batch /\ UNCHANGED <<batchSize, largest>>
      BY <1>0, <1>3, ActorsAre DEF GeneratorStops, Move, config
    <2>2. QED
      BY <2>1 DEF BoundInv, Cap
  <1>4. CASE \E e \in flights : SendAsync(e)
    BY <1>0, <1>4, SameBound DEF SendAsync, config
  <1>5. CASE \E l \in Loops : LoopStep(l)
    BY <1>0, <1>5, SameBound, ActorsAre DEF LoopStep, Select, Tick, LoopStops, Move, config
  <1>6. ASSUME NEW a \in Actors, Flush(a) PROVE BoundInv'
    <2>1. batch' = <<>> /\ Len(batch') = 0 /\ UNCHANGED <<batchSize, largest>>
      BY <1>6 DEF Flush, config
    <2>2. at'[Gen] = "append" => at[Gen] = "append" /\ hand'[Gen] = hand[Gen]
      <3>1. CASE a = Gen
        BY <1>0, <1>6, <3>1, AfterFlushPlace DEF Flush, Move
      <3>2. CASE a # Gen
        BY <1>0, <1>6, <3>2, ActorsAre DEF Flush, Move
      <3>3. QED
        BY <3>1, <3>2
    <2>3. Len(batch') < Cap /\ Len(batch') <= Cap
      BY <1>a, <2>1
    <2>4. QED
      BY <1>0, <2>1, <2>2, <2>3 DEF BoundInv, Cap
  <1>7. ASSUME NEW a \in Actors, WriteMessages(a) PROVE BoundInv'
    <2>1. CASE a = Gen
      <3>1. at[Gen] = "write" /\ at'[Gen] = "idle" /\ batch' = batch /\ UNCHANGED <<batchSize, largest>>
        BY <1>0, <1>7, <2>1, AfterFlushPlace DEF WriteMessages, Move, config
      <3>2. QED
        BY <3>1 DEF BoundInv, Cap
    <2>2. CASE a # Gen
      BY <1>0, <1>7, <2>2, SameBound, ActorsAre DEF WriteMessages, Move, config
    <2>3. QED
      BY <2>1, <2>2
  <1>8. CASE \E c \in Controls : HandleControl(c)
    BY <1>0, <1>8, SameBound DEF HandleControl, config
  <1>9. CASE UpdateConfig
    <2>1. batchSize' <= largest' /\ Cap <= Cap'
      <3>1. update \in Controls /\ cfgMode \in Modes
        BY <1>9 DEF UpdateConfig, MutexFree, TypeInv, TypeOK
      <3>2. batchSize' \in Int
        BY <1>9, <3>1, ControlValues DEF UpdateConfig
      <3>3. largest' = IF batchSize' > largest THEN batchSize' ELSE largest
        BY <1>9 DEF UpdateConfig
      <3>4. largest' \in Int /\ largest <= largest' /\ batchSize' <= largest'
        BY <1>0, <3>2, <3>3
      <3>5. QED
        BY <1>0, <3>4 DEF Cap
    <2>2. batch' = batch /\ hand' = hand /\ at'[Gen] = at[Gen]
      <3>1. CASE UNCHANGED at
        BY <1>9, <3>1 DEF UpdateConfig
      <3>2. CASE NewLoop(ticker') /\ ticker' = ticker + 1
        <4>1. ticker' # Gen
          BY <3>2 DEF TypeInv, TypeOK, Gen
        <4>2. QED
          BY <1>0, <1>9, <3>2, <4>1, ActorsAre DEF UpdateConfig, NewLoop, Move
      <3>3. QED
        BY <1>9, <3>1, <3>2 DEF UpdateConfig
    <2>3. Cap' \in Int
      <3>1. largest' \in Int
        BY <1>9, UpdateType DEF TypeInv, TypeOK
      <3>2. QED
        BY <3>1 DEF Cap
    <2>4. QED
      BY <1>0, <1>a, <2>1, <2>2, <2>3 DEF BoundInv
  <1>10. CASE Quit \/ Close \/ Exit
    BY <1>0, <1>10, SameBound, ActorsAre DEF Quit, Close, Exit, Move, config
  <1>11. CASE Exited \/ UNCHANGED vars
    BY <1>0, <1>11, SameBound DEF Exited, vars, config
  <1>12. CASE \E e \in Events : WriterWrites(e)
    BY <1>0, <1>12, SameBound DEF WriterWrites, config
  <1>13. QED
    BY <1>1, <1>2, <1>3, <1>4, <1>5, <1>6, <1>7, <1>8, <1>9, <1>10, <1>11, <1>12
       DEF Next, GeneratorStep, WriterStep

\* BatchBounded: the batch never outgrows the largest size configured so far, or one
\* message where that is smaller, for any sizes at the start and in the requests.  An
\* append and the test of the size are one critical section; the generator, which
\* alone appends, passes a batch that has reached the size on to Flush before the
\* next append, also when a request has made the size larger or smaller in between
\* or another goroutine has flushed the batch.
THEOREM BatchAlwaysBounded == Spec => []BatchBounded
  <1>1. BoundInv => BatchBounded
    BY DEF BoundInv, BatchBounded, Cap
  <1>2. QED
    BY TypeInvariant, InitBound, NextBound, <1>1, PTL DEF Spec

-----------------------------------------------------------------------------
(* Where the messages are *)

\* An event is in flight, in the batch or in the hands of a goroutine.
LEMMA InHandsIs ==
  /\ \A e : e \in InHands <=>
       e \in flights \/ e \in ToSet(batch) \/ \E a \in Actors : e \in ToSet(hand[a])
  /\ \A e : e \in InHands' <=>
       e \in flights' \/ e \in ToSet(batch') \/ \E a \in Actors : e \in ToSet(hand'[a])
  BY DEF InHands

\* The steps that move no message; the writer may write some.
Quiet ==
    /\ UNCHANGED <<cfgMode, flights, batch, hand, next, given, refused>>
    /\ written \subseteq written'

LEMMA QuietSteps ==
  ASSUME [Next]_vars
  PROVE  \/ Quiet \/ Send \/ SendBatch
         \/ \E e \in flights : SendAsync(e)
         \/ \E a \in Actors : Flush(a) \/ WriteMessages(a)
  <1>1. CASE GeneratorStops \/ Quit \/ Close \/ Exit
    BY <1>1 DEF GeneratorStops, Quit, Close, Exit, Quiet, config, kafka, calls
  <1>2. CASE \E l \in Loops : LoopStep(l)
    BY <1>2 DEF LoopStep, Select, Tick, LoopStops, Quiet, config, kafka, calls
  <1>3. CASE (\E c \in Controls : HandleControl(c)) \/ UpdateConfig
    BY <1>3 DEF HandleControl, UpdateConfig, Quiet, kafka, calls
  <1>4. CASE Exited \/ UNCHANGED vars
    BY <1>4 DEF Exited, vars, Quiet, config, kafka, calls
  <1>5. CASE \E e \in Events : WriterWrites(e)
    BY <1>5 DEF WriterWrites, Quiet, config, calls
  <1>6. QED
    BY <1>1, <1>2, <1>3, <1>4, <1>5 DEF Next, GeneratorStep, WriterStep

\* The messages a sequence of steps moves, as sets.
LEMMA FlushMoves ==
  ASSUME TypeInv, NEW a \in Actors, Flush(a)
  PROVE  /\ hand[a] = <<>> /\ hand'[a] = batch /\ batch' = <<>>
         /\ \A b \in Actors \ {a} : hand'[b] = hand[b]
         /\ UNCHANGED <<cfgMode, flights, next, written, given, refused>>
  BY DEF Flush, TypeInv, TypeOK, config, kafka, calls

LEMMA WriteMoves ==
  ASSUME TypeInv, NEW a \in Actors, WriteMessages(a)
  PROVE  /\ WriteReturns(ToSet(hand[a]))
         /\ hand'[a] = <<>>
         /\ \A b \in Actors \ {a} : hand'[b] = hand[b]
         /\ UNCHANGED <<cfgMode, flights, batch, next>>
  BY DEF WriteMessages, TypeInv, TypeOK, config

LEMMA AppendMoves ==
  ASSUME TypeInv, SendBatch
  PROVE  /\ batch \in Seq(Events) /\ hand[Gen] \in Seq(Events)
         /\ batch' = batch \o hand[Gen] /\ ToSet(batch') = ToSet(batch) \cup ToSet(hand[Gen])
         /\ hand'[Gen] = <<>>
         /\ \A b \in Actors \ {Gen} : hand'[b] = hand[b]
         /\ UNCHANGED <<cfgMode, flights, next, written, given, refused>>
  <1>1. batch \in Seq(Events) /\ hand[Gen] \in Seq(Events)
    BY ActorsAre DEF TypeInv, TypeOK
  <1>2. QED
    BY <1>1, ActorsAre, ToSetConcat DEF SendBatch, TypeInv, TypeOK, config, kafka, calls

\* The new event goes to the hands of the generator or to a goroutine of its own.
LEMMA SendMoves ==
  ASSUME TypeInv, Send
  PROVE  /\ next' = next + 1 /\ next \in Nat
         /\ UNCHANGED <<cfgMode, batch, written, given, refused>>
         /\ \A b \in Actors \ {Gen} : hand'[b] = hand[b]
         /\ \/ hand[Gen] = <<>> /\ hand'[Gen] = <<next + 1>> /\ flights' = flights
            \/ hand'[Gen] = hand[Gen] /\ flights' = flights \cup {next + 1}
  <1>1. hand[Gen] = <<>> /\ next \in Nat /\ hand \in [Actors -> Seq(Events)] /\ Gen \in Actors
    <2>1. Gen \in Actors /\ at[Gen] = "idle"
      BY ActorsAre DEF Send
    <2>2. hand[Gen] = <<>>
      BY <2>1 DEF TypeInv, TypeOK
    <2>3. QED
      BY <2>1, <2>2, ProducerBounds DEF TypeInv, TypeOK
  <1>2. next' = next + 1 /\ UNCHANGED <<cfgMode, batch, written, given, refused>>
    BY DEF Send, config, kafka, calls
  <1>3. \/ hand' = [hand EXCEPT ![Gen] = <<next + 1>>] /\ flights' = flights
        \/ hand' = hand /\ flights' = flights \cup {next + 1}
    BY DEF Send
  <1>4. QED
    BY <1>1, <1>2, <1>3

-----------------------------------------------------------------------------
(* No event is dropped *)

\* NothingDropped while the process runs.
Held == cfgMode # "async" => 1..next \subseteq InHands \cup written \cup refused

LEMMA InitDropped == Init => NothingDropped
  BY DEF Init, NothingDropped

LEMMA NextHeld == TypeInv /\ Held /\ [Next]_vars => Held'
  <1> SUFFICES ASSUME TypeInv, Held, [Next]_vars, cfgMode' # "async",
                      NEW e \in 1..next'
               PROVE  e \in InHands' \/ e \in written' \/ e \in refused'
    BY DEF Held
  <1>0. cfgMode # "async" /\ e \in 1..next =>
          e \in InHands \/ e \in written \/ e \in refused
    BY DEF Held
  <1>1. CASE Quiet
    BY <1>0, <1>1, InHandsIs DEF Quiet
  <1>2. CASE Send
    <2>1. e \in 1..next \/ e = next + 1
      BY <1>2, SendMoves
    <2>2. ToSet(<<next + 1>>) = {next + 1} /\ ToSet(<<>>) = {}
      BY ToSetSingle, ToSetEmpty
    <2>3. next + 1 \in InHands'
      BY <1>2, <2>2, SendMoves, InHandsIs, ActorsAre
    <2>4. e \in InHands => e \in InHands'
      BY <1>2, <2>2, SendMoves, InHandsIs, ActorsAre
    <2>5. QED
      BY <1>0, <1>2, <2>1, <2>3, <2>4, SendMoves
  <1>3. CASE SendBatch
    <2>1. e \in InHands => e \in InHands'
      BY <1>3, AppendMoves, InHandsIs, ActorsAre
    <2>2. QED
      BY <1>0, <1>3, <2>1, AppendMoves
  <1>4. ASSUME NEW f \in flights, SendAsync(f)
        PROVE  e \in InHands' \/ e \in written' \/ e \in refused'
    <2>1. /\ WriteReturns({f}) /\ flights' = flights \ {f}
          /\ UNCHANGED <<cfgMode, batch, hand, next>>
      BY <1>4 DEF SendAsync, config
    <2>2. e \in InHands => e \in InHands' \/ e = f
      BY <2>1, InHandsIs
    <2>3. QED
      BY <1>0, <2>1, <2>2, WriteAccounts
  <1>5. ASSUME NEW a \in Actors, Flush(a)
        PROVE  e \in InHands' \/ e \in written' \/ e \in refused'
    <2>1. e \in InHands => e \in InHands'
      BY <1>5, FlushMoves, InHandsIs, ToSetEmpty
    <2>2. QED
      BY <1>0, <1>5, <2>1, FlushMoves
  <1>6. ASSUME NEW a \in Actors, WriteMessages(a)
        PROVE  e \in InHands' \/ e \in written' \/ e \in refused'
    <2>1. e \in InHands => e \in InHands' \/ e \in ToSet(hand[a])
      BY <1>6, WriteMoves, InHandsIs
    <2>2. QED
      BY <1>0, <1>6, <2>1, WriteMoves, WriteAccounts
  <1>7. QED
    BY <1>1, <1>2, <1>3, <1>4, <1>5, <1>6, QuietSteps

\* When main exits, the generator has stopped and the batch is empty: what is held is
\* held by calls that nobody waits for.
LEMMA ExitHands ==
  ASSUME TypeInv, ShutInv, Exit
  PROVE  InHands \subseteq Interrupted
  <1>1. at[Main] = "close" /\ at[Gen] = "stopped" /\ batch = <<>>
    BY DEF Exit, ShutInv
  <1>2. hand[Main] = <<>> /\ hand[Gen] = <<>>
    BY <1>1, ActorsAre DEF TypeInv, TypeOK
  <1>3. QED
    BY <1>1, <1>2, ActorsAre, ToSetEmpty DEF InHands, Interrupted

\* Nothing but Exit ends the process, and nothing happens after it.
LEMMA Exiting ==
  ASSUME TypeInv, [Next]_vars
  PROVE  (Running /\ Running') \/ Exit \/ UNCHANGED vars
  <1> USE ActorsAre DEF Running
  <1>0. at \in [Actors -> Places]
    BY DEF TypeInv, TypeOK
  <1>1. CASE GeneratorStep
    BY <1>0, <1>1 DEF GeneratorStep, Send, SendBatch, GeneratorStops, Move
  <1>2. CASE (\E e \in flights : SendAsync(e)) \/ (\E e \in Events : WriterWrites(e))
    BY <1>2 DEF SendAsync, WriterWrites
  <1>3. CASE \E l \in Loops : LoopStep(l)
    BY <1>0, <1>3 DEF LoopStep, Select, Tick, LoopStops, Move
  <1>4. CASE \E a \in Actors : WriterStep(a)
    BY <1>0, <1>4, AfterFlushPlace DEF WriterStep, Flush, WriteMessages, Move
  <1>5. CASE \E c \in Controls : HandleControl(c)
    BY <1>5 DEF HandleControl
  <1>6. CASE UpdateConfig
    <2>1. CASE UNCHANGED at
      BY <1>6, <2>1 DEF UpdateConfig
    <2>2. CASE NewLoop(ticker')
      BY <1>0, <1>6, <2>2 DEF UpdateConfig, NewLoop, Move
    <2>3. QED
      BY <1>6, <2>1, <2>2 DEF UpdateConfig
  <1>7. CASE Quit
    BY <1>7 DEF Quit
  <1>8. CASE Close
    BY <1>0, <1>8 DEF Close, WaitDone, Move
  <1>9. CASE Exited
    BY <1>9 DEF Exited
  <1>10. QED
    BY <1>1, <1>2, <1>3, <1>4, <1>5, <1>6, <1>7, <1>8, <1>9 DEF Next

LEMMA NextDropped == TypeInv /\ ShutInv /\ NothingDropped /\ [Next]_vars => NothingDropped'
  <1> SUFFICES ASSUME TypeInv, ShutInv, NothingDropped, [Next]_vars PROVE NothingDropped'
    OBVIOUS
  <1>1. CASE Running /\ Running'
    <2>1. Held
      BY <1>1 DEF NothingDropped, Held
    <2>2. Held'
      BY <2>1, NextHeld
    <2>3. QED
      BY <1>1, <2>2 DEF NothingDropped, Held
  <1>2. CASE Exit
    <2>1. Running
      BY <1>2 DEF Exit, Running
    <2>2. InHands \subseteq Interrupted
      BY <1>2, ExitHands
    <2>3. cfgMode # "async" => 1..next \subseteq written \cup refused \cup Interrupted
      BY <2>1, <2>2 DEF NothingDropped
    <2>4. UNCHANGED <<cfgMode, next, written, refused, flights, hand>>
      BY <1>2 DEF Exit, config, kafka, calls
    <2>5. Interrupted' = Interrupted
      BY <2>4 DEF Interrupted
    <2>6. Interrupted' \subseteq InHands'
      BY ActorsAre DEF Interrupted, InHands
    <2>7. QED
      BY <2>3, <2>4, <2>5, <2>6 DEF NothingDropped
  <1>3. CASE UNCHANGED vars
    <2>1. UNCHANGED <<cfgMode, next, written, refused, flights, hand, batch, at>>
      BY <1>3 DEF vars, config, kafka, calls
    <2>2. UNCHANGED <<Running, InHands, Interrupted>>
      BY <2>1 DEF Running, InHands, Interrupted
    <2>3. QED
      BY <2>1, <2>2 DEF NothingDropped
  <1>4. QED
    BY <1>1, <1>2, <1>3, Exiting

\* NothingDropped: with a synchronous writer every event that Send has accepted is
\* in the topic, still held, or counted as failed, for any interleaving of the
\* generator, the flushLoops, the requests to /control and the shutdown; when the
\* process has ended, what is lost was in calls of flushLoops and of sendAsync that
\* main does not wait for, never in the batch or with the generator.
THEOREM NoEventDropped == Spec => []NothingDropped
  BY TypeInvariant, InitShut, NextShut, InitDropped, NextDropped, PTL DEF Spec

-----------------------------------------------------------------------------
(* No event is sent twice *)

\* Nothing is anywhere that was not generated, so the next event is nowhere yet.
OnceInv ==
    /\ SentOnce
    /\ InHands \cup given \subseteq 1..next

\* SentOnce taken apart, for this state and for the next.
Apart(L, B, F, H) ==
    /\ IsInjective(B)
    /\ L \cap ToSet(B) = {} /\ L \cap F = {} /\ ToSet(B) \cap F = {}
    /\ \A a \in Actors :
         /\ IsInjective(H[a])
         /\ L \cap ToSet(H[a]) = {}
         /\ ToSet(B) \cap ToSet(H[a]) = {}
         /\ F \cap ToSet(H[a]) = {}
    /\ \A a, b \in Actors : a # b => ToSet(H[a]) \cap ToSet(H[b]) = {}

LEMMA OnceIsApart ==
  /\ SentOnce <=> Apart(given, batch, flights, hand)
  /\ SentOnce' <=> Apart(given', batch', flights', hand')
  <1>1. SentOnce => Apart(given, batch, flights, hand)
    BY InHandsIs DEF SentOnce, Apart
  <1>2. Apart(given, batch, flights, hand) => SentOnce
    BY InHandsIs DEF SentOnce, Apart
  <1>3. SentOnce' => Apart(given', batch', flights', hand')
    BY InHandsIs DEF SentOnce, Apart
  <1>4. Apart(given', batch', flights', hand') => SentOnce'
    BY InHandsIs DEF SentOnce, Apart
  <1>5. QED
    BY <1>1, <1>2, <1>3, <1>4

\* Messages stay apart when those of one goroutine, the topic, the batch and the
\* flights are, and none of them is in the hands of another goroutine.
LEMMA ApartReplaced ==
  ASSUME NEW L, NEW B, NEW F, NEW H, NEW M, NEW C, NEW G, NEW K, NEW g \in Actors,
         Apart(L, B, F, H),
         \A b \in Actors \ {g} : K[b] = H[b],
         IsInjective(C), IsInjective(K[g]),
         M \cap ToSet(C) = {}, M \cap G = {}, ToSet(C) \cap G = {},
         M \cap ToSet(K[g]) = {}, ToSet(C) \cap ToSet(K[g]) = {},
         G \cap ToSet(K[g]) = {},
         \A b \in Actors \ {g} :
           (M \cup ToSet(C) \cup G \cup ToSet(K[g])) \cap ToSet(H[b]) = {}
  PROVE  Apart(M, C, G, K)
  <1>1. \A b \in Actors \ {g} : ToSet(K[b]) = ToSet(H[b]) /\ IsInjective(K[b])
    BY DEF Apart
  <1>2. ASSUME NEW a \in Actors
        PROVE  /\ IsInjective(K[a]) /\ M \cap ToSet(K[a]) = {}
               /\ ToSet(C) \cap ToSet(K[a]) = {} /\ G \cap ToSet(K[a]) = {}
    BY <1>1
  <1>3. ASSUME NEW a \in Actors, NEW b \in Actors, a # b
        PROVE  ToSet(K[a]) \cap ToSet(K[b]) = {}
    <2>1. CASE a = g
      BY <1>1, <1>3, <2>1
    <2>2. CASE b = g
      BY <1>1, <1>3, <2>2
    <2>3. CASE a # g /\ b # g
      BY <1>1, <1>3, <2>3 DEF Apart
    <2>4. QED
      BY <2>1, <2>2, <2>3
  <1>4. QED
    BY <1>2, <1>3 DEF Apart

LEMMA InjectiveShort ==
  /\ IsInjective(<<>>)
  /\ \A e : IsInjective(<<e>>)
  BY DEF IsInjective

LEMMA InitOnce == Init => OnceInv
  <1> SUFFICES ASSUME Init PROVE OnceInv
    OBVIOUS
  <1>1. /\ given = {} /\ batch = <<>> /\ flights = {}
        /\ \A a \in Actors : hand[a] = <<>>
    BY DEF Init
  <1>2. Apart(given, batch, flights, hand)
    BY <1>1, InjectiveShort, ToSetEmpty DEF Apart
  <1>3. InHands \cup given \subseteq 1..next
    BY <1>1, ToSetEmpty, InHandsIs
  <1>4. QED
    BY <1>2, <1>3, OnceIsApart DEF OnceInv

LEMMA NextOnce == TypeInv /\ OnceInv /\ [Next]_vars => OnceInv'
  <1> SUFFICES ASSUME TypeInv, OnceInv, [Next]_vars PROVE OnceInv'
    OBVIOUS
  <1>0. Apart(given, batch, flights, hand)
    BY OnceIsApart DEF OnceInv
  <1>a. InHands \subseteq 1..next /\ given \subseteq 1..next
    BY DEF OnceInv
  <1>b. SUFFICES /\ Apart(given', batch', flights', hand')
                 /\ InHands' \subseteq 1..next' /\ given' \subseteq 1..next'
    BY OnceIsApart DEF OnceInv
  <1>1. CASE Quiet
    BY <1>0, <1>1, <1>a, InHandsIs DEF Quiet
  <1>2. CASE Send
    <2>0. /\ ToSet(<<next + 1>>) = {next + 1} /\ ToSet(<<>>) = {}
          /\ IsInjective(<<next + 1>>)
      BY ToSetSingle, ToSetEmpty, InjectiveShort
    <2>1. next + 1 \notin 1..next /\ 1..next \subseteq 1..next' /\ next + 1 \in 1..next'
      BY <1>2, SendMoves
    <2>2. next + 1 \notin InHands /\ next + 1 \notin given
      BY <1>a, <2>1
    <2>3. /\ next + 1 \notin flights /\ next + 1 \notin ToSet(batch)
          /\ \A a \in Actors : next + 1 \notin ToSet(hand[a])
      BY <2>2, InHandsIs
    <2>4. ASSUME hand[Gen] = <<>>, hand'[Gen] = <<next + 1>>, flights' = flights
          PROVE  Apart(given', batch', flights', hand')
      <3>1. \A b \in Actors \ {Gen} :
              (given' \cup ToSet(batch') \cup flights' \cup ToSet(hand'[Gen]))
                \cap ToSet(hand[b]) = {}
        BY <1>0, <1>2, <2>0, <2>3, <2>4, SendMoves DEF Apart
      <3>2. /\ given' \cap ToSet(hand'[Gen]) = {} /\ ToSet(batch') \cap ToSet(hand'[Gen]) = {}
            /\ flights' \cap ToSet(hand'[Gen]) = {} /\ IsInjective(hand'[Gen])
        BY <1>2, <2>0, <2>2, <2>3, <2>4, SendMoves
      <3>3. /\ IsInjective(batch')
            /\ given' \cap ToSet(batch') = {} /\ given' \cap flights' = {}
            /\ ToSet(batch') \cap flights' = {}
        BY <1>0, <1>2, <2>4, SendMoves DEF Apart
      <3>4. Gen \in Actors /\ \A b \in Actors \ {Gen} : hand'[b] = hand[b]
        BY <1>2, SendMoves, ActorsAre
      <3>5. QED
        BY <1>0, <3>1, <3>2, <3>3, <3>4, ApartReplaced
    <2>5. ASSUME hand'[Gen] = hand[Gen], flights' = flights \cup {next + 1}
          PROVE  Apart(given', batch', flights', hand')
      <3>1. \A b \in Actors : hand'[b] = hand[b]
        BY <1>2, <2>5, SendMoves
      <3>2. UNCHANGED <<given, batch>>
        BY <1>2, SendMoves
      <3>3. \A b \in Actors \ {Gen} :
              (given' \cup ToSet(batch') \cup flights' \cup ToSet(hand'[Gen]))
                \cap ToSet(hand[b]) = {}
        BY <1>0, <2>3, <2>5, <3>2, ActorsAre DEF Apart
      <3>4. /\ given' \cap ToSet(hand'[Gen]) = {} /\ ToSet(batch') \cap ToSet(hand'[Gen]) = {}
            /\ flights' \cap ToSet(hand'[Gen]) = {} /\ IsInjective(hand'[Gen])
        BY <1>0, <2>3, <2>5, <3>2, ActorsAre DEF Apart
      <3>5. /\ IsInjective(batch')
            /\ given' \cap ToSet(batch') = {} /\ given' \cap flights' = {}
            /\ ToSet(batch') \cap flights' = {}
        BY <1>0, <2>2, <2>3, <2>5, <3>2 DEF Apart
      <3>6. QED
        BY <1>0, <3>1, <3>3, <3>4, <3>5, ActorsAre, ApartReplaced
    <2>6. Apart(given', batch', flights', hand')
      BY <1>2, <2>4, <2>5, SendMoves
    <2>7. \A e : e \in InHands' => e \in InHands \/ e = next + 1
      BY <1>2, <2>0, SendMoves, InHandsIs, ActorsAre
    <2>8. QED
      BY <1>2, <1>a, <2>1, <2>6, <2>7, SendMoves
  <1>3. CASE SendBatch
    <2>1. Apart(given', batch', flights', hand')
      <3>1. IsInjective(batch')
        <4>1. /\ batch \in Seq(Events) /\ hand[Gen] \in Seq(Events)
              /\ batch' = batch \o hand[Gen]
          BY <1>3, AppendMoves
        <4>2. /\ IsInjective(batch) /\ IsInjective(hand[Gen])
              /\ ToSet(batch) \cap ToSet(hand[Gen]) = {}
          BY <1>0, ActorsAre DEF Apart
        <4>3. IsInjective(batch \o hand[Gen])
          BY <4>1, <4>2, InjectiveConcat
        <4>4. QED
          BY <4>1, <4>3
      <3>2. ToSet(hand'[Gen]) = {} /\ IsInjective(hand'[Gen])
        BY <1>3, AppendMoves, ToSetEmpty, InjectiveShort
      <3>3. /\ ToSet(batch') = ToSet(batch) \cup ToSet(hand[Gen])
            /\ given' = given /\ flights' = flights
            /\ \A b \in Actors \ {Gen} : hand'[b] = hand[b]
        BY <1>3, AppendMoves
      <3>4. \A b \in Actors \ {Gen} :
              (given' \cup ToSet(batch') \cup flights' \cup ToSet(hand'[Gen]))
                \cap ToSet(hand[b]) = {}
        BY <1>0, <3>2, <3>3, ActorsAre DEF Apart
      <3>5. /\ given' \cap ToSet(batch') = {}
            /\ given' \cap flights' = {} /\ ToSet(batch') \cap flights' = {}
        BY <1>0, <3>3, ActorsAre DEF Apart
      <3>6. /\ given' \cap ToSet(hand'[Gen]) = {} /\ ToSet(batch') \cap ToSet(hand'[Gen]) = {}
            /\ flights' \cap ToSet(hand'[Gen]) = {} /\ IsInjective(hand'[Gen])
        BY <3>2
      <3>7. Gen \in Actors /\ \A b \in Actors \ {Gen} : hand'[b] = hand[b]
        BY <3>3, ActorsAre
      <3>8. QED
        BY <1>0, <3>1, <3>4, <3>5, <3>6, <3>7, ApartReplaced
    <2>2. \A e : e \in InHands' => e \in InHands
      BY <1>3, AppendMoves, InHandsIs, ActorsAre, ToSetEmpty
    <2>3. QED
      BY <1>3, <1>a, <2>1, <2>2, AppendMoves
  <1>4. ASSUME NEW f \in flights, SendAsync(f)
        PROVE  /\ Apart(given', batch', flights', hand')
               /\ InHands' \subseteq 1..next' /\ given' \subseteq 1..next'
    <2>1. /\ WriteReturns({f}) /\ flights' = flights \ {f}
          /\ UNCHANGED <<cfgMode, batch, hand, next>>
      BY <1>4 DEF SendAsync, config
    <2>2. given' = given \cup {f}
      BY <2>1, WriteAccounts
    <2>3. Apart(given', batch', flights', hand')
      BY <1>0, <2>1, <2>2 DEF Apart
    <2>4. f \in InHands /\ \A e : e \in InHands' => e \in InHands
      BY <2>1, InHandsIs
    <2>5. QED
      BY <1>a, <2>1, <2>2, <2>3, <2>4
  <1>5. ASSUME NEW a \in Actors, Flush(a)
        PROVE  /\ Apart(given', batch', flights', hand')
               /\ InHands' \subseteq 1..next' /\ given' \subseteq 1..next'
    <2>1. Apart(given', batch', flights', hand')
      BY <1>0, <1>5, FlushMoves, ToSetEmpty, InjectiveShort DEF Apart
    <2>2. \A e : e \in InHands' => e \in InHands
      BY <1>5, FlushMoves, InHandsIs, ToSetEmpty
    <2>3. QED
      BY <1>5, <1>a, <2>1, <2>2, FlushMoves
  <1>6. ASSUME NEW a \in Actors, WriteMessages(a)
        PROVE  /\ Apart(given', batch', flights', hand')
               /\ InHands' \subseteq 1..next' /\ given' \subseteq 1..next'
    <2>1. given' = given \cup ToSet(hand[a])
      BY <1>6, WriteMoves, WriteAccounts
    <2>2. ToSet(hand'[a]) = {} /\ IsInjective(hand'[a])
      BY <1>6, WriteMoves, ToSetEmpty, InjectiveShort
    <2>3. Apart(given', batch', flights', hand')
      BY <1>0, <1>6, <2>1, <2>2, WriteMoves DEF Apart
    <2>4. ToSet(hand[a]) \subseteq InHands /\ \A e : e \in InHands' => e \in InHands
      BY <1>6, <2>2, WriteMoves, InHandsIs
    <2>5. QED
      BY <1>6, <1>a, <2>1, <2>3, <2>4, WriteMoves
  <1>7. QED
    BY <1>1, <1>2, <1>3, <1>4, <1>5, <1>6, QuietSteps

\* SentOnce: no interleaving of the generator, several flushLoops, sendAsync's
\* goroutines and Close gives an event to WriteMessages twice, or leaves one that was
\* given in the batch.  What the writer repeats when an answer is lost is its own.
THEOREM NoEventSentTwice == Spec => []SentOnce
  <1>1. OnceInv => SentOnce
    BY DEF OnceInv
  <1>2. QED
    BY TypeInvariant, InitOnce, NextOnce, <1>1, PTL DEF Spec
=============================================================================
