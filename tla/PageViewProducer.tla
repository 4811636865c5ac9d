-------------------------- MODULE PageViewProducer --------------------------
(***************************************************************************)
(* pv-producer: the goroutine of runGenerator sends page views through     *)
(* Producer.Send in one of three modes, flushLoop goroutines flush the     *)
(* shared batch at every tick, POST /control changes the mode, the batch   *)
(* size and the ticker while they run, and main flushes at shutdown.       *)
(*                                                                         *)
(* Critical sections of batchMu are single actions, except UpdateConfig:   *)
(* Send reads sendMode without the mutex.  That read races with the write  *)
(* of the string (two words, pointer and length); when the lengths differ, *)
(* a torn value equals no mode and takes Send's default, so sendMode is    *)
(* "torn" while UpdateConfig writes it.  "async" and "batch" are of one    *)
(* length: there a reader sees the old or the new mode.  A string that is  *)
(* no mode is sent like "sync" and is left out.                            *)
(*                                                                         *)
(* A flushLoop evaluates p.flushTicker.C when it enters its select and     *)
(* then waits on that ticker, also when UpdateConfig has replaced it.  A   *)
(* stopped ticker leaves no tick behind (Go 1.23 and later; go.mod asks    *)
(* for 1.25).                                                              *)
(*                                                                         *)
(* Kafka's writer is external.  It writes the messages of a call while the *)
(* call waits and may write those of a call that has failed later or never.*)
(* WriteMessages that returns nil has written its messages, unless the     *)
(* writer is asynchronous.  When the broker's answer is lost the writer    *)
(* writes a message again: written is the set of messages that are in the  *)
(* topic at least once, so that a repetition changes nothing here.         *)
(*                                                                         *)
(* Events are numbered in the order they are generated; what they hold,    *)
(* the pace of the generator and latencies are left out.  given, refused   *)
(* and largest are history variables.                                      *)
(***************************************************************************)
EXTENDS Integers, Sequences, FiniteSets, SequencesExt

CONSTANTS
    StartModes,      \* values of SEND_MODE considered
    BatchSize,       \* BATCH_SIZE
    FlushIntervalMs, \* FLUSH_MS
    Controls,        \* requests to /control considered
    NoControl,       \* not a request: nobody runs UpdateConfig
    MaxEvents,       \* bound on events generated
    MaxControls      \* bound on requests to /control

\* Load takes any number; NewProducer panics for a negative BATCH_SIZE, and in
\* batch mode for a FLUSH_MS that is not positive.
ASSUME ProducerBounds ==
    /\ BatchSize \in Nat
    /\ FlushIntervalMs \in Int /\ ("batch" \in StartModes => FlushIntervalMs > 0)
    /\ MaxEvents \in Nat
    /\ MaxControls \in Nat
ASSUME ControlsAssumption ==
    /\ NoControl \notin Controls
    /\ \A c \in Controls :
         /\ c.sendMode \in {"", "sync", "async", "batch"}
         /\ c.batchSize \in Int /\ c.flushMs \in Int
         /\ c.strategy \in BOOLEAN   \* a strategy is given
ASSUME StartModesAssumption == StartModes \subseteq {"sync", "async", "batch"}

Events == 1..MaxEvents
Modes == {"sync", "async", "batch"}

\* The goroutines that write: main, runGenerator and one flushLoop per ticker.
Main == -1
Gen == 0
Loops == 1..(MaxControls + 1)
Actors == {Main, Gen} \cup Loops

VARIABLES
    cfgMode,    \* cfg.SendMode, fixed at start
    sendMode,   \* p.sendMode
    batchSize,  \* p.batchSize
    ticker,     \* p.flushTicker: the number of the last ticker, 0 for nil
    ticking,    \* that ticker has not been stopped
    stopFlush,  \* p.stopFlush is closed
    batch,      \* p.batch
    update,     \* the request whose UpdateConfig holds batchMu
    controls,   \* requests to /control so far
    at,         \* where each goroutine is
    on,         \* the ticker each flushLoop waits on
    hand,       \* messages of each goroutine's WriteMessages
    flights,    \* events in the goroutines of sendAsync
    next,       \* events generated so far
    written,    \* events that are in the topic, once or repeatedly
    quit,       \* the signal has arrived: ctx is cancelled
    given,      \* events of WriteMessages calls that have returned
    refused,    \* those of calls that returned an error
    largest     \* the largest batch size configured so far

config == <<cfgMode, sendMode, batchSize, largest>>
timer  == <<ticker, ticking, stopFlush>>
admin  == <<update, controls>>
calls  == <<given, refused>>
kafka  == <<written, calls>>
vars   == <<config, timer, admin, batch, at, on, hand, flights, next, kafka, quit>>

\* idle, append, flush, write and stopped: runGenerator; none to exited: the
\* flushLoops; idle, flush, write, close and exited: main.
Places == {"idle", "append", "stopped", "none", "ready", "wait",
           "flush", "write", "close", "exited"}

\* NewProducer: in batch mode a ticker and its flushLoop start at once.
Init ==
    /\ cfgMode \in StartModes
    /\ sendMode = cfgMode
    /\ batchSize = BatchSize
    /\ ticker = IF cfgMode = "batch" THEN 1 ELSE 0
    /\ ticking = (cfgMode = "batch")
    /\ stopFlush = FALSE
    /\ batch = <<>>
    /\ update = NoControl /\ controls = 0
    /\ at = [a \in Actors |-> IF a \notin Loops THEN "idle"
                              ELSE IF a = ticker THEN "ready" ELSE "none"]
    /\ on = [l \in Loops |-> 0]
    /\ hand = [a \in Actors |-> <<>>]
    /\ flights = {}
    /\ next = 0
    /\ written = {}
    /\ quit = FALSE
    /\ given = {} /\ refused = {}
    /\ largest = BatchSize

Running == at[Main] # "exited"
MutexFree == update = NoControl
Move(a, place) == at' = [at EXCEPT ![a] = place]

-----------------------------------------------------------------------------
(* kafka.Writer *)

\* The messages of the WriteMessages calls under way.
InCalls == flights \cup UNION {ToSet(hand[a]) : a \in {b \in Actors : at[b] = "write"}}

\* What calls that have returned have left with the writer: with an asynchronous
\* one everything, else what was not acknowledged in time.
Left == IF cfgMode = "async" THEN given ELSE refused

\* The writer writes a message.
WriterWrites(e) ==
    /\ Running /\ e \in (InCalls \cup Left) \ written
    /\ written' = written \cup {e}
    /\ UNCHANGED <<config, timer, admin, batch, at, on, hand, flights, next, calls, quit>>

\* WriteMessages of the events E returns nil, or an error, for which RecordFailed is
\* called.
WriteReturns(E) ==
    /\ given' = given \cup E
    /\ \/ (E \subseteq written \/ cfgMode = "async") /\ UNCHANGED refused
       \/ refused' = refused \cup E
    /\ UNCHANGED written

-----------------------------------------------------------------------------
(* Producer.Flush, called by runGenerator, the flushLoops and Close *)

\* Where the goroutine goes when Flush (or WriteMessages) returns.
AfterFlush(a) == IF a = Gen THEN "idle" ELSE IF a = Main THEN "close" ELSE "ready"

\* Mutant: the batch is cleared before it is copied.
Flush_ClearedFirst(a) ==
    /\ Running /\ at[a] = "flush" /\ MutexFree
    /\ batch' = <<>>
    /\ Move(a, AfterFlush(a))
    /\ UNCHANGED <<config, timer, admin, on, hand, flights, next, kafka, quit>>
\* Mutant: the batch is copied and never cleared.
Flush_NotCleared(a) ==
    /\ Running /\ at[a] = "flush" /\ MutexFree
    /\ hand' = [hand EXCEPT ![a] = batch]
    /\ Move(a, IF batch = <<>> THEN AfterFlush(a) ELSE "write")
    /\ UNCHANGED <<config, timer, admin, batch, on, flights, next, kafka, quit>>
\* Mutant: an empty batch is written too.
Flush_EmptyWritten(a) ==
    /\ Running /\ at[a] = "flush" /\ MutexFree
    /\ hand' = [hand EXCEPT ![a] = batch]
    /\ batch' = <<>>
    /\ Move(a, "write")
    /\ UNCHANGED <<config, timer, admin, on, flights, next, kafka, quit>>
\* The critical section of Flush: the batch is copied and cleared.
Flush(a) ==
    /\ Running /\ at[a] = "flush" /\ MutexFree
    /\ hand' = [hand EXCEPT ![a] = batch]
    /\ batch' = <<>>
    /\ Move(a, IF batch = <<>> THEN AfterFlush(a) ELSE "write")
    /\ UNCHANGED <<config, timer, admin, on, flights, next, kafka, quit>>

\* WriteMessages of Flush and sendSync; an error is counted and logged, and the
\* messages are not kept.
WriteMessages(a) ==
    /\ Running /\ at[a] = "write"
    /\ WriteReturns(ToSet(hand[a]))
    /\ hand' = [hand EXCEPT ![a] = <<>>]
    /\ Move(a, AfterFlush(a))
    /\ UNCHANGED <<config, timer, admin, batch, on, flights, next, quit>>

-----------------------------------------------------------------------------
(* runGenerator and Producer.Send *)

\* Send of the next event, up to its first wait.  sendAsync returns while its
\* goroutine runs.
Send ==
    LET e == next + 1 IN
    /\ Running /\ at[Gen] = "idle" /\ next < MaxEvents
    /\ next' = e
    /\ \/ /\ sendMode = "batch"
          /\ hand' = [hand EXCEPT ![Gen] = <<e>>]
          /\ Move(Gen, "append")
          /\ UNCHANGED flights
       \/ /\ sendMode = "async"
          /\ flights' = flights \cup {e}
          /\ UNCHANGED <<hand, at>>
       \/ /\ sendMode \notin {"batch", "async"}
          /\ hand' = [hand EXCEPT ![Gen] = <<e>>]
          /\ Move(Gen, "write")
          /\ UNCHANGED flights
    /\ UNCHANGED <<config, timer, admin, batch, on, kafka, quit>>

\* Mutant: the batch is flushed one message late.
ShouldFlush_Late(b) == Len(b) > batchSize
ShouldFlush(b) == Len(b) >= batchSize

\* The critical section of sendBatch.
SendBatch ==
    /\ Running /\ at[Gen] = "append" /\ MutexFree
    /\ batch' = batch \o hand[Gen]
    /\ hand' = [hand EXCEPT ![Gen] = <<>>]
    /\ Move(Gen, IF ShouldFlush(batch') THEN "flush" ELSE "idle")
    /\ UNCHANGED <<config, timer, admin, on, flights, next, kafka, quit>>

\* The goroutine of sendAsync.
SendAsync(e) ==
    /\ Running /\ e \in flights
    /\ WriteReturns({e})
    /\ flights' = flights \ {e}
    /\ UNCHANGED <<config, timer, admin, batch, at, on, hand, next, quit>>

-----------------------------------------------------------------------------
(* flushLoop *)

Select(l) ==
    /\ Running /\ at[l] = "ready"
    /\ on' = [on EXCEPT ![l] = ticker]
    /\ Move(l, "wait")
    /\ UNCHANGED <<config, timer, admin, batch, hand, flights, next, kafka, quit>>

Tick(l) ==
    /\ Running /\ at[l] = "wait"
    /\ on[l] = ticker /\ ticking
    /\ Move(l, "flush")
    /\ UNCHANGED <<config, timer, admin, batch, on, hand, flights, next, kafka, quit>>

LoopStops(l) ==
    /\ Running /\ at[l] = "wait" /\ stopFlush
    /\ Move(l, "exited")
    /\ UNCHANGED <<config, timer, admin, batch, on, hand, flights, next, kafka, quit>>

-----------------------------------------------------------------------------
(* POST /control *)

\* What is absent from a request is taken from the configuration at start.
ModeOf(c)  == IF c.sendMode = "" THEN cfgMode ELSE c.sendMode
SizeOf(c)  == IF c.batchSize = 0 THEN BatchSize ELSE c.batchSize
FlushOf(c) == IF c.flushMs = 0 THEN FlushIntervalMs ELSE c.flushMs
Changes(c) == c.sendMode # "" \/ c.batchSize > 0 \/ c.flushMs > 0 \/ c.strategy

\* HandleControl up to the assignment of sendMode in UpdateConfig.
HandleControl(c) ==
    /\ Running /\ MutexFree /\ controls < MaxControls
    /\ controls' = controls + 1
    /\ Changes(c)
    /\ update' = c
    /\ sendMode' = IF (sendMode = "sync") = (ModeOf(c) = "sync")
                     THEN sendMode ELSE "torn"
    /\ UNCHANGED <<cfgMode, batchSize, largest, timer, batch, at, on, hand, flights,
                   next, kafka, quit>>

\* Mutant: the running flushLoop is expected to follow the new ticker.
NewLoop_Reused(l) == UNCHANGED at
\* go p.flushLoop()
NewLoop(l) == Move(l, "ready")

\* The rest of UpdateConfig.  NewTicker panics for an interval that is not
\* positive; the panic ends the request and the deferred Unlock still runs.
UpdateConfig ==
    /\ Running /\ ~MutexFree
    /\ sendMode' = ModeOf(update)
    /\ batchSize' = SizeOf(update)
    /\ largest' = IF batchSize' > largest THEN batchSize' ELSE largest
    /\ \/ /\ sendMode' = "batch" /\ FlushOf(update) > 0
          /\ ticker' = ticker + 1
          /\ ticking' = TRUE
          /\ NewLoop(ticker')
       \/ /\ ~(sendMode' = "batch" /\ FlushOf(update) > 0)
          /\ ticking' = FALSE
          /\ UNCHANGED <<ticker, at>>
    /\ update' = NoControl
    /\ UNCHANGED <<cfgMode, stopFlush, controls, batch, on, hand, flights, next,
                   kafka, quit>>

-----------------------------------------------------------------------------
(* Shutdown *)

\* The signal; cancel().
Quit ==
    /\ Running /\ ~quit
    /\ quit' = TRUE
    /\ UNCHANGED <<config, timer, admin, batch, at, on, hand, flights, next, kafka>>

\* ctx.Done in runGenerator's select.
GeneratorStops ==
    /\ Running /\ quit /\ at[Gen] = "idle"
    /\ Move(Gen, "stopped")
    /\ UNCHANGED <<config, timer, admin, batch, on, hand, flights, next, kafka, quit>>

\* Mutant: main does not wait for runGenerator.
WaitDone_Skipped == quit
\* wg.Wait()
WaitDone == quit /\ at[Gen] = "stopped"

\* Mutant: Close flushes only what a flushLoop would have flushed.
Close_OnlyTicking ==
    /\ WaitDone /\ at[Main] = "idle"
    /\ IF ticker # 0
         THEN ticking' = FALSE /\ stopFlush' = TRUE
         ELSE UNCHANGED <<ticking, stopFlush>>
    /\ Move(Main, IF ticking THEN "flush" ELSE "close")
    /\ UNCHANGED <<config, ticker, admin, batch, on, hand, flights, next, kafka, quit>>
\* Close, up to its Flush.
Close ==
    /\ WaitDone /\ at[Main] = "idle"
    /\ IF ticker # 0
         THEN ticking' = FALSE /\ stopFlush' = TRUE
         ELSE UNCHANGED <<ticking, stopFlush>>
    /\ Move(Main, "flush")
    /\ UNCHANGED <<config, ticker, admin, batch, on, hand, flights, next, kafka, quit>>

\* writer.Close() and the end of the process.
Exit ==
    /\ at[Main] = "close"
    /\ Move(Main, "exited")
    /\ UNCHANGED <<config, timer, admin, batch, on, hand, flights, next, kafka, quit>>

\* The process has ended.
Exited == ~Running /\ UNCHANGED vars

-----------------------------------------------------------------------------
GeneratorStep == Send \/ SendBatch \/ GeneratorStops
LoopStep(l) == Select(l) \/ Tick(l) \/ LoopStops(l)
WriterStep(a) == Flush(a) \/ WriteMessages(a)

Next ==
    \/ GeneratorStep
    \/ \E e \in flights : SendAsync(e)
    \/ \E e \in Events : WriterWrites(e)
    \/ \E l \in Loops : LoopStep(l)
    \/ \E a \in Actors : WriterStep(a)
    \/ \E c \in Controls : HandleControl(c)
    \/ UpdateConfig
    \/ Quit \/ Close \/ Exit \/ Exited

Spec == Init /\ [][Next]_vars

\* Goroutines run, tickers tick, WriteMessages returns (with an error if with
\* nothing else), UpdateConfig, which waits for nothing, ends, and main goes on with
\* a shutdown.  select chooses at random among ready cases, so the generator does
\* not pass ctx.Done over for ever.  Nobody has to stop the service.
Fairness ==
    /\ WF_vars(GeneratorStep)
    /\ SF_vars(GeneratorStops)
    /\ WF_vars(UpdateConfig)
    /\ WF_vars(Close)
    /\ WF_vars(Exit)
    /\ \A l \in Loops : WF_vars(LoopStep(l))
    /\ \A a \in Actors : WF_vars(WriterStep(a))
FairSpec == Spec /\ Fairness

-----------------------------------------------------------------------------
(* Properties *)

\* Each variable keeps its type; in particular a batch is only in the hands of
\* a goroutine that is about to append or to write it.
TypeOK ==
    /\ cfgMode \in Modes
    /\ sendMode \in Modes \cup {"torn"}
    /\ batchSize \in Int
    /\ ticker \in 0..(MaxControls + 1)
    /\ ticking \in BOOLEAN /\ stopFlush \in BOOLEAN /\ quit \in BOOLEAN
    /\ batch \in Seq(Events)
    /\ update \in Controls \cup {NoControl}
    /\ controls \in 0..MaxControls
    /\ at \in [Actors -> Places]
    /\ on \in [Loops -> 0..(MaxControls + 1)]
    /\ hand \in [Actors -> Seq(Events)]
    /\ \A a \in Actors : (hand[a] # <<>>) <=> (at[a] \in {"append", "write"})
    /\ flights \subseteq Events
    /\ next \in 0..MaxEvents
    /\ written \subseteq Events /\ given \subseteq Events /\ refused \subseteq Events
    /\ largest \in Int

\* The events some goroutine or the batch still holds.
InHands == flights \cup ToSet(batch) \cup UNION {ToSet(hand[a]) : a \in Actors}

\* The calls of flushLoops and of sendAsync that the end of the process cuts off:
\* nobody waits for them, and what they hold is lost without a word.
Interrupted == flights \cup UNION {ToSet(hand[l]) : l \in Loops}

\* No event disappears between Send and Kafka: it is in the topic, WriteMessages has
\* returned an error for it, which RecordFailed counts, or it is held by the batch
\* or a goroutine; after the end of the process, only by a call that the end has cut
\* off (with a writer that is not asynchronous).
NothingDropped ==
    cfgMode # "async" =>
        1..next \subseteq written \cup refused \cup (IF Running THEN InHands ELSE Interrupted)

\* No event is given to WriteMessages twice, although the batch is flushed by the
\* generator, by several flushLoops and by Close: an event is in the batch, in the
\* hands of one goroutine, in a goroutine of sendAsync or has been given, in one of
\* these places and there once.  A message that the topic holds twice has been
\* repeated by the writer.
SentOnce ==
    /\ IsInjective(batch)
    /\ given \cap InHands = {}
    /\ ToSet(batch) \cap flights = {}
    /\ \A a \in Actors :
         /\ IsInjective(hand[a])
         /\ ToSet(hand[a]) \cap (ToSet(batch) \cup flights) = {}
         /\ \A b \in Actors \ {a} : ToSet(hand[a]) \cap ToSet(hand[b]) = {}

\* sendBatch flushes in time: the batch never outgrows the largest batch size that
\* has been configured so far, or one message where that is smaller, although other
\* goroutines flush it, requests shrink the size below its length and the generator
\* alone is left to flush when the loops have gone.
BatchBounded == Len(batch) <= IF largest < 1 THEN 1 ELSE largest

\* Close leaves nothing in the batch: a flush follows the last event generated.
ShutdownFlushed == ~Running => batch = <<>>

\* While batch mode and its ticker last, a message does not stay in the batch:
\* each new ticker has a flushLoop that waits on it.
BatchDelivered ==
    \A e \in Events :
        (e \in ToSet(batch)) ~> (e \notin ToSet(batch) \/ ~ticking)

\* A shutdown that has begun ends, and no event is left behind: each one generated
\* has been given to a WriteMessages that has returned, or the end of the process
\* has cut its call off.  That includes what was in the batch when its ticker had
\* gone, because batch mode was left or entered without a loop.
ShutdownSendsAll ==
    quit ~> (~Running /\ 1..next \subseteq given \cup Interrupted)
=============================================================================
