------------------------- MODULE PageViewGenerator -------------------------
(***************************************************************************)
(* pv-producer: the goroutine of runGenerator paces the page views with a  *)
(* ticker, sends one event per tick or a slice of a burst, and resets the  *)
(* ticker after a single event; POST /control changes the mode and the     *)
(* rate of the generator while it runs.                                    *)
(*                                                                         *)
(* Neither g.mode nor g.rps is protected: GetInterval reads and writes     *)
(* them in several steps between which SetMode and SetRPS may run.  A read *)
(* of g.mode during its write may see a pointer and a length that do not   *)
(* belong together; when the lengths differ such a value equals no mode    *)
(* ("torn").  "burst" and "night" are of one length.                       *)
(*                                                                         *)
(* Time is left out except for the interval of the ticker, in ms.  What    *)
(* events hold, and what Send does with them, is not looked at: an error   *)
(* of Send is only logged.  Requests to /control come one at a time.       *)
(* sent and ticks are history variables.                                   *)
(***************************************************************************)
EXTENDS Integers

CONSTANTS
    StartModes,    \* values of DEFAULT_MODE considered
    StartRps,      \* values of DEFAULT_RPS considered
    Controls,      \* requests to /control considered: [mode, rps]
    NoControl,     \* not a request
    BurstTargets,  \* values of 100 + rand.Intn(900) considered
    PerTick,       \* events of a burst that are sent at one tick (10)
    MaxControls    \* bound on requests to /control

Modes == {"regular", "burst", "night", "other"}

ASSUME StartAssumption == StartModes \subseteq Modes /\ StartRps \subseteq Int
ASSUME ControlsAssumption ==
    /\ NoControl \notin Controls /\ MaxControls \in Nat
    /\ \A c \in Controls : c.mode \in Modes \cup {""} /\ c.rps \in Int
ASSUME BurstAssumption == BurstTargets \subseteq Nat \ {0} /\ PerTick \in Nat \ {0}

VARIABLES
    mode,         \* g.mode
    rps,          \* g.rps
    pace,         \* interval of the ticker; 0 before it is made
    at,           \* where runGenerator is
    burstActive,  \* its local variables
    burstCount,
    burstTarget,
    slice,        \* i: events of the burst sent at this tick
    request,      \* the request HandleControl works on
    todo,         \* and what it does next
    controls,     \* requests so far
    quit,         \* ctx is cancelled
    sent,         \* events sent for the current burst
    ticks         \* ticks spent on it

burst == <<burstActive, burstCount, burstTarget, slice, sent, ticks>>
admin == <<request, todo, controls, quit>>
vars  == <<mode, rps, pace, at, burst, admin>>

\* interval, rps, fill and divide: inside GetInterval.
Places == {"interval", "rps", "fill", "divide", "select", "burst", "single", "sleep",
           "stopped"}

\* NewGenerator; runGenerator calls GetInterval for its ticker.
Init ==
    /\ mode \in StartModes
    /\ rps \in StartRps
    /\ pace = 0
    /\ at = "interval"
    /\ burstActive = FALSE /\ burstCount = 0 /\ burstTarget = 0 /\ slice = 0
    /\ request = NoControl /\ todo = "none" /\ controls = 0
    /\ quit = FALSE
    /\ sent = 0 /\ ticks = 0

-----------------------------------------------------------------------------
(* GetInterval, and NewTicker or ticker.Reset with its result *)

\* The modes with a fixed interval; "torn" takes the default like any other.
FixedInterval(m) ==
    CASE m = "burst" -> 2000
      [] m = "night" -> 10000
      [] OTHER       -> 1000

ReadMode ==
    /\ at = "interval"
    /\ \/ mode = "regular" /\ at' = "rps" /\ UNCHANGED pace
       \/ mode # "regular" /\ at' = "select" /\ pace' = FixedInterval(mode)
    /\ UNCHANGED <<mode, rps, burst, admin>>

\* g.rps <= 0
ReadRps ==
    /\ at = "rps"
    /\ at' = IF rps <= 0 THEN "fill" ELSE "divide"
    /\ UNCHANGED <<mode, rps, pace, burst, admin>>

\* g.rps = 5
FillRps ==
    /\ at = "fill"
    /\ rps' = 5
    /\ at' = "divide"
    /\ UNCHANGED <<mode, pace, burst, admin>>

\* Mutant: the lower bound of the interval is gone.
RegularInterval_Unbounded(r) == 1000 \div r
\* 1000 / g.rps, at least 100 ms.
RegularInterval(r) == IF 1000 \div r < 100 THEN 100 ELSE 1000 \div r

Divide ==
    /\ at = "divide"
    /\ pace' = RegularInterval(rps)
    /\ at' = "select"
    /\ UNCHANGED <<mode, rps, burst, admin>>

-----------------------------------------------------------------------------
(* The loop of runGenerator *)

\* A burst begins.
StartBurst ==
    /\ burstActive' = TRUE /\ burstTarget' \in BurstTargets
    /\ burstCount' = 0
    /\ sent' = 0 /\ ticks' = 1

\* Mutant: the counter starts again with every tick.
ResumeBurst_Restarts ==
    /\ ticks' = ticks + 1 /\ burstCount' = 0
    /\ UNCHANGED <<burstActive, burstTarget, sent>>
\* A burst goes on, also one that was left for another mode meanwhile.
ResumeBurst ==
    /\ ticks' = ticks + 1
    /\ UNCHANGED <<burstActive, burstTarget, burstCount, sent>>

\* The ticker fires; outside burst mode an unfinished burst is left as it is.
\* The select may choose the ticker although ctx is cancelled.
Tick ==
    /\ at = "select"
    /\ \/ /\ mode = "burst"
          /\ IF burstActive THEN ResumeBurst ELSE StartBurst
          /\ slice' = 0 /\ at' = "burst"
       \/ mode # "burst" /\ at' = "single" /\ UNCHANGED burst
    /\ UNCHANGED <<mode, rps, pace, admin>>

\* Mutant: the slice is one event too long.
MoreToSend_OffByOne == slice <= PerTick /\ burstCount < burstTarget
MoreToSend == slice < PerTick /\ burstCount < burstTarget

\* Generate and Send of one event of the burst.
SendBurst ==
    /\ at = "burst" /\ MoreToSend
    /\ burstCount' = burstCount + 1 /\ slice' = slice + 1 /\ sent' = sent + 1
    /\ UNCHANGED <<mode, rps, pace, at, burstActive, burstTarget, ticks, admin>>

\* The slice is sent; a complete burst is followed by a pause of five seconds.
EndSlice ==
    /\ at = "burst" /\ ~MoreToSend
    /\ \/ /\ burstCount >= burstTarget
          /\ burstActive' = FALSE /\ burstCount' = 0
          /\ at' = "sleep"
       \/ /\ burstCount < burstTarget
          /\ at' = "select"
          /\ UNCHANGED <<burstActive, burstCount>>
    /\ UNCHANGED <<mode, rps, pace, burstTarget, slice, sent, ticks, admin>>

\* time.Sleep ends; it does not look at ctx.
Wake ==
    /\ at = "sleep"
    /\ at' = "select"
    /\ UNCHANGED <<mode, rps, pace, burst, admin>>

\* Mutant: the ticker keeps its interval.
AfterSingle_NoReset == "select"
\* ticker.Reset(gen.GetInterval()) comes next.
AfterSingle == "interval"

\* Generate and Send of a single event.
SendSingle ==
    /\ at = "single"
    /\ at' = AfterSingle
    /\ UNCHANGED <<mode, rps, pace, burst, admin>>

\* Mutant: ctx is only looked at when there is no burst.
SeesDone_NoBurst == at = "select" /\ mode # "burst"
\* The select of the loop.
SeesDone == at = "select"

\* ctx.Done is chosen.
Stops ==
    /\ SeesDone /\ quit
    /\ at' = "stopped"
    /\ UNCHANGED <<mode, rps, pace, burst, admin>>

-----------------------------------------------------------------------------
(* POST /control and the signal *)

SameLength(m, n) == (m = "regular") = (n = "regular")

\* HandleControl up to the write of g.mode.
HandleControl(c) ==
    /\ request = NoControl /\ controls < MaxControls
    /\ controls' = controls + 1
    /\ request' = c
    /\ todo' = IF c.mode = "" THEN "rps" ELSE "mode"
    /\ mode' = IF c.mode = "" \/ (c.mode # "other" /\ SameLength(mode, c.mode))
                 THEN mode ELSE "torn"
    /\ UNCHANGED <<rps, pace, at, burst, quit>>

SetMode ==
    /\ todo = "mode"
    /\ mode' = request.mode
    /\ todo' = "rps"
    /\ UNCHANGED <<rps, pace, at, burst, request, controls, quit>>

\* SetRPS, and the end of the request for the generator.
SetRPS ==
    /\ todo = "rps"
    /\ rps' = IF request.rps > 0 THEN request.rps ELSE rps
    /\ request' = NoControl /\ todo' = "none"
    /\ UNCHANGED <<mode, pace, at, burst, controls, quit>>

\* The signal; cancel().
Quit ==
    /\ ~quit
    /\ quit' = TRUE
    /\ UNCHANGED <<mode, rps, pace, at, burst, request, todo, controls>>

Stopped == at = "stopped" /\ UNCHANGED vars

-----------------------------------------------------------------------------
Interval == ReadMode \/ ReadRps \/ FillRps \/ Divide
GeneratorStep == Interval \/ Tick \/ SendBurst \/ EndSlice \/ Wake \/ SendSingle \/ Stops
ControlStep == SetMode \/ SetRPS

Next ==
    \/ GeneratorStep
    \/ \E c \in Controls : HandleControl(c)
    \/ ControlStep
    \/ Quit
    \/ Stopped

Spec == Init /\ [][Next]_vars

\* The goroutines run, the ticker fires and Sleep ends.  A select chooses at
\* random among the cases that are ready, so it does not pass over ctx.Done for
\* ever.
Fairness ==
    /\ WF_vars(GeneratorStep)
    /\ WF_vars(ControlStep)
    /\ SF_vars(Stops)
FairSpec == Spec /\ Fairness

-----------------------------------------------------------------------------
(* Properties *)

\* Each variable keeps its type; a burst in progress is not beyond its target.
TypeOK ==
    /\ mode \in Modes \cup {"torn"}
    /\ rps \in Int /\ pace \in Int
    /\ at \in Places
    /\ burstActive \in BOOLEAN /\ quit \in BOOLEAN
    /\ burstTarget \in BurstTargets \cup {0}
    /\ burstCount \in 0..burstTarget
    /\ slice \in 0..PerTick
    /\ request \in Controls \cup {NoControl}
    /\ todo \in {"none", "mode", "rps"}
    /\ controls \in 0..MaxControls
    /\ sent \in Nat /\ ticks \in Nat

\* GetInterval never divides by zero and never makes NewTicker or Reset panic, and
\* outside bursts no more than ten events are sent per second, whatever rate is
\* configured or set between its reads of g.rps.
PaceSafe ==
    /\ at = "divide" => rps > 0
    /\ at \notin {"interval", "rps", "fill", "divide"} => pace >= 100
    /\ pace = 0 \/ pace >= 100

\* A burst sends its events in slices, exactly burstTarget of them in as few
\* ticks as that takes, also when it is interrupted by other modes in between.
BurstSchedule ==
    at \in {"select", "single", "sleep"} /\ ticks > 0 =>
        sent = IF PerTick * ticks < burstTarget THEN PerTick * ticks ELSE burstTarget

\* The interval the generator's mode and rate ask for.
IntervalOf(m, r) == IF m = "regular" THEN RegularInterval(IF r <= 0 THEN 5 ELSE r)
                    ELSE FixedInterval(m)

\* The ticker follows the last change of mode and rate, whatever GetInterval had
\* read before it: a later tick resets it.  In burst mode it is left as it is.
PaceFollows == <>[](quit \/ mode = "burst" \/ pace = IntervalOf(mode, rps))

\* runGenerator returns after the signal, so that main's wg.Wait() ends: no
\* slice, pause or change of mode keeps it from looking at ctx.
GeneratorReturns == quit ~> at = "stopped"
=============================================================================
