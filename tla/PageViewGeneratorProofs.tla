----------------------- MODULE PageViewGeneratorProofs -----------------------
(***************************************************************************)
(* Proofs about PageViewGenerator: for every configured mode and rate and  *)
(* any number of requests to /control, whenever they arrive.               *)
(***************************************************************************)
EXTENDS PageViewGenerator, TLAPS

\* The interval of regular mode is at least 100 ms for every rate above zero.
LEMMA RegularIntervalBounded ==
  ASSUME NEW r \in Int, r > 0
  PROVE  RegularInterval(r) \in Int /\ RegularInterval(r) >= 100
  BY DEF RegularInterval

LEMMA FixedIntervalBounded ==
  ASSUME NEW m
  PROVE  FixedInterval(m) \in Int /\ FixedInterval(m) >= 100
  BY DEF FixedInterval

-----------------------------------------------------------------------------
(* The pace *)

\* Inside GetInterval: the places at which the interval is not yet known.
Unpaced == {"interval", "rps", "fill", "divide"}

PaceInv ==
    /\ rps \in Int /\ pace \in Int
    /\ request \in Controls \cup {NoControl}
    /\ todo \in {"none", "mode", "rps"}
    /\ todo # "none" => request \in Controls
    /\ PaceSafe

LEMMA InitPace == Init => PaceInv
  BY StartAssumption DEF Init, PaceInv, PaceSafe

\* A step that leaves rate and interval alone and does not leave GetInterval.
LEMMA SamePace ==
  ASSUME PaceInv, rps' = rps, pace' = pace,
         request' = request, todo' = todo,
         at' # "divide",
         at' \in Unpaced \/ at \notin Unpaced
  PROVE  PaceInv'
  BY DEF PaceInv, PaceSafe, Unpaced

LEMMA NextPace == PaceInv /\ [Next]_vars => PaceInv'
  <1> SUFFICES ASSUME PaceInv, [Next]_vars PROVE PaceInv'
    OBVIOUS
  <1>1. CASE ReadMode
    BY <1>1, FixedIntervalBounded DEF ReadMode, PaceInv, PaceSafe, admin
  <1>2. CASE ReadRps
    BY <1>2 DEF ReadRps, PaceInv, PaceSafe, admin
  <1>3. CASE FillRps
    BY <1>3 DEF FillRps, PaceInv, PaceSafe, admin
  <1>4. CASE Divide
    <2>1. rps \in Int /\ rps > 0
      BY <1>4 DEF Divide, PaceInv, PaceSafe
    <2>2. pace' \in Int /\ pace' >= 100
      BY <1>4, <2>1, RegularIntervalBounded DEF Divide
    <2>3. QED
      BY <1>4, <2>2 DEF Divide, PaceInv, PaceSafe, admin
  <1>5. CASE Tick
    BY <1>5, SamePace DEF Tick, admin, Unpaced
  <1>6. CASE SendBurst
    BY <1>6, SamePace DEF SendBurst, admin, Unpaced
  <1>7. CASE EndSlice
    BY <1>7, SamePace DEF EndSlice, admin, Unpaced
  <1>8. CASE Wake
    BY <1>8, SamePace DEF Wake, admin, Unpaced
  <1>9. CASE SendSingle
    BY <1>9, SamePace DEF SendSingle, AfterSingle, admin, Unpaced
  <1>10. CASE Stops
    BY <1>10, SamePace DEF Stops, SeesDone, admin, Unpaced
  <1>11. CASE \E c \in Controls : HandleControl(c)
    BY <1>11 DEF HandleControl, PaceInv, PaceSafe
  <1>12. CASE SetMode
    BY <1>12 DEF SetMode, PaceInv, PaceSafe
  <1>13. CASE SetRPS
    <2>1. rps' \in Int /\ (rps > 0 => rps' > 0)
      BY <1>13, ControlsAssumption DEF SetRPS, PaceInv
    <2>2. QED
      BY <1>13, <2>1 DEF SetRPS, PaceInv, PaceSafe
  <1>14. CASE Quit \/ Stopped \/ UNCHANGED vars
    BY <1>14 DEF Quit, Stopped, vars, admin, PaceInv, PaceSafe
  <1>15. QED
    BY <1>1, <1>2, <1>3, <1>4, <1>5, <1>6, <1>7, <1>8, <1>9, <1>10, <1>11, <1>12,
       <1>13, <1>14 DEF Next, GeneratorStep, ControlStep, Interval

\* GetInterval never divides by zero and never gives the ticker less than 100 ms,
\* although SetRPS may change the rate between its reads: the guard of
\* HandleControl, not a lock, is what the code relies on.
THEOREM PaceAlwaysSafe == Spec => []PaceSafe
  <1>1. PaceInv => PaceSafe
    BY DEF PaceInv
  <1>2. QED
    BY <1>1, InitPace, NextPace, PTL DEF Spec

-----------------------------------------------------------------------------
(* Bursts *)

USE BurstAssumption

\* While a slice is being sent, the burst has sent the slices before it and
\* slice more; between slices it has sent all of them; and it has ended at the
\* first tick that reaches the target.
BurstInv ==
    /\ burstTarget \in Nat /\ burstCount \in Nat /\ slice \in Nat
    /\ sent \in Nat /\ ticks \in Nat /\ burstActive \in BOOLEAN
    /\ at = "burst" =>
          /\ burstActive /\ ticks > 0 /\ slice <= PerTick
          /\ sent = burstCount /\ burstCount <= burstTarget
          /\ burstCount = PerTick * (ticks - 1) + slice
    /\ at # "burst" /\ burstActive =>
          sent = burstCount /\ burstCount = PerTick * ticks /\ burstCount < burstTarget
    /\ at # "burst" /\ ~burstActive /\ ticks > 0 =>
          sent = burstTarget /\ PerTick * ticks >= burstTarget

LEMMA Distributes ==
  ASSUME NEW p \in Nat, NEW k \in Nat
  PROVE  /\ p * k \in Nat
         /\ p * (k + 1) = p * k + p
         /\ p * 0 = 0
  <1>1. p * 0 = 0
    OBVIOUS
  <1>2. p * (k + 1) = p * k + p
    OBVIOUS
  <1>3. p * k \in Int
    OBVIOUS
  <1>4. p * k >= 0
    OBVIOUS
  <1>5. QED
    BY <1>1, <1>2, <1>3, <1>4

LEMMA OneSliceMore ==
  ASSUME NEW k \in Nat
  PROVE  /\ PerTick * k \in Nat
         /\ PerTick * (k + 1) = PerTick * k + PerTick
         /\ PerTick * 0 = 0
  <1>1. PerTick \in Nat
    OBVIOUS
  <1>2. QED
    BY <1>1, Distributes

LEMMA InitBurst == Init => BurstInv
  <1> SUFFICES ASSUME Init PROVE BurstInv
    OBVIOUS
  <1>1. /\ burstTarget = 0 /\ burstCount = 0 /\ slice = 0 /\ sent = 0 /\ ticks = 0
        /\ at # "burst"
    BY DEF Init
  <1>2. burstActive = FALSE
    BY DEF Init
  <1>3. ~burstActive /\ burstActive \in BOOLEAN
    BY <1>2
  <1>4. ~(ticks > 0)
    BY <1>1
  <1>5. /\ burstTarget \in Nat /\ burstCount \in Nat /\ slice \in Nat
        /\ sent \in Nat /\ ticks \in Nat
    BY <1>1
  <1>6. QED
    BY <1>1, <1>3, <1>4, <1>5, Zenon DEF BurstInv

LEMMA SameBurst ==
  ASSUME BurstInv, UNCHANGED burst, (at = "burst") = (at' = "burst")
  PROVE  BurstInv'
  BY DEF BurstInv, burst

LEMMA TickKeeps ==
  ASSUME BurstInv, Tick
  PROVE  BurstInv'
  <1>1. at = "select" /\ ticks \in Nat /\ burstCount \in Nat /\ burstTarget \in Nat
    BY DEF Tick, BurstInv
  <1>2. CASE at' = "single"
    BY <1>1, <1>2, SameBurst DEF Tick
  <1>3. CASE at' = "burst" /\ burstActive
    <2>1. /\ ticks' = ticks + 1 /\ slice' = 0 /\ burstCount' = burstCount /\ sent' = sent
          /\ burstActive' = burstActive /\ burstTarget' = burstTarget
      BY <1>3 DEF Tick, ResumeBurst
    <2>2. ticks' - 1 = ticks
      BY <1>1, <2>1
    <2>3. burstCount' = PerTick * (ticks' - 1) + slice'
      BY <1>1, <1>3, <2>1, <2>2, OneSliceMore DEF BurstInv
    <2>4. QED
      BY <1>1, <1>3, <2>1, <2>3 DEF BurstInv
  <1>4. CASE at' = "burst" /\ ~burstActive
    <2>1. /\ ticks' = 1 /\ slice' = 0 /\ burstCount' = 0 /\ sent' = 0
          /\ burstActive' = TRUE /\ burstTarget' \in Nat
      BY <1>4 DEF Tick, StartBurst
    <2>2. burstCount' = PerTick * (ticks' - 1) + slice'
      BY <2>1, OneSliceMore
    <2>3. QED
      BY <1>4, <2>1, <2>2 DEF BurstInv
  <1>5. QED
    BY <1>2, <1>3, <1>4 DEF Tick, BurstInv

LEMMA SendKeeps ==
  ASSUME BurstInv, SendBurst
  PROVE  BurstInv'
  <1>1. /\ at = "burst" /\ at' = "burst" /\ slice < PerTick /\ burstCount < burstTarget
        /\ burstCount' = burstCount + 1 /\ slice' = slice + 1 /\ sent' = sent + 1
        /\ UNCHANGED <<burstActive, burstTarget, ticks>>
    BY DEF SendBurst, MoreToSend
  <1>2. PICK k \in Nat : k = ticks - 1
    BY <1>1 DEF BurstInv
  <1>3. PerTick * (ticks - 1) \in Nat
    BY <1>2, OneSliceMore
  <1>4. QED
    BY <1>1, <1>3 DEF BurstInv

LEMMA EndKeeps ==
  ASSUME BurstInv, EndSlice
  PROVE  BurstInv'
  <1>1. /\ at = "burst" /\ ~(slice < PerTick /\ burstCount < burstTarget)
        /\ UNCHANGED <<burstTarget, slice, sent, ticks>>
    BY DEF EndSlice, MoreToSend
  <1>2. PICK k \in Nat : k = ticks - 1 /\ ticks = k + 1
    BY <1>1 DEF BurstInv
  <1>3. PerTick * ticks = PerTick * (ticks - 1) + PerTick /\ PerTick * (ticks - 1) \in Nat
    BY <1>2, OneSliceMore
  <1>4. CASE burstCount >= burstTarget
    <2> ~(burstCount < burstTarget)
      BY <1>4 DEF BurstInv
    <2>1. at' = "sleep" /\ burstActive' = FALSE /\ burstCount' = 0
      BY DEF EndSlice
    <2>2. burstTarget <= PerTick * ticks /\ sent = burstTarget
      BY <1>1, <1>3, <1>4 DEF BurstInv
    <2>3. QED
      BY <1>1, <2>1, <2>2 DEF BurstInv
  <1>5. CASE burstCount < burstTarget
    <2> ~(burstCount >= burstTarget)
      BY <1>5 DEF BurstInv
    <2>1. at' = "select" /\ UNCHANGED <<burstActive, burstCount>>
      BY DEF EndSlice
    <2>2. slice = PerTick
      BY <1>1, <1>5 DEF BurstInv
    <2>3. burstCount = PerTick * ticks
      BY <1>1, <1>3, <2>2 DEF BurstInv
    <2>4. QED
      BY <1>1, <1>5, <2>1, <2>3 DEF BurstInv
  <1>6. QED
    BY <1>4, <1>5 DEF BurstInv

LEMMA NextBurst == BurstInv /\ [Next]_vars => BurstInv'
  <1> SUFFICES ASSUME BurstInv, [Next]_vars PROVE BurstInv'
    OBVIOUS
  <1>1. CASE Interval
    BY <1>1, SameBurst DEF Interval, ReadMode, ReadRps, FillRps, Divide
  <1>2. CASE Wake \/ SendSingle \/ Stops
    BY <1>2, SameBurst DEF Wake, SendSingle, AfterSingle, Stops, SeesDone
  <1>3. CASE \E c \in Controls : HandleControl(c)
    BY <1>3, SameBurst DEF HandleControl
  <1>4. CASE ControlStep \/ Quit
    BY <1>4, SameBurst DEF ControlStep, SetMode, SetRPS, Quit
  <1>5. CASE Stopped \/ UNCHANGED vars
    BY <1>5, SameBurst DEF Stopped, vars
  <1>6. QED
    BY <1>1, <1>2, <1>3, <1>4, <1>5, TickKeeps, SendKeeps, EndKeeps DEF Next, GeneratorStep

\* Every burst sends exactly its target, PerTick events at a tick, however modes,
\* rates and the shutdown interrupt it.
THEOREM BurstsOnSchedule == Spec => []BurstSchedule
  <1>1. BurstInv => BurstSchedule
    <2> SUFFICES ASSUME BurstInv, at \in {"select", "single", "sleep"}, ticks > 0
                 PROVE  sent = IF PerTick * ticks < burstTarget THEN PerTick * ticks
                               ELSE burstTarget
      BY DEF BurstSchedule
    <2>1. PerTick * ticks \in Nat
      BY OneSliceMore DEF BurstInv
    <2>2. QED
      BY <2>1 DEF BurstInv
  <1>2. QED
    BY <1>1, InitBurst, NextBurst, PTL DEF Spec

-----------------------------------------------------------------------------
(* The types *)

\* A request that is being worked on is one, and only one with a mode sets it.
RequestInv ==
    /\ todo # "none" => request \in Controls
    /\ todo = "mode" => request.mode # ""

TypeInv == TypeOK /\ RequestInv

\* What a request may ask for.
LEMMA ControlValues ==
  ASSUME NEW c \in Controls
  PROVE  c.mode \in Modes \cup {""} /\ c.rps \in Int /\ c # NoControl
  BY ControlsAssumption, Zenon

LEMMA InitTypes == Init => TypeInv
  <1> SUFFICES ASSUME Init PROVE TypeInv
    OBVIOUS
  <1>1. mode \in Modes /\ rps \in Int
    BY StartAssumption DEF Init
  <1>2. burstActive \in BOOLEAN /\ quit \in BOOLEAN
    BY Zenon DEF Init
  <1>3. /\ burstTarget \in BurstTargets \cup {0} /\ burstCount \in 0..burstTarget
        /\ slice \in 0..PerTick /\ controls \in 0..MaxControls /\ pace \in Int
        /\ sent \in Nat /\ ticks \in Nat
    <2>1. PerTick \in Nat /\ MaxControls \in Nat
      BY ControlsAssumption
    <2>2. /\ burstTarget = 0 /\ burstCount = 0 /\ slice = 0 /\ controls = 0 /\ pace = 0
          /\ sent = 0 /\ ticks = 0
      BY DEF Init
    <2>3. QED
      BY <2>1, <2>2
  <1>4. at \in Places /\ request = NoControl /\ todo = "none"
    BY DEF Init, Places
  <1>5. QED
    BY <1>1, <1>2, <1>3, <1>4 DEF TypeInv, TypeOK, RequestInv

\* The rate and the interval are numbers because GetInterval does not divide by
\* zero (PaceInv).
LEMMA NextTypes == TypeInv /\ PaceInv' /\ [Next]_vars => TypeInv'
  <1> SUFFICES ASSUME TypeInv, PaceInv', [Next]_vars PROVE TypeInv'
    OBVIOUS
  <1>0. rps' \in Int /\ pace' \in Int /\ PerTick \in Nat /\ BurstTargets \cup {0} \subseteq Nat
    BY DEF PaceInv
  <1>1. CASE Interval \/ Wake \/ SendSingle \/ Stops
    <2>1. UNCHANGED <<mode, burst, admin>>
      BY <1>1 DEF Interval, ReadMode, ReadRps, FillRps, Divide, Wake, SendSingle, Stops
    <2>2. at' \in Places
      BY <1>1 DEF Interval, ReadMode, ReadRps, FillRps, Divide, Wake, SendSingle, AfterSingle,
                  Stops, Places
    <2>3. QED
      BY <1>0, <2>1, <2>2 DEF TypeInv, TypeOK, RequestInv, burst, admin
  <1>2. CASE Tick
    <2>1. UNCHANGED <<mode, admin>> /\ at' \in Places
      BY <1>2 DEF Tick, Places
    <2>2. /\ burstActive' \in BOOLEAN /\ burstTarget' \in BurstTargets \cup {0}
          /\ burstCount' \in 0..burstTarget' /\ slice' \in 0..PerTick
          /\ sent' \in Nat /\ ticks' \in Nat
      <3>1. CASE UNCHANGED burst
        BY <3>1 DEF TypeInv, TypeOK, burst
      <3>2. CASE slice' = 0 /\ ResumeBurst
        BY <1>0, <3>2 DEF ResumeBurst, TypeInv, TypeOK
      <3>3. CASE slice' = 0 /\ StartBurst
        BY <1>0, <3>3 DEF StartBurst
      <3>4. QED
        BY <1>2, <3>1, <3>2, <3>3 DEF Tick
    <2>3. QED
      BY <1>0, <2>1, <2>2 DEF TypeInv, TypeOK, RequestInv, admin
  <1>3. CASE SendBurst
    <2>1. burstCount' \in 0..burstTarget' /\ slice' \in 0..PerTick /\ sent' \in Nat
      BY <1>0, <1>3 DEF SendBurst, MoreToSend, TypeInv, TypeOK
    <2>2. QED
      BY <1>0, <1>3, <2>1 DEF SendBurst, TypeInv, TypeOK, RequestInv, admin
  <1>4. CASE EndSlice
    <2>1. /\ burstActive' \in BOOLEAN /\ burstTarget' = burstTarget
          /\ burstCount' = 0 \/ burstCount' = burstCount
          /\ at' \in {"sleep", "select"}
      BY <1>4, Zenon DEF EndSlice, TypeInv, TypeOK
    <2>2. burstCount' \in 0..burstTarget' /\ at' \in Places
      <3>1. burstTarget \in Nat /\ burstCount \in 0..burstTarget
        BY <1>0 DEF TypeInv, TypeOK
      <3>2. QED
        BY <2>1, <3>1 DEF Places
    <2>3. QED
      BY <1>0, <1>4, <2>1, <2>2 DEF EndSlice, TypeInv, TypeOK, RequestInv, admin
  <1>5. ASSUME NEW c \in Controls, HandleControl(c) PROVE TypeInv'
    <2>1. /\ request' = c /\ todo' \in {"rps", "mode"} /\ (todo' = "mode" => c.mode # "")
          /\ mode' \in {mode, "torn"} /\ UNCHANGED <<at, burst, quit>>
      BY <1>5, Zenon DEF HandleControl
    <2>2. controls' \in 0..MaxControls
      <3>1. MaxControls \in Nat
        BY ControlsAssumption, Zenon
      <3>2. controls < MaxControls /\ controls' = controls + 1
        BY <1>5, Zenon DEF HandleControl
      <3>3. controls \in 0..MaxControls
        BY DEF TypeInv, TypeOK
      <3>4. QED
        BY <3>1, <3>2, <3>3
    <2>3. RequestInv'
      BY <1>5, <2>1, Zenon DEF RequestInv
    <2>4. mode' \in Modes \cup {"torn"} /\ request' \in Controls \cup {NoControl}
      BY <1>5, <2>1 DEF TypeInv, TypeOK
    <2>5. QED
      BY <1>0, <2>1, <2>2, <2>3, <2>4 DEF TypeInv, TypeOK, burst
  <1>6. CASE SetMode
    <2>1. mode' \in Modes /\ todo' = "rps" /\ request' = request /\ request \in Controls
      BY <1>6, ControlValues, Zenon DEF SetMode, TypeInv, RequestInv
    <2>2. UNCHANGED <<at, burst, controls, quit>>
      BY <1>6 DEF SetMode
    <2>3. QED
      BY <1>0, <2>1, <2>2 DEF TypeInv, TypeOK, RequestInv, burst
  <1>7. CASE SetRPS
    BY <1>0, <1>7 DEF SetRPS, TypeInv, TypeOK, RequestInv, burst
  <1>8. CASE Quit \/ Stopped \/ UNCHANGED vars
    BY <1>0, <1>8 DEF Quit, Stopped, vars, TypeInv, TypeOK, RequestInv, burst, admin
  <1>9. QED
    BY <1>1, <1>2, <1>3, <1>4, <1>5, <1>6, <1>7, <1>8 DEF Next, GeneratorStep, ControlStep

\* TypeOK: in particular a burst never counts beyond its target and a slice never
\* beyond PerTick, also when the mode changes in the middle of it.
THEOREM GeneratorTypeCorrect == Spec => []TypeOK
  <1>1. TypeInv => TypeOK
    BY DEF TypeInv
  <1>2. Spec => []PaceInv
    BY InitPace, NextPace, PTL DEF Spec
  <1>3. QED
    BY <1>1, <1>2, InitTypes, NextTypes, PTL DEF Spec
===============================================================================
