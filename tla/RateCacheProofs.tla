--------------------------- MODULE RateCacheProofs ---------------------------
(***************************************************************************)
(* Proofs about RateCache: for any number of callers and pairs, every TTL  *)
(* and timeout, and any changes of the exchanger's table.                  *)
(***************************************************************************)
EXTENDS RateCache, FiniteSetTheorems, TLAPS

(* The types and the lock *)

LEMMA EmptyIsTable == Empty \in Tables
  BY DEF Empty, Tables, Cells

\* The last two conjuncts of TypeInv: only a caller that wants one pair looks a
\* pair up, and nobody has waited for longer than the clock has run.
WantsPair ==
    \A c \in Callers : pc[c] \in {"find", "one", "oneRead"} => want[c] \in Pairs

TypeInv ==
    /\ TypeOK
    /\ WantsPair
    /\ \A c \in Callers : blocked[c] <= now

LEMMA InitType == Init => TypeInv
  BY TimesAssumption, CallersAssumption, EmptyIsTable
     DEF Init, TypeInv, TypeOK, WantsPair, Steps, Never, Cells, Tables

\* A caller that gets a table stops holding the lock, and goes on as it should.
LEMMA GotRatesType ==
  ASSUME TypeInv, NEW c \in Callers, NEW t \in Tables, GotRates(c, t)
  PROVE  /\ rates' \in [Callers -> Tables]
         /\ rate' \in [Callers -> Cells]
         /\ gotAt' \in [Callers -> 0..MaxTime]
         /\ pc' \in [Callers -> Steps]
         /\ pc'[c] \in {"find", "done"}
         /\ pc'[c] = "find" => want[c] \in Pairs
         /\ \A d \in Callers \ {c} : pc'[d] = pc[d]
  BY DEF TypeInv, TypeOK, GotRates, Goto, Steps

LEMMA ReturnType ==
  ASSUME TypeInv, NEW c \in Callers, NEW v \in Cells, Return(c, v)
  PROVE  /\ rates' \in [Callers -> Tables]
         /\ rate' \in [Callers -> Cells]
         /\ pc' \in [Callers -> Steps]
         /\ pc'[c] = "done"
         /\ \A d \in Callers \ {c} : pc'[d] = pc[d]
  BY EmptyIsTable DEF TypeInv, TypeOK, Return, Goto, Steps

LEMMA CallType ==
  ASSUME TypeInv, NEW c \in Callers, NEW s \in Steps, Call(c, s)
  PROVE  /\ deadline' \in [Callers -> 0..MaxTime + Timeout]
         /\ pc' \in [Callers -> Steps]
         /\ pc'[c] = s
         /\ \A d \in Callers \ {c} : pc'[d] = pc[d]
  BY TimesAssumption DEF TypeInv, TypeOK, Call, Goto

LEMMA EndCallType ==
  ASSUME TypeInv, NEW c \in Callers, EndCall(c)
  PROVE  /\ deadline' \in [Callers -> 0..MaxTime + Timeout]
         /\ reply' \in [Callers -> Tables]
  BY EmptyIsTable, TimesAssumption DEF TypeInv, TypeOK, EndCall

LEMMA CallerType ==
  ASSUME TypeInv, NEW c \in Callers, Start(c) \/ CallerStep(c)
  PROVE  TypeInv'
  <1> USE CallersAssumption
  <1>1. CASE Start(c)
    BY <1>1 DEF Start, Goto, TypeInv, TypeOK, WantsPair, Steps, exchanger, cache, result
  <1>2. CASE LookShared(c)
    <2>1. CASE CacheValid /\ GotRates(c, cacheRates)
      <3>1. cacheRates \in Tables
        BY DEF TypeInv, TypeOK
      <3>2. QED
        BY <1>2, <2>1, <3>1, GotRatesType
           DEF LookShared, TypeInv, TypeOK, WantsPair, exchanger, cache
    <2>2. CASE ~CacheValid /\ Goto(c, "lock") /\ UNCHANGED result
      BY <1>2, <2>2 DEF LookShared, Goto, TypeInv, TypeOK, WantsPair, Steps, exchanger, cache, result
    <2>3. QED
      BY <1>2, <2>1, <2>2 DEF LookShared
  <1>3. CASE LookExclusive(c)
    <2>1. CASE Recheck /\ GotRates(c, cacheRates) /\ UNCHANGED <<mu, deadline>>
      <3>1. cacheRates \in Tables
        BY DEF TypeInv, TypeOK
      <3>2. QED
        BY <1>3, <2>1, <3>1, GotRatesType
           DEF LookExclusive, TypeInv, TypeOK, WantsPair, exchanger, cache
    <2>2. CASE ~Recheck /\ mu' = c /\ Call(c, "all") /\ UNCHANGED result
      <3>1. "all" \in Steps
        BY DEF Steps
      <3>2. QED
        BY <1>3, <2>2, <3>1, CallType
           DEF LookExclusive, TypeInv, TypeOK, WantsPair, exchanger, cache, result
    <2>3. QED
      BY <1>3, <2>1, <2>2 DEF LookExclusive
  <1>4. CASE ReadTable(c)
    BY <1>4 DEF ReadTable, Goto, TypeInv, TypeOK, WantsPair, Steps, exchanger, cache, result
  <1>5. CASE FillCache(c)
    <2>1. reply[c] \in Tables
      BY DEF TypeInv, TypeOK
    <2>2. cacheRates' \in Tables /\ cacheAt' \in Never..MaxTime /\ fetchedAt' \in Never..MaxTime
      BY <1>5, <2>1 DEF FillCache, TypeInv, TypeOK, Never
    <2>3. QED
      BY <1>5, <2>1, <2>2, GotRatesType, EndCallType
         DEF FillCache, Unlock, TypeInv, TypeOK, WantsPair, exchanger
  <1>6. CASE CallFails(c)
    <2>1. Absent \in Cells
      BY DEF Cells
    <2>2. QED
      BY <1>6, <2>1, ReturnType, EndCallType
         DEF CallFails, Unlock, TypeInv, TypeOK, WantsPair, exchanger, cache
  <1>7. CASE Find(c)
    <2>1. rates[c][want[c]] \in Cells
      BY <1>7 DEF Find, TypeInv, TypeOK, WantsPair, Tables
    <2>2. CASE Return(c, rates[c][want[c]]) /\ UNCHANGED <<deadline, gotAt>>
      BY <1>7, <2>1, <2>2, ReturnType
         DEF Find, TypeInv, TypeOK, WantsPair, exchanger, cache
    <2>3. CASE Call(c, "one") /\ UNCHANGED result
      <3>1. "one" \in Steps
        BY DEF Steps
      <3>2. QED
        BY <1>7, <2>3, <3>1, CallType
           DEF Find, TypeInv, TypeOK, WantsPair, exchanger, cache, result
    <2>4. QED
      BY <1>7, <2>2, <2>3 DEF Find
  <1>8. CASE Answered(c)
    <2> DEFINE v == reply[c][want[c]]
    <2>1. (IF v = Absent \/ v = 0 THEN Absent ELSE v) \in Cells
      BY <1>8 DEF Answered, TypeInv, TypeOK, WantsPair, Tables, Cells
    <2>2. Return(c, IF v = Absent \/ v = 0 THEN Absent ELSE v)
      BY <1>8 DEF Answered
    <2>3. gotAt' \in [Callers -> 0..MaxTime]
      BY <1>8 DEF Answered, TypeInv, TypeOK
    <2> HIDE DEF v
    <2>4. QED
      BY <1>8, <2>1, <2>2, <2>3, ReturnType, EndCallType
         DEF Answered, TypeInv, TypeOK, WantsPair, exchanger, cache
  <1>9. QED
    BY <1>1, <1>2, <1>3, <1>4, <1>5, <1>6, <1>7, <1>8 DEF CallerStep

LEMMA NextType == TypeInv /\ [Next]_vars => TypeInv'
  <1> SUFFICES ASSUME TypeInv, [Next]_vars PROVE TypeInv'
    OBVIOUS
  <1>1. CASE \E c \in Callers : Start(c) \/ CallerStep(c)
    BY <1>1, CallerType
  <1>2. CASE Tick
    <2>1. lastSeen' \in [Pairs -> [Cells -> Never..MaxTime]]
      BY <1>2, TimesAssumption DEF Tick, TypeInv, TypeOK, Tables, Never
    <2>2. now' \in 0..MaxTime
      BY <1>2, TimesAssumption DEF Tick, TypeInv, TypeOK
    <2>3. blocked' \in [Callers -> 0..MaxTime] /\ \A c \in Callers : blocked'[c] <= now'
      BY <1>2, TimesAssumption DEF Tick, TypeInv, TypeOK
    <2>4. QED
      BY <1>2, <2>1, <2>2, <2>3 DEF Tick, TypeInv, TypeOK, WantsPair, cache, result
  <1>3. CASE UpdateTable
    <2>1. lastSeen' \in [Pairs -> [Cells -> Never..MaxTime]]
      BY <1>3 DEF UpdateTable, TypeInv, TypeOK, Never
    <2>2. table' \in Tables /\ updates' \in 0..MaxUpdates
      BY <1>3, TimesAssumption DEF UpdateTable, TypeInv, TypeOK, Tables
    <2>3. QED
      BY <1>3, <2>1, <2>2 DEF UpdateTable, TypeInv, TypeOK, WantsPair, cache, result
  <1>4. CASE AllDone \/ UNCHANGED vars
    BY <1>4 DEF AllDone, vars, exchanger, cache, result, TypeInv, TypeOK, WantsPair
  <1>5. QED
    BY <1>1, <1>2, <1>3, <1>4 DEF Next

LEMMA TypeInvariant == Spec => []TypeInv
  BY InitType, NextType, PTL DEF Spec

\* TypeOK: every variable keeps its type, and a caller holds the lock exactly
\* while its GetExchangeRates call runs, on every path out of GetAllRates.
THEOREM CacheTypeCorrect == Spec => []TypeOK
  <1>1. TypeInv => TypeOK
    BY DEF TypeInv
  <1>2. QED
    BY TypeInvariant, <1>1, PTL

-----------------------------------------------------------------------------
(* One fetch per TTL *)

\* A caller at a place where it holds the lock found the cache expired, and only
\* the holder of the lock fills it: the cache is still expired when it does.
FetchInv ==
    /\ fetchedAt = cacheAt
    /\ cacheAt <= now
    /\ \A c \in Callers : pc[c] \in {"all", "allRead"} => ~CacheValid

LEMMA InitFetch == Init => FetchInv
  BY DEF Init, FetchInv, Never

\* What the steps of a caller do to the cache and to the exchanger.
LEMMA CallerKeeps ==
  ASSUME NEW c \in Callers, Start(c) \/ CallerStep(c)
  PROVE  /\ now' = now /\ table' = table /\ lastSeen' = lastSeen /\ want' = want
         /\ blocked' = blocked
         /\ ~FillCache(c) => UNCHANGED <<cacheRates, cacheAt, fetchedAt>>
  BY DEF CallerStep, Start, LookShared, LookExclusive, ReadTable, FillCache, CallFails, Find,
         Answered, exchanger, cache

\* A caller comes to hold the lock only with the cache expired.
LEMMA HoldsExpired ==
  ASSUME TypeInv, FetchInv, NEW c \in Callers, Start(c) \/ CallerStep(c),
         NEW d \in Callers, pc'[d] \in {"all", "allRead"}
  PROVE  ~CacheValid /\ ~FillCache(c)
  <1>1. CASE d # c
    <2>1. pc'[d] = pc[d]
      BY <1>1 DEF TypeInv, TypeOK, CallerStep, Start, LookShared, LookExclusive, ReadTable,
                  FillCache, CallFails, Find, Answered, GotRates, Return, Call, Goto
    <2>2. mu = d /\ ~FillCache(c)
      BY <1>1, <2>1 DEF TypeInv, TypeOK, FillCache
    <2>3. QED
      BY <2>1, <2>2 DEF FetchInv
  <1>2. CASE d = c
    BY <1>2 DEF TypeInv, TypeOK, FetchInv, Recheck, CallerStep, Start, LookShared,
                LookExclusive, ReadTable, FillCache, CallFails, Find, Answered,
                GotRates, Return, Call, Goto
  <1>3. QED
    BY <1>1, <1>2

LEMMA NextFetch == TypeInv /\ FetchInv /\ [Next]_vars => FetchInv'
  <1> SUFFICES ASSUME TypeInv, FetchInv, [Next]_vars PROVE FetchInv'
    OBVIOUS
  <1>1. ASSUME NEW c \in Callers, Start(c) \/ CallerStep(c) PROVE FetchInv'
    <2>1. (fetchedAt = cacheAt)'
      BY <1>1, CallerKeeps DEF FetchInv, FillCache
    <2>2. (cacheAt <= now)'
      BY <1>1, CallerKeeps DEF FetchInv, FillCache, TypeInv, TypeOK
    <2>3. ASSUME NEW d \in Callers, pc'[d] \in {"all", "allRead"} PROVE ~CacheValid'
      BY <1>1, <2>3, HoldsExpired, CallerKeeps DEF CacheValid
    <2>4. QED
      BY <2>1, <2>2, <2>3 DEF FetchInv
  <1>2. CASE Tick
    <2>1. ~CacheValid => ~CacheValid'
      BY <1>2, TimesAssumption DEF Tick, cache, CacheValid, TypeInv, TypeOK, Never
    <2>2. QED
      BY <1>2, <2>1 DEF Tick, cache, FetchInv, TypeInv, TypeOK, Never
  <1>3. CASE UpdateTable
    BY <1>3 DEF UpdateTable, cache, FetchInv, CacheValid
  <1>4. CASE AllDone \/ UNCHANGED vars
    BY <1>4 DEF AllDone, vars, cache, FetchInv, CacheValid
  <1>5. QED
    BY <1>1, <1>2, <1>3, <1>4 DEF Next

\* FetchedOncePerTTL: callers that find the cache expired together, wait for the
\* lock and get it one after the other fetch the table once, whatever fails.
THEOREM OneFetchPerTTL == Spec => FetchedOncePerTTL
  <1>1. ASSUME TypeInv, FetchInv, [Next]_vars, fetchedAt' # fetchedAt, fetchedAt # Never
        PROVE  fetchedAt' - fetchedAt >= TTL
    <2>1. PICK c \in Callers : FillCache(c)
      <3>1. CASE \E c \in Callers : Start(c) \/ CallerStep(c)
        BY <1>1, <3>1, CallerKeeps
      <3>2. CASE Tick \/ UpdateTable \/ AllDone \/ UNCHANGED vars
        BY <1>1, <3>2 DEF Tick, UpdateTable, AllDone, vars, cache
      <3>3. QED
        BY <1>1, <3>1, <3>2 DEF Next
    <2>2. ~CacheValid /\ cacheAt # Never /\ fetchedAt = cacheAt
      BY <1>1, <2>1 DEF FillCache, FetchInv
    <2>3. QED
      BY <1>1, <2>1, <2>2, TimesAssumption DEF FillCache, CacheValid, TypeInv, TypeOK, Never
  <1>2. TypeInv /\ FetchInv /\ [Next]_vars
          => [fetchedAt' # fetchedAt /\ fetchedAt # Never => fetchedAt' - fetchedAt >= TTL]_vars
    BY <1>1
  <1>3. QED
    BY TypeInvariant, InitFetch, NextFetch, <1>2, PTL DEF Spec, FetchedOncePerTTL

-----------------------------------------------------------------------------
(* The age of a rate *)

\* lastSeen is what it should be: the present value of a cell was seen now, and
\* nothing was seen later.
SeenInv ==
    /\ \A p \in Pairs : lastSeen[p][table[p]] = now
    /\ \A p \in Pairs, v \in Cells : lastSeen[p][v] <= now

LEMMA InitSeen == Init => SeenInv
  BY DEF Init, SeenInv, Tables, Never

\* The last time a value was seen never moves back.
LEMMA SeenGrows ==
  ASSUME TypeInv, SeenInv, [Next]_vars, NEW p \in Pairs, NEW v \in Cells
  PROVE  lastSeen'[p][v] >= lastSeen[p][v]
  <1>1. CASE \E c \in Callers : Start(c) \/ CallerStep(c)
    BY <1>1, CallerKeeps DEF TypeInv, TypeOK, Never
  <1>2. CASE Tick
    BY <1>2, TimesAssumption DEF Tick, SeenInv, TypeInv, TypeOK, Never, Tables
  <1>3. CASE UpdateTable
    BY <1>3, TimesAssumption DEF UpdateTable, SeenInv, TypeInv, TypeOK, Never
  <1>4. CASE AllDone \/ UNCHANGED vars
    BY <1>4 DEF AllDone, vars, exchanger, TypeInv, TypeOK, Never
  <1>5. QED
    BY <1>1, <1>2, <1>3, <1>4 DEF Next

LEMMA NextSeen == TypeInv /\ SeenInv /\ [Next]_vars => SeenInv'
  <1> SUFFICES ASSUME TypeInv, SeenInv, [Next]_vars PROVE SeenInv'
    OBVIOUS
  <1>1. CASE \E c \in Callers : Start(c) \/ CallerStep(c)
    BY <1>1, CallerKeeps DEF SeenInv
  <1>2. CASE Tick
    <2>1. ASSUME NEW p \in Pairs PROVE lastSeen'[p][table'[p]] = now'
      BY <1>2 DEF Tick, SeenInv, TypeInv, TypeOK, Tables
    <2>2. ASSUME NEW p \in Pairs, NEW v \in Cells PROVE lastSeen'[p][v] <= now'
      BY <1>2, TimesAssumption DEF Tick, SeenInv, TypeInv, TypeOK, Never, Tables
    <2>3. QED
      BY <2>1, <2>2 DEF SeenInv
  <1>3. CASE UpdateTable
    <2>1. ASSUME NEW p \in Pairs PROVE lastSeen'[p][table'[p]] = now'
      BY <1>3 DEF UpdateTable, SeenInv, TypeInv, TypeOK, Tables
    <2>2. ASSUME NEW p \in Pairs, NEW v \in Cells PROVE lastSeen'[p][v] <= now'
      BY <1>3 DEF UpdateTable, SeenInv, TypeInv, TypeOK, Tables
    <2>3. QED
      BY <2>1, <2>2 DEF SeenInv
  <1>4. CASE AllDone \/ UNCHANGED vars
    BY <1>4 DEF AllDone, vars, exchanger, SeenInv
  <1>5. QED
    BY <1>1, <1>2, <1>3, <1>4 DEF Next

\* A call is over when its timeout is.
CallInv ==
    \A c \in Callers :
        pc[c] \in Calling => deadline[c] - Timeout <= now /\ now <= deadline[c]

LEMMA InitCall == Init => CallInv
  BY DEF Init, CallInv, Calling

LEMMA NextCall == TypeInv /\ CallInv /\ [Next]_vars => CallInv'
  <1> SUFFICES ASSUME TypeInv, CallInv, [Next]_vars PROVE CallInv'
    OBVIOUS
  <1>1. ASSUME NEW c \in Callers, Start(c) \/ CallerStep(c) PROVE CallInv'
    <2>1. ASSUME NEW d \in Callers, pc'[d] \in Calling
          PROVE  deadline'[d] - Timeout <= now' /\ now' <= deadline'[d]
      <3>1. CASE d # c
        <4>1. pc'[d] = pc[d] /\ deadline'[d] = deadline[d] /\ now' = now
          BY <1>1, <3>1 DEF TypeInv, TypeOK, CallerStep, Start, LookShared, LookExclusive,
                            ReadTable, FillCache, CallFails, Find, Answered, GotRates,
                            Return, Call, EndCall, Goto
        <4>2. QED
          BY <2>1, <4>1 DEF CallInv
      <3>2. CASE d = c
        <4>1. now' = now /\ \/ pc[c] \in Calling /\ deadline'[c] = deadline[c]
                            \/ deadline'[c] = now + Timeout
          BY <1>1, <2>1, <3>2
             DEF TypeInv, TypeOK, CallerStep, Start, LookShared, LookExclusive, Calling,
                 ReadTable, FillCache, CallFails, Find, Answered, GotRates, Return, Call,
                 EndCall, Goto
        <4>2. QED
          BY <2>1, <3>2, <4>1, TimesAssumption DEF CallInv, TypeInv, TypeOK
      <3>3. QED
        BY <3>1, <3>2
    <2>2. QED
      BY <2>1 DEF CallInv
  <1>2. CASE Tick
    <2>1. now' = now + 1 /\ pc' = pc /\ deadline' = deadline
      BY <1>2 DEF Tick
    <2>2. \A c \in Callers : pc[c] \in Calling => now < deadline[c]
      BY <1>2 DEF Tick
    <2>3. QED
      BY <2>1, <2>2, TimesAssumption DEF CallInv, TypeInv, TypeOK
  <1>3. CASE UpdateTable
    BY <1>3 DEF UpdateTable, CallInv
  <1>4. CASE AllDone \/ UNCHANGED vars
    BY <1>4 DEF AllDone, vars, CallInv
  <1>5. QED
    BY <1>1, <1>2, <1>3, <1>4 DEF Next

\* What a call has read was in the table after the call began; what is cached was
\* in the table at most one timeout before it was cached.
ReplySeen(c) == \A p \in Pairs : lastSeen[p][reply[c][p]] >= deadline[c] - Timeout
CacheSeen == \A p \in Pairs : lastSeen[p][cacheRates[p]] >= cacheAt - Timeout

FreshInv ==
    /\ \A c \in Callers : pc[c] \in {"allRead", "oneRead"} => ReplySeen(c)
    /\ cacheAt # Never => CacheSeen
    /\ \A c \in Callers : rate[c] # Absent => pc[c] = "done" /\ want[c] \in Pairs
    /\ RateWasCurrent

LEMMA InitFresh == Init => FreshInv
  BY DEF Init, FreshInv, RateWasCurrent, Empty

AllInv == TypeInv /\ SeenInv /\ CallInv /\ FreshInv

\* A step of c does nothing to the call and the results of another caller.
LEMMA OthersKeep ==
  ASSUME TypeInv, NEW c \in Callers, Start(c) \/ CallerStep(c), NEW d \in Callers \ {c}
  PROVE  /\ pc'[d] = pc[d] /\ deadline'[d] = deadline[d] /\ reply'[d] = reply[d]
         /\ rates'[d] = rates[d] /\ rate'[d] = rate[d] /\ gotAt'[d] = gotAt[d]
  BY DEF TypeInv, TypeOK, CallerStep, Start, LookShared, LookExclusive, ReadTable, FillCache,
         CallFails, Find, Answered, GotRates, Return, Call, EndCall, Goto, result

\* A table that was current for a caller that gets it now.
FreshTable(t) ==
    \A p \in Pairs : t[p] # Absent => lastSeen[p][t[p]] >= now - (TTL + Timeout)

LEMMA CachedIsFresh ==
  ASSUME AllInv, CacheValid
  PROVE  FreshTable(cacheRates)
  BY TimesAssumption
     DEF AllInv, TypeInv, TypeOK, FreshInv, CacheSeen, CacheValid, FreshTable, Tables, Never

LEMMA ReplyIsFresh ==
  ASSUME AllInv, NEW c \in Callers, pc[c] \in {"allRead", "oneRead"}
  PROVE  FreshTable(reply[c])
  <1>1. ReplySeen(c) /\ now <= deadline[c]
    BY DEF AllInv, FreshInv, CallInv, Calling
  <1>2. QED
    BY <1>1, TimesAssumption DEF AllInv, TypeInv, TypeOK, ReplySeen, FreshTable, Tables, Never

\* What a caller has got is current after each of its steps.
CurrentFor(c) ==
    /\ rate[c] # Absent =>
         pc[c] = "done" /\ want[c] \in Pairs /\ Current(c, want[c], rate[c])
    /\ \A p \in Pairs : rates[c][p] # Absent => Current(c, p, rates[c][p])

LEMMA CurrentForAll ==
  ASSUME FreshInv, NEW c \in Callers PROVE CurrentFor(c)
  BY DEF FreshInv, RateWasCurrent, CurrentFor

\* rate is set when the handler gets its answer, and not before.
LEMMA GotFresh ==
  ASSUME AllInv, NEW c \in Callers, Start(c) \/ CallerStep(c),
         NEW t \in Tables, FreshTable(t), GotRates(c, t),
         rate[c] = Absent
  PROVE  CurrentFor(c)'
  <1>1. lastSeen' = lastSeen /\ want' = want
    BY CallerKeeps
  <1>2. rates'[c] = t /\ gotAt'[c] = now /\ rate'[c] = rate[c]
    BY DEF GotRates, AllInv, TypeInv, TypeOK
  <1>3. QED
    BY <1>1, <1>2 DEF CurrentFor, Current, FreshTable

\* GetRateWithSource returns a value that is current for its caller, or an error.
LEMMA ReturnFresh ==
  ASSUME AllInv, NEW c \in Callers, Start(c) \/ CallerStep(c),
         NEW v \in Cells, Return(c, v),
         v # Absent => want[c] \in Pairs /\ lastSeen[want[c]][v] >= gotAt'[c] - (TTL + Timeout)
  PROVE  CurrentFor(c)'
  <1>1. lastSeen' = lastSeen /\ want' = want
    BY CallerKeeps
  <1>2. rates'[c] = Empty /\ rate'[c] = v /\ pc'[c] = "done"
    BY DEF Return, Goto, AllInv, TypeInv, TypeOK
  <1>3. QED
    BY <1>1, <1>2 DEF CurrentFor, Current, Empty

LEMMA KeepFresh ==
  ASSUME AllInv, NEW c \in Callers, Start(c) \/ CallerStep(c), pc[c] # "done",
         rates' = rates, rate' = rate, gotAt' = gotAt
  PROVE  CurrentFor(c)'
  <1>1. lastSeen' = lastSeen /\ want' = want
    BY CallerKeeps
  <1>2. QED
    BY <1>1, CurrentForAll DEF AllInv, CurrentFor, Current

LEMMA CallerCurrent ==
  ASSUME AllInv, NEW c \in Callers, Start(c) \/ CallerStep(c)
  PROVE  CurrentFor(c)'
  <1>1. pc[c] # "done" /\ rate[c] = Absent
    <2>1. pc[c] # "done"
      BY DEF CallerStep, Start, LookShared, LookExclusive, ReadTable, FillCache, CallFails,
             Find, Answered, Calling
    <2>2. QED
      BY <2>1 DEF AllInv, FreshInv
  <1>2. cacheRates \in Tables /\ reply[c] \in Tables /\ rates[c] \in Tables
    BY DEF AllInv, TypeInv, TypeOK
  <1>3. CASE LookShared(c)
    BY <1>1, <1>2, <1>3, CachedIsFresh, GotFresh, KeepFresh DEF LookShared, result
  <1>4. CASE LookExclusive(c)
    BY <1>1, <1>2, <1>4, CachedIsFresh, GotFresh, KeepFresh DEF LookExclusive, Recheck, result
  <1>5. CASE FillCache(c)
    BY <1>1, <1>2, <1>5, ReplyIsFresh, GotFresh DEF FillCache
  <1>6. CASE CallFails(c)
    BY <1>6, ReturnFresh DEF CallFails, Cells
  <1>7. CASE Find(c)
    <2> DEFINE v == rates[c][want[c]]
    <2>1. want[c] \in Pairs /\ v \in Cells
      BY <1>2, <1>7 DEF Find, AllInv, TypeInv, WantsPair, Tables
    <2>2. CASE v # Absent /\ Return(c, v) /\ UNCHANGED <<deadline, gotAt>>
      <3>1. lastSeen[want[c]][v] >= gotAt'[c] - (TTL + Timeout)
        BY <2>1, <2>2, CurrentForAll DEF AllInv, CurrentFor, Current
      <3>2. QED
        BY <2>1, <2>2, <3>1, ReturnFresh
    <2>3. CASE Call(c, "one") /\ UNCHANGED result
      BY <1>1, <2>3, KeepFresh DEF result
    <2>4. QED
      BY <1>7, <2>2, <2>3 DEF Find
  <1>8. CASE Answered(c)
    <2> DEFINE v == reply[c][want[c]]
               w == IF v = Absent \/ v = 0 THEN Absent ELSE v
    <2>1. want[c] \in Pairs /\ v \in Cells
      BY <1>2, <1>8 DEF Answered, AllInv, TypeInv, WantsPair, Tables
    <2>2. w \in Cells /\ Return(c, w) /\ gotAt'[c] = now
      BY <1>8, <2>1 DEF Answered, Cells, AllInv, TypeInv, TypeOK
    <2>3. w # Absent => lastSeen[want[c]][w] >= gotAt'[c] - (TTL + Timeout)
      BY <1>8, <2>1, <2>2, ReplyIsFresh DEF Answered, FreshTable
    <2> HIDE DEF w
    <2>4. QED
      BY <2>1, <2>2, <2>3, ReturnFresh
  <1>9. CASE Start(c) \/ ReadTable(c)
    BY <1>1, <1>9, KeepFresh DEF Start, ReadTable, result
  <1>10. QED
    BY <1>3, <1>4, <1>5, <1>6, <1>7, <1>8, <1>9 DEF CallerStep

\* What a caller reads for its call.
LEMMA CallerReply ==
  ASSUME AllInv, NEW c \in Callers, Start(c) \/ CallerStep(c),
         pc'[c] \in {"allRead", "oneRead"}
  PROVE  ReplySeen(c)'
  <1>1. ReadTable(c)
    BY DEF AllInv, TypeInv, TypeOK, CallerStep, Start, LookShared, LookExclusive, FillCache,
           CallFails, Find, Answered, GotRates, Return, Call, Goto
  <1>2. reply'[c] = table /\ deadline'[c] = deadline[c] /\ lastSeen' = lastSeen
    BY <1>1 DEF ReadTable, exchanger, AllInv, TypeInv, TypeOK
  <1>3. deadline[c] - Timeout <= now
    BY <1>1 DEF ReadTable, AllInv, CallInv, Calling
  <1>4. \A p \in Pairs : lastSeen[p][table[p]] = now
    BY DEF AllInv, SeenInv
  <1>5. now \in Int /\ deadline[c] \in Int /\ Timeout \in Int
    BY TimesAssumption DEF AllInv, TypeInv, TypeOK
  <1>6. QED
    BY <1>2, <1>3, <1>4, <1>5 DEF ReplySeen

LEMMA CallerCache ==
  ASSUME AllInv, NEW c \in Callers, Start(c) \/ CallerStep(c), cacheAt' # Never
  PROVE  CacheSeen'
  <1>1. CASE FillCache(c)
    <2>1. ReplySeen(c) /\ now <= deadline[c]
      BY <1>1 DEF FillCache, AllInv, FreshInv, CallInv, Calling
    <2>2. cacheRates' = reply[c] /\ cacheAt' = now /\ lastSeen' = lastSeen
      BY <1>1 DEF FillCache, exchanger
    <2>3. QED
      BY <2>1, <2>2, TimesAssumption
         DEF ReplySeen, CacheSeen, AllInv, TypeInv, TypeOK, Tables, Never
  <1>2. CASE ~FillCache(c)
    BY <1>2, CallerKeeps DEF AllInv, FreshInv, CacheSeen
  <1>3. QED
    BY <1>1, <1>2

\* The clock and the exchanger change no result, and only add to what was seen.
LEMMA OutsideFresh ==
  ASSUME AllInv, [Next]_vars,
         UNCHANGED <<cacheRates, cacheAt, want, pc, deadline, reply, rates, rate, gotAt>>
  PROVE  FreshInv'
  <1>1. \A p \in Pairs, v \in Cells :
          lastSeen'[p][v] \in Int /\ lastSeen[p][v] \in Int /\ lastSeen'[p][v] >= lastSeen[p][v]
    <2>1. TypeInv'
      BY NextType DEF AllInv
    <2>2. QED
      BY <2>1, SeenGrows DEF AllInv, TypeInv, TypeOK, Never
  <1>2. \A c \in Callers : deadline[c] - Timeout \in Int /\ gotAt[c] - (TTL + Timeout) \in Int
    BY TimesAssumption DEF AllInv, TypeInv, TypeOK
  <1>3. cacheAt - Timeout \in Int
    BY TimesAssumption DEF AllInv, TypeInv, TypeOK, Never
  <1>4. ASSUME NEW c \in Callers, ReplySeen(c) PROVE ReplySeen(c)'
    BY <1>1, <1>2, <1>4 DEF ReplySeen, AllInv, TypeInv, TypeOK, Tables
  <1>5. CacheSeen => CacheSeen'
    BY <1>1, <1>3 DEF CacheSeen, AllInv, TypeInv, TypeOK, Tables
  <1>6. ASSUME NEW c \in Callers, NEW p \in Pairs, NEW v \in Cells, Current(c, p, v)
        PROVE  Current(c, p, v)'
    BY <1>1, <1>2, <1>6 DEF Current
  <1>7. ASSUME NEW c \in Callers PROVE CurrentFor(c)'
    <2>1. CurrentFor(c)
      BY CurrentForAll DEF AllInv
    <2>2. rate[c] \in Cells /\ \A p \in Pairs : rates[c][p] \in Cells
      BY DEF AllInv, TypeInv, TypeOK, Tables
    <2>3. rate'[c] = rate[c] /\ rates'[c] = rates[c] /\ want'[c] = want[c] /\ pc'[c] = pc[c]
      OBVIOUS
    <2>4. rate[c] # Absent => Current(c, want[c], rate[c])'
      BY <1>6, <2>1, <2>2 DEF CurrentFor
    <2>5. \A p \in Pairs : rates[c][p] # Absent => Current(c, p, rates[c][p])'
      BY <1>6, <2>1, <2>2 DEF CurrentFor
    <2>6. QED
      BY <2>1, <2>3, <2>4, <2>5 DEF CurrentFor
  <1>8. QED
    BY <1>4, <1>5, <1>7 DEF AllInv, FreshInv, RateWasCurrent, CurrentFor

LEMMA NextFresh == AllInv /\ [Next]_vars => FreshInv'
  <1> SUFFICES ASSUME AllInv, [Next]_vars PROVE FreshInv'
    OBVIOUS
  <1>1. ASSUME NEW c \in Callers, Start(c) \/ CallerStep(c) PROVE FreshInv'
    <2>0. TypeInv /\ lastSeen' = lastSeen /\ want' = want
      BY <1>1, CallerKeeps DEF AllInv
    <2>1. ASSUME NEW d \in Callers, pc'[d] \in {"allRead", "oneRead"} PROVE ReplySeen(d)'
      <3>1. CASE d # c
        BY <1>1, <2>0, <2>1, <3>1, OthersKeep DEF AllInv, FreshInv, ReplySeen
      <3>2. QED
        BY <1>1, <2>1, <3>1, CallerReply
    <2>2. (cacheAt # Never => CacheSeen)'
      BY <1>1, CallerCache
    <2>3. ASSUME NEW d \in Callers PROVE CurrentFor(d)'
      <3>1. CASE d # c
        BY <1>1, <2>0, <3>1, OthersKeep, CurrentForAll DEF AllInv, CurrentFor, Current
      <3>2. QED
        BY <1>1, <3>1, CallerCurrent
    <2>4. QED
      BY <2>1, <2>2, <2>3 DEF FreshInv, RateWasCurrent, CurrentFor
  <1>2. CASE Tick \/ UpdateTable \/ AllDone \/ UNCHANGED vars
    BY <1>2, OutsideFresh DEF Tick, UpdateTable, AllDone, vars, cache, result
  <1>3. QED
    BY <1>1, <1>2 DEF Next

\* RateWasCurrent: no handler exchanges or shows a rate older than TTL and one
\* timeout, for any interleaving of calls, cache fills and changes of the table.
THEOREM RatesAreCurrent == Spec => []RateWasCurrent
  <1>1. Init => AllInv
    BY InitType, InitSeen, InitCall, InitFresh DEF AllInv
  <1>2. AllInv /\ [Next]_vars => AllInv'
    BY NextType, NextSeen, NextCall, NextFresh DEF AllInv
  <1>3. AllInv => RateWasCurrent
    BY DEF AllInv, FreshInv
  <1>4. QED
    BY <1>1, <1>2, <1>3, PTL DEF Spec

-----------------------------------------------------------------------------
(* The wait for the lock *)

\* The callers other than c that are past the lock, and the time for which the
\* present holder, if it is not c, has held it.
Past(c) == {d \in Callers \ {c} : d # mu /\ pc[d] \notin {"idle", "rlock", "lock"}}
Held(c) == IF mu \in Callers \ {c} THEN now - (deadline[mu] - Timeout) ELSE 0

\* A caller holds the lock once, for at most one timeout: those past the lock
\* have held c up for at most one each, the holder for as long as it holds it.
WaitInv == \A c \in Callers : blocked[c] <= Timeout * Cardinality(Past(c)) + Held(c)

LEMMA InitWait == Init => WaitInv
  <1> SUFFICES ASSUME Init, NEW c \in Callers
               PROVE  blocked[c] <= Timeout * Cardinality(Past(c)) + Held(c)
    BY DEF WaitInv
  <1>1. Past(c) = {} /\ Held(c) = 0 /\ blocked[c] = 0
    BY CallersAssumption DEF Init, Past, Held
  <1>2. QED
    BY <1>1, FS_EmptySet, TimesAssumption

LEMMA PastFinite ==
  ASSUME NEW c \in Callers
  PROVE  /\ IsFiniteSet(Past(c)) /\ Cardinality(Past(c)) \in Nat
         /\ IsFiniteSet(Past(c)') /\ Cardinality(Past(c)') \in Nat
  <1>1. Past(c) \subseteq Callers /\ Past(c)' \subseteq Callers
    BY DEF Past
  <1>2. IsFiniteSet(Past(c)) /\ IsFiniteSet(Past(c)')
    BY <1>1, CallersAssumption, FS_Subset
  <1>3. QED
    BY <1>2, FS_CardinalityType

LEMMA ScaleUp ==
  ASSUME NEW m \in Nat, NEW n \in Nat, m <= n
  PROVE  Timeout * m <= Timeout * n /\ Timeout * m \in Int /\ Timeout * n \in Int
  BY TimesAssumption

LEMMA ScaleOne ==
  ASSUME NEW m \in Nat
  PROVE  Timeout * (m + 1) = Timeout * m + Timeout
  BY TimesAssumption

\* The set of those past the lock only grows.
LEMMA PastGrows ==
  ASSUME NEW c \in Callers, Past(c) \subseteq Past(c)'
  PROVE  Timeout * Cardinality(Past(c)) <= Timeout * Cardinality(Past(c)')
  BY PastFinite, FS_Subset, ScaleUp

\* By one caller, which pays for the timeout for which it has held the lock.
LEMMA PastGains ==
  ASSUME NEW c \in Callers, NEW d, d \notin Past(c), Past(c)' = Past(c) \cup {d}
  PROVE  Timeout * Cardinality(Past(c)') = Timeout * Cardinality(Past(c)) + Timeout
  <1>1. Cardinality(Past(c)') = Cardinality(Past(c)) + 1
    BY PastFinite, FS_AddElement
  <1>2. QED
    BY <1>1, PastFinite, ScaleOne

\* Nobody holds the lock for longer than one timeout.
LEMMA HeldBounded ==
  ASSUME TypeInv, CallInv, NEW c \in Callers
  PROVE  Held(c) \in Int /\ Held(c) <= Timeout
  <1>1. CASE mu \in Callers \ {c}
    <2>1. pc[mu] \in Calling
      BY <1>1 DEF TypeInv, TypeOK, Calling
    <2>2. QED
      BY <1>1, <2>1, TimesAssumption DEF Held, CallInv, TypeInv, TypeOK
  <1>2. QED
    BY <1>1, TimesAssumption DEF Held

\* A step of a caller that leaves the lock alone.
LEMMA CallerWaits ==
  ASSUME TypeInv, CallInv, WaitInv, NEW e \in Callers, Start(e) \/ CallerStep(e), mu' = mu,
         NEW c \in Callers
  PROVE  blocked'[c] <= Timeout * Cardinality(Past(c)') + Held(c)'
  <1>1. mu \in Callers => pc[mu] \in {"all", "allRead"}
    BY DEF TypeInv, TypeOK
  <1>2. mu = e => ReadTable(e)
    BY <1>1, CallersAssumption
       DEF CallerStep, Start, LookShared, LookExclusive, ReadTable, FillCache,
           CallFails, Find, Answered, Calling, Unlock
  <1>3. mu \in Callers => deadline'[mu] = deadline[mu]
    BY <1>2, OthersKeep DEF ReadTable
  <1>4. Held(c)' = Held(c)
    BY <1>3, CallerKeeps DEF Held
  <1>5. Past(c) \subseteq Past(c)'
    <2> SUFFICES ASSUME NEW d \in Past(c) PROVE d \in Past(c)'
      OBVIOUS
    <2>1. d \in Callers \ {c} /\ d # mu /\ pc[d] \notin {"idle", "rlock", "lock"}
      BY DEF Past
    <2>2. pc'[d] \notin {"idle", "rlock", "lock"}
      <3>1. CASE d # e
        BY <2>1, <3>1, OthersKeep
      <3>2. CASE d = e
        BY <2>1, <3>2 DEF TypeInv, TypeOK, CallerStep, Start, LookShared, LookExclusive,
                          ReadTable, FillCache, CallFails, Find, Answered, GotRates,
                          Return, Call, Goto
      <3>3. QED
        BY <3>1, <3>2
    <2>3. QED
      BY <2>1, <2>2 DEF Past
  <1>6. blocked'[c] = blocked[c] /\ blocked[c] \in Int
    BY CallerKeeps DEF TypeInv, TypeOK
  <1>7. Timeout * Cardinality(Past(c)) \in Int /\ Timeout * Cardinality(Past(c)') \in Int
    BY PastFinite, TimesAssumption
  <1>8. QED
    BY <1>4, <1>5, <1>6, <1>7, PastGrows, HeldBounded DEF WaitInv

\* A caller that takes the lock has not held it yet.
LEMMA LockWaits ==
  ASSUME TypeInv, CallInv, WaitInv, NEW e \in Callers, LookExclusive(e), mu' # mu,
         NEW c \in Callers
  PROVE  blocked'[c] <= Timeout * Cardinality(Past(c)') + Held(c)'
  <1>1. mu = Nobody /\ mu' = e /\ pc[e] = "lock" /\ now' = now /\ blocked' = blocked
        /\ deadline' = [deadline EXCEPT ![e] = now + Timeout] /\ pc' = [pc EXCEPT ![e] = "all"]
    BY DEF LookExclusive, Call, Goto
  <1>2. Held(c) = 0 /\ Held(c)' = 0
    BY <1>1, CallersAssumption, TimesAssumption DEF Held, TypeInv, TypeOK
  <1>3. Past(c)' = Past(c)
    BY <1>1, CallersAssumption DEF Past, TypeInv, TypeOK
  <1>4. QED
    BY <1>1, <1>2, <1>3 DEF WaitInv

\* A caller that gives the lock back is past it.
LEMMA UnlockWaits ==
  ASSUME TypeInv, CallInv, WaitInv, NEW e \in Callers, mu = e,
         FillCache(e) \/ CallFails(e),
         NEW c \in Callers
  PROVE  blocked'[c] <= Timeout * Cardinality(Past(c)') + Held(c)'
  <1>1. pc[e] \in {"all", "allRead"}
    BY DEF TypeInv, TypeOK
  <1>2. mu' = Nobody /\ blocked' = blocked
    BY <1>1 DEF FillCache, CallFails, Unlock
  <1>3. \E s \in {"done", "find"} : pc' = [pc EXCEPT ![e] = s]
    BY DEF FillCache, CallFails, GotRates, Return, Goto
  <1>4. Held(c)' = 0
    BY <1>2, CallersAssumption DEF Held
  <1>5. blocked[c] \in Int /\ Timeout * Cardinality(Past(c)) \in Int
    BY PastFinite, TimesAssumption DEF TypeInv, TypeOK
  <1>6. CASE c = e
    <2>1. Past(c)' = Past(c)
      BY <1>2, <1>3, <1>6, CallersAssumption DEF Past, TypeInv, TypeOK
    <2>2. Held(c) = 0
      BY <1>6 DEF Held
    <2>3. QED
      BY <1>2, <1>4, <2>1, <2>2 DEF WaitInv
  <1>7. CASE c # e
    <2>1. e \notin Past(c) /\ Past(c)' = Past(c) \cup {e}
      BY <1>2, <1>3, <1>7, CallersAssumption DEF Past, TypeInv, TypeOK
    <2>2. Timeout * Cardinality(Past(c)') = Timeout * Cardinality(Past(c)) + Timeout
      BY <2>1, PastGains
    <2>3. blocked[c] <= Timeout * Cardinality(Past(c)) + Timeout
      BY <1>5, HeldBounded, TimesAssumption DEF WaitInv
    <2>4. QED
      BY <1>2, <1>4, <1>5, <2>2, <2>3, TimesAssumption
  <1>8. QED
    BY <1>6, <1>7

\* Time that a caller waits is time that the lock is held by another.
LEMMA TickWaits ==
  ASSUME TypeInv, CallInv, WaitInv, Tick, NEW c \in Callers
  PROVE  blocked'[c] <= Timeout * Cardinality(Past(c)') + Held(c)'
  <1>1. pc' = pc /\ mu' = mu /\ deadline' = deadline /\ now' = now + 1
    BY DEF Tick
  <1>2. Past(c)' = Past(c)
    BY <1>1 DEF Past
  <1>3. Timeout * Cardinality(Past(c)) \in Int /\ blocked[c] \in Int /\ Held(c) \in Int
    BY PastFinite, HeldBounded, TimesAssumption DEF TypeInv, TypeOK
  <1>4. CASE mu \in Callers \ {c}
    <2>1. Held(c)' = Held(c) + 1
      <3>1. now \in Int /\ deadline[mu] \in Int /\ Timeout \in Int
        BY <1>4, TimesAssumption DEF TypeInv, TypeOK
      <3>2. /\ Held(c) = now - (deadline[mu] - Timeout)
            /\ Held(c)' = (now + 1) - (deadline[mu] - Timeout)
        BY <1>1, <1>4 DEF Held
      <3>3. QED
        BY <3>1, <3>2
    <2>2. blocked'[c] <= blocked[c] + 1
      BY <1>3 DEF Tick
    <2>3. blocked'[c] \in Int
      BY <1>3 DEF Tick
    <2>4. QED
      BY <1>2, <1>3, <2>1, <2>2, <2>3 DEF WaitInv
  <1>5. CASE mu \notin Callers \ {c}
    <2>1. Held(c)' = Held(c)
      BY <1>1, <1>5 DEF Held
    <2>2. blocked'[c] = blocked[c]
      BY <1>5 DEF Tick, TypeInv, TypeOK
    <2>3. QED
      BY <1>2, <2>1, <2>2 DEF WaitInv
  <1>6. QED
    BY <1>4, <1>5

LEMMA NextWait == TypeInv /\ CallInv /\ WaitInv /\ [Next]_vars => WaitInv'
  <1> SUFFICES ASSUME TypeInv, CallInv, WaitInv, [Next]_vars, NEW c \in Callers
               PROVE  blocked'[c] <= Timeout * Cardinality(Past(c)') + Held(c)'
    BY DEF WaitInv
  <1>1. ASSUME NEW e \in Callers, Start(e) \/ CallerStep(e), mu' # mu
        PROVE  \/ LookExclusive(e)
               \/ mu = e /\ (FillCache(e) \/ CallFails(e))
    BY <1>1 DEF CallerStep, Start, LookShared, ReadTable, FillCache, CallFails, Find, Answered,
                TypeInv, TypeOK
  <1>2. CASE \E e \in Callers : Start(e) \/ CallerStep(e)
    BY <1>1, <1>2, CallerWaits, LockWaits, UnlockWaits
  <1>3. CASE Tick
    BY <1>3, TickWaits
  <1>4. CASE UpdateTable \/ AllDone \/ UNCHANGED vars
    <2>1. pc' = pc /\ mu' = mu /\ deadline' = deadline /\ now' = now /\ blocked' = blocked
      BY <1>4 DEF UpdateTable, AllDone, vars
    <2>2. Past(c)' = Past(c) /\ Held(c)' = Held(c)
      BY <2>1 DEF Past, Held
    <2>3. QED
      BY <2>1, <2>2 DEF WaitInv
  <1>5. QED
    BY <1>2, <1>3, <1>4 DEF Next

\* Those past the lock and its holder are at most all callers but the one waiting.
LEMMA WaitSafe ==
  ASSUME TypeInv, CallInv, WaitInv, NEW c \in Callers
  PROVE  blocked[c] <= (Cardinality(Callers) - 1) * Timeout
  <1> DEFINE n == Cardinality(Callers) - 1
             k == Cardinality(Past(c))
  <1>1. IsFiniteSet(Callers \ {c}) /\ Cardinality(Callers \ {c}) = n /\ n \in Nat
    BY CallersAssumption, FS_RemoveElement, FS_CardinalityType
  <1>2. k \in Nat /\ blocked[c] \in Int /\ blocked[c] <= Timeout * k + Held(c)
    BY PastFinite DEF WaitInv, TypeInv, TypeOK
  <1>3. Timeout * n = n * Timeout /\ Timeout * k \in Int
    BY <1>1, <1>2, TimesAssumption
  <1>4. CASE mu \in Callers \ {c}
    <2>1. Cardinality((Callers \ {c}) \ {mu}) = n - 1 /\ IsFiniteSet((Callers \ {c}) \ {mu})
      BY <1>1, <1>4, FS_RemoveElement
    <2>2. Past(c) \subseteq (Callers \ {c}) \ {mu}
      BY DEF Past
    <2>3. k + 1 <= n
      BY <1>1, <1>2, <2>1, <2>2, FS_Subset
    <2>4. Timeout * k + Timeout <= Timeout * n
      <3>1. k + 1 \in Nat
        BY <1>2
      <3>2. QED
        BY <1>1, <1>2, <2>3, <3>1, ScaleUp, ScaleOne
    <2> HIDE DEF n, k
    <2>5. QED
      BY <1>1, <1>2, <1>3, <2>4, HeldBounded, TimesAssumption DEF n
  <1>5. CASE mu \notin Callers \ {c}
    <2>1. Held(c) = 0
      BY <1>5 DEF Held
    <2>2. Past(c) \subseteq Callers \ {c}
      BY DEF Past
    <2>3. k <= n
      BY <1>1, <2>2, FS_Subset
    <2>4. Timeout * k <= Timeout * n
      BY <1>1, <1>2, <2>3, ScaleUp
    <2> HIDE DEF n, k
    <2>5. QED
      BY <1>1, <1>2, <1>3, <2>1, <2>4, TimesAssumption DEF n
  <1>6. QED
    BY <1>4, <1>5

\* WaitBounded: the lock holds a caller up for at most one timeout per other
\* caller, however many find the cache expired with an exchanger that is silent.
THEOREM WaitIsBounded == Spec => []WaitBounded
  <1>1. Init => TypeInv /\ CallInv /\ WaitInv
    BY InitType, InitCall, InitWait
  <1>2. (TypeInv /\ CallInv /\ WaitInv) /\ [Next]_vars => (TypeInv /\ CallInv /\ WaitInv)'
    BY NextType, NextCall, NextWait
  <1>3. TypeInv /\ CallInv /\ WaitInv => WaitBounded
    BY WaitSafe DEF WaitBounded
  <1>4. QED
    BY <1>1, <1>2, <1>3, PTL DEF Spec
=============================================================================
