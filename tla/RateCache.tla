----------------------------- MODULE RateCache ------------------------------
(***************************************************************************)
(* gw-currency-wallet's client of the exchanger: GetAllRates with its      *)
(* cache, called concurrently by HandleExchange, through GetRateWithSource *)
(* for one pair, and by HandleExchangeRates and HandleHealth, for all.     *)
(*                                                                         *)
(* GetAllRates looks at the cache under RLock, and again under Lock, which *)
(* it then holds during the gRPC call.  The exchanger reads its table at   *)
(* some moment of a call; the call ends by its timeout at the latest.      *)
(* Time is discrete.  The section under RLock takes one step: it waits for *)
(* nothing but the lock.  The exchanger's table and gRPC are modelled from *)
(* gw-exchanger, whose table is changed from outside.                      *)
(*                                                                         *)
(* gotAt, blocked, lastSeen and fetchedAt are history variables: no guard  *)
(* reads them.                                                             *)
(***************************************************************************)
EXTENDS Integers, FiniteSets

CONSTANTS
    Callers,     \* one slot per call of a handler
    Pairs,       \* currency pairs
    Rates,       \* the values a rate may have
    Absent,      \* a pair without a row
    AllPairs,    \* not a pair: the caller wants all the rates
    Nobody,      \* not a caller: the lock is free
    TTL,         \* cacheTTL
    Timeout,     \* timeout of a gRPC call
    MaxTime,     \* bound on the clock
    MaxUpdates   \* bound on changes of the exchanger's table

ASSUME RatesAssumption == Rates \subseteq Nat /\ Absent \notin Rates
ASSUME CallersAssumption == IsFiniteSet(Callers) /\ Nobody \notin Callers
ASSUME AllPairsAssumption == AllPairs \notin Pairs
ASSUME TimesAssumption ==
    TTL \in Nat /\ Timeout \in Nat /\ MaxTime \in Nat /\ MaxUpdates \in Nat

Cells == Rates \cup {Absent}
Tables == [Pairs -> Cells]
Never == -1

VARIABLES
    now,        \* the clock
    table,      \* the exchanger's currency_rates
    updates,    \* changes of the table so far
    cacheRates, \* the cached table
    cacheAt,    \* when it was cached, Never if it was not
    mu,         \* who holds the lock for writing
    want,       \* the pair a caller wants a rate for, or AllPairs
    pc,         \* what each caller does next
    deadline,   \* when the gRPC call of a caller times out
    reply,      \* the table the exchanger has read for a call
    rates,      \* what GetAllRates has returned
    rate,       \* what GetRateWithSource has returned; Absent for an error
    gotAt,      \* when the last of its calls for rates returned
    blocked,    \* how long a caller has waited for the lock
    lastSeen,   \* when the table last had each value of a cell
    fetchedAt   \* when GetExchangeRates last succeeded

exchanger == <<table, updates, lastSeen>>
cache     == <<cacheRates, cacheAt, fetchedAt>>
result    == <<rates, rate, gotAt>>
vars == <<now, exchanger, cache, mu, want, pc, deadline, reply, result, blocked>>

Steps == {"idle", "rlock", "lock", "all", "allRead", "find", "one", "oneRead", "done"}
Empty == [p \in Pairs |-> Absent]
Calling == {"all", "allRead", "one", "oneRead"}

Init ==
    /\ now = 0
    /\ table \in Tables
    /\ updates = 0
    /\ cacheRates = Empty /\ cacheAt = Never
    /\ mu = Nobody
    /\ want \in [Callers -> Pairs \cup {AllPairs}]
    /\ pc = [c \in Callers |-> "idle"]
    /\ deadline = [c \in Callers |-> 0]
    /\ reply = [c \in Callers |-> Empty]
    /\ rates = [c \in Callers |-> Empty]
    /\ rate = [c \in Callers |-> Absent]
    /\ gotAt = [c \in Callers |-> 0]
    /\ blocked = [c \in Callers |-> 0]
    /\ lastSeen = [p \in Pairs |-> [v \in Cells |-> IF v = table[p] THEN 0 ELSE Never]]
    /\ fetchedAt = Never

-----------------------------------------------------------------------------
Goto(c, s) == pc' = [pc EXCEPT ![c] = s]

\* GetAllRates returns a copy of a table, to the handler or to GetRateWithSource.
GotRates(c, t) ==
    /\ rates' = [rates EXCEPT ![c] = t]
    /\ gotAt' = [gotAt EXCEPT ![c] = now]
    /\ Goto(c, IF want[c] = AllPairs THEN "done" ELSE "find")
    /\ UNCHANGED rate

\* GetRateWithSource returns.
Return(c, v) ==
    /\ rate' = [rate EXCEPT ![c] = v]
    /\ rates' = [rates EXCEPT ![c] = Empty]
    /\ Goto(c, "done")

\* Mutant: the cache never expires.
CacheValid_Forever == cacheAt # Never
CacheValid == cacheAt # Never /\ now - cacheAt < TTL

Start(c) ==
    /\ pc[c] = "idle"
    /\ Goto(c, "rlock")
    /\ UNCHANGED <<now, exchanger, cache, mu, want, deadline, reply, result, blocked>>

\* The look at the cache under RLock.
LookShared(c) ==
    /\ pc[c] = "rlock" /\ mu = Nobody
    /\ \/ CacheValid /\ GotRates(c, cacheRates)
       \/ ~CacheValid /\ Goto(c, "lock") /\ UNCHANGED result
    /\ UNCHANGED <<now, exchanger, cache, mu, want, deadline, reply, blocked>>

\* Mutant: the timeout counts twice.
Call_LateTimeout(c, s) ==
    /\ Goto(c, s)
    /\ deadline' = [deadline EXCEPT ![c] = now + 2 * Timeout]
\* Begin a gRPC call.
Call(c, s) ==
    /\ Goto(c, s)
    /\ deadline' = [deadline EXCEPT ![c] = now + Timeout]

\* Mutant: the cache is not looked at again under Lock.
Recheck_Missing == FALSE
\* Another caller has filled the cache while this one waited for Lock.
Recheck == CacheValid

\* Lock, the second look at the cache, and the start of the call.
LookExclusive(c) ==
    /\ pc[c] = "lock" /\ mu = Nobody
    /\ \/ /\ Recheck
          /\ GotRates(c, cacheRates)
          /\ UNCHANGED <<mu, deadline>>
       \/ /\ ~Recheck
          /\ mu' = c
          /\ Call(c, "all")
          /\ UNCHANGED result
    /\ UNCHANGED <<now, exchanger, cache, want, reply, blocked>>

\* The exchanger reads currency_rates for a call of c (AllRates and Rate).
ReadTable(c) ==
    /\ \/ pc[c] = "all" /\ Goto(c, "allRead")
       \/ pc[c] = "one" /\ Goto(c, "oneRead")
    /\ reply' = [reply EXCEPT ![c] = table]
    /\ UNCHANGED <<now, exchanger, cache, mu, want, deadline, result, blocked>>

\* Mutant: Lock is not released.
Unlock_Missing(c) == mu' = mu
\* The deferred Unlock.
Unlock(c) == mu' = Nobody

\* The call is over and its context cancelled.
EndCall(c) ==
    /\ deadline' = [deadline EXCEPT ![c] = 0]
    /\ reply' = [reply EXCEPT ![c] = Empty]

\* GetExchangeRates has answered: the cache is filled.
FillCache(c) ==
    /\ pc[c] = "allRead"
    /\ cacheRates' = reply[c]
    /\ cacheAt' = now
    /\ fetchedAt' = now
    /\ Unlock(c)
    /\ GotRates(c, reply[c])
    /\ EndCall(c)
    /\ UNCHANGED <<now, exchanger, want, blocked>>

\* A gRPC call fails: an error, its timeout, or the request is cancelled.
CallFails(c) ==
    /\ pc[c] \in Calling
    /\ IF pc[c] \in {"all", "allRead"} THEN Unlock(c) ELSE UNCHANGED mu
    /\ Return(c, Absent)
    /\ EndCall(c)
    /\ UNCHANGED <<now, exchanger, gotAt, cache, want, blocked>>

\* GetRateWithSource looks the pair up and asks for it if it is not there.
Find(c) ==
    LET v == rates[c][want[c]] IN
    /\ pc[c] = "find"
    /\ \/ v # Absent /\ Return(c, v) /\ UNCHANGED <<deadline, gotAt>>
       \/ v = Absent /\ Call(c, "one") /\ UNCHANGED result
    /\ UNCHANGED <<now, exchanger, cache, mu, want, reply, blocked>>

\* GetExchangeRateForCurrency has answered; no row and a rate that is not
\* positive are errors.
Answered(c) ==
    LET v == reply[c][want[c]] IN
    /\ pc[c] = "oneRead"
    /\ Return(c, IF v = Absent \/ v = 0 THEN Absent ELSE v)
    /\ gotAt' = [gotAt EXCEPT ![c] = now]
    /\ EndCall(c)
    /\ UNCHANGED <<now, exchanger, cache, mu, want, blocked>>

-----------------------------------------------------------------------------
\* The clock; a call does not outlive its timeout.
Tick ==
    /\ now < MaxTime
    /\ \A c \in Callers : pc[c] \in Calling => now < deadline[c]
    /\ now' = now + 1
    /\ lastSeen' = [p \in Pairs |-> [lastSeen[p] EXCEPT ![table[p]] = now + 1]]
    /\ blocked' = [c \in Callers |->
                     IF pc[c] \in {"rlock", "lock"} /\ mu # Nobody
                       THEN blocked[c] + 1 ELSE blocked[c]]
    /\ UNCHANGED <<table, updates, cache, mu, want, pc, deadline, reply, result>>

\* The exchanger's table is changed.
UpdateTable ==
    /\ updates < MaxUpdates
    /\ updates' = updates + 1
    /\ \E p \in Pairs, v \in Cells :
         /\ v # table[p]
         /\ table' = [table EXCEPT ![p] = v]
         /\ lastSeen' = [lastSeen EXCEPT ![p][v] = now]
    /\ UNCHANGED <<now, cache, mu, want, pc, deadline, reply, result, blocked>>

CallerStep(c) ==
    \/ LookShared(c) \/ LookExclusive(c) \/ ReadTable(c) \/ FillCache(c)
    \/ CallFails(c) \/ Find(c) \/ Answered(c)

\* All calls have returned.
AllDone == (\A c \in Callers : pc[c] = "done") /\ UNCHANGED vars

Next ==
    \/ \E c \in Callers : Start(c) \/ CallerStep(c)
    \/ Tick \/ UpdateTable
    \/ AllDone

Spec == Init /\ [][Next]_vars

\* The goroutines run, and a call ends by its timeout.
Fairness == \A c \in Callers : WF_vars(CallerStep(c))
FairSpec == Spec /\ Fairness

-----------------------------------------------------------------------------
(* Properties *)

\* Every variable keeps its type, and the lock is held exactly during a
\* GetExchangeRates call: no path out of one keeps it.
TypeOK ==
    /\ now \in 0..MaxTime
    /\ table \in Tables /\ updates \in 0..MaxUpdates
    /\ cacheRates \in Tables /\ cacheAt \in Never..MaxTime
    /\ mu \in Callers \cup {Nobody}
    /\ want \in [Callers -> Pairs \cup {AllPairs}]
    /\ pc \in [Callers -> Steps]
    /\ deadline \in [Callers -> 0..MaxTime + Timeout]
    /\ reply \in [Callers -> Tables]
    /\ rates \in [Callers -> Tables]
    /\ rate \in [Callers -> Cells]
    /\ gotAt \in [Callers -> 0..MaxTime]
    /\ blocked \in [Callers -> 0..MaxTime]
    /\ lastSeen \in [Pairs -> [Cells -> Never..MaxTime]]
    /\ fetchedAt \in Never..MaxTime
    /\ \A c \in Callers : pc[c] \in {"all", "allRead"} <=> mu = c

\* Handlers that find the cache expired together cause one call: the table is
\* only fetched again when the last one fetched has been cached for TTL.
FetchedOncePerTTL ==
    [][fetchedAt' # fetchedAt /\ fetchedAt # Never =>
         fetchedAt' - fetchedAt >= TTL]_vars

\* The pair had the rate at some moment not longer than TTL and the timeout of a
\* call before the client got it.
Current(c, p, v) == lastSeen[p][v] >= gotAt[c] - (TTL + Timeout)

\* A rate a handler exchanges money at, or shows, was the exchanger's rate for
\* the pair at most TTL and one timeout before the client got it, from the cache
\* or from a call, whatever updates came in between.
RateWasCurrent ==
    \A c \in Callers :
        /\ rate[c] # Absent => Current(c, want[c], rate[c])
        /\ \A p \in Pairs : rates[c][p] # Absent => Current(c, p, rates[c][p])

\* The lock, which no context can interrupt, holds a handler up for at most one
\* timeout per other handler that uses the client, also with an exchanger that
\* answers none of them and a cache that has just expired.
WaitBounded ==
    \A c \in Callers : blocked[c] <= (Cardinality(Callers) - 1) * Timeout

\* A handler never waits for ever behind the lock or a silent exchanger.
EveryCallReturns ==
    \A c \in Callers : (pc[c] = "rlock") ~> (pc[c] = "done")
=============================================================================
