------------------------- MODULE PageViewAggregator -------------------------
(***************************************************************************)
(* pv-aggregator: the consumer of page-view events.  The goroutine of Run  *)
(* fetches messages, sends the invalid ones to the DLQ and to the table    *)
(* processing_errors, and buffers the valid ones.  A batch is flushed to   *)
(* ClickHouse by Run itself when the buffer is full, by the goroutine of   *)
(* flushLoop when its ticker or flushChan fires, and by Close at shutdown; *)
(* nothing keeps two flushes from running at the same time.                *)
(*                                                                         *)
(* One partition is modelled (offsets of different partitions do not meet  *)
(* anywhere in this code).  Offset o stands for the o-th message of the    *)
(* partition; committed = o means that the group restarts at o + 1.        *)
(* Kafka and ClickHouse are external.  Metrics and logging are left out.   *)
(*                                                                         *)
(* start and high are history variables: no guard reads them.              *)
(***************************************************************************)
EXTENDS Integers, Sequences

CONSTANTS
    N,            \* messages in the partition
    Logs,         \* the partitions considered: kinds of their messages
    BatchSize,    \* Buffer.maxSize
    MaxAttempts,  \* attempts of insertWithRetry
    TickerOn,     \* FlushIntervalMs > 0
    DLQEnabled,   \* values considered of dlq.Producer.enabled
    MaxRestarts,  \* bound on crashes and restarts
    MaxRebalances \* bound on rebalances of the consumer group

ASSUME SizesAssumption ==
    /\ N \in Nat
    /\ BatchSize \in Nat \ {0}
    /\ MaxAttempts \in Nat \ {0}
    /\ MaxRestarts \in Nat
    /\ MaxRebalances \in Nat
ASSUME SwitchesAssumption == TickerOn \in BOOLEAN /\ DLQEnabled \subseteq BOOLEAN

Offsets == 1..N
Flushers == {"run", "loop", "close"}
Kinds == {"good", "bad"}
ASSUME LogsAssumption == Logs \subseteq [Offsets -> Kinds]

VARIABLES
    log,        \* the kind of each message: does parseAndValidate accept it
    committed,  \* the group's committed offset
    fetched,    \* the reader's position: offset of the last message it returned
    runpc,      \* what the goroutine of Run does next
    cur,        \* the message in the hands of Run, 0 if none
    buffer,     \* Buffer.messages
    flushChan,  \* a token is in Buffer.flushChan
    fpc,        \* what each flush does next
    batch,      \* the messages each flush has taken from the buffer
    attempt,    \* failed attempts of each insertWithRetry
    raw,        \* offsets in table page_views_raw
    enabled,    \* dlq.Producer.enabled: Send does nothing without
    dlq,        \* offsets in the DLQ topic
    errors,     \* offsets in table processing_errors
    mode,       \* "up", "stopping" (ctx cancelled) or "closing" (Close called)
    restarts,
    rebalances,
    start,      \* committed offset when the process last started
    high        \* highest offset fetched since then

reader == <<committed, fetched>>
run    == <<runpc, cur>>
flushs == <<fpc, batch, attempt>>
stores == <<raw, dlq, errors>>
world  == <<log, enabled, restarts, rebalances, start>>
vars   == <<log, enabled, reader, run, buffer, flushChan, flushs, stores, mode,
            restarts, rebalances, start, high>>

RunSteps   == {"fetch", "add", "dlq", "error", "commit", "flush", "flushing", "stopped"}
FlushSteps == {"idle", "insert", "commit"}

\* The offsets in a sequence of messages.
Elems(s) == {s[i] : i \in 1..Len(s)}

Init ==
    /\ log \in Logs
    /\ enabled \in DLQEnabled
    /\ committed = 0 /\ fetched = 0
    /\ runpc = "fetch" /\ cur = 0
    /\ buffer = <<>> /\ flushChan = FALSE
    /\ fpc = [f \in Flushers |-> "idle"]
    /\ batch = [f \in Flushers |-> <<>>]
    /\ attempt = [f \in Flushers |-> 0]
    /\ raw = {} /\ dlq = {} /\ errors = {}
    /\ mode = "up"
    /\ restarts = 0 /\ rebalances = 0
    /\ start = 0 /\ high = 0

-----------------------------------------------------------------------------
(* The goroutine of Run *)

\* FetchMessage and parseAndValidate.  Fetch errors change nothing.
Fetch ==
    /\ mode = "up" /\ runpc = "fetch" /\ fetched < N
    /\ fetched' = fetched + 1
    /\ cur' = fetched + 1
    /\ high' = IF fetched + 1 > high THEN fetched + 1 ELSE high
    /\ runpc' = IF log[fetched + 1] = "good" THEN "add" ELSE "dlq"
    /\ UNCHANGED <<world, committed, buffer, flushChan, flushs, stores, mode>>

ShouldFlush(s) == Len(s) >= BatchSize

\* buffer.Add: append, and put a token into flushChan when the buffer is full.
Add ==
    LET new == Append(buffer, cur) IN
    /\ runpc = "add"
    /\ buffer' = new
    /\ cur' = 0
    /\ \/ ShouldFlush(new) /\ runpc' = "flush" /\ flushChan' = TRUE
       \/ ~ShouldFlush(new) /\ runpc' = "fetch" /\ UNCHANGED flushChan
    /\ UNCHANGED <<world, reader, flushs, stores, mode, high>>

\* Mutant: the error of Send is only logged.
SendDLQ_ErrorIgnored ==
    /\ runpc = "dlq"
    /\ dlq' \in IF enabled THEN {dlq, dlq \cup {cur}} ELSE {dlq}
    /\ runpc' = "error"
    /\ UNCHANGED <<world, reader, cur, buffer, flushChan, flushs, raw, errors, mode, high>>
\* dlqProducer.Send; on an error the message may have been written all the
\* same.  handleErrorWithRetry and the loop around it retry without end.
SendDLQ ==
    /\ runpc = "dlq"
    /\ \/ /\ dlq' = IF enabled THEN dlq \cup {cur} ELSE dlq
          /\ runpc' = "error"
       \/ /\ enabled
          /\ dlq' \in {dlq, dlq \cup {cur}}
          /\ UNCHANGED runpc
    /\ UNCHANGED <<world, reader, cur, buffer, flushChan, flushs, raw, errors, mode, high>>

\* Mutant: a failed insert into processing_errors is not retried.
InsertError_NoRetry ==
    /\ runpc = "error"
    /\ errors' \in {errors, errors \cup {cur}}
    /\ runpc' = "commit"
    /\ UNCHANGED <<world, reader, cur, buffer, flushChan, flushs, raw, dlq, mode, high>>
\* repo.InsertError; a failure starts over with the DLQ.
InsertError ==
    /\ runpc = "error"
    /\ \/ errors' = errors \cup {cur} /\ runpc' = "commit"
       \/ errors' \in {errors, errors \cup {cur}} /\ runpc' = "dlq"
    /\ UNCHANGED <<world, reader, cur, buffer, flushChan, flushs, raw, dlq, mode, high>>

\* CommitMessages after the DLQ path; a failure is only logged.
CommitBad ==
    /\ runpc = "commit"
    /\ committed' \in {committed, cur}
    /\ cur' = 0
    /\ runpc' = "fetch"
    /\ UNCHANGED <<world, fetched, buffer, flushChan, flushs, stores, mode, high>>

\* ctx.Done is seen at the top of the loop, in FetchMessage and in the waits of
\* the DLQ path.
RunStops ==
    /\ mode # "up" /\ runpc \in {"fetch", "dlq"}
    /\ runpc' = "stopped"
    /\ UNCHANGED <<world, reader, cur, buffer, flushChan, flushs, stores, mode, high>>

-----------------------------------------------------------------------------
(* flush *)

\* flush by f has returned: Run goes back to its loop.
Return(f) ==
    /\ fpc' = [fpc EXCEPT ![f] = "idle"]
    /\ batch' = [batch EXCEPT ![f] = <<>>]
    /\ attempt' = [attempt EXCEPT ![f] = 0]
    /\ runpc' = IF f = "run" THEN "fetch" ELSE runpc

\* Mutant: the buffer is copied but not cleared.
GetAndClear_NotCleared(f) ==
    /\ buffer # <<>>
    /\ batch' = [batch EXCEPT ![f] = buffer]
    /\ fpc' = [fpc EXCEPT ![f] = "insert"]
    /\ UNCHANGED <<buffer, attempt>>
\* GetAndClear, for a flush that finds messages.
GetAndClear(f) ==
    /\ buffer # <<>>
    /\ batch' = [batch EXCEPT ![f] = buffer]
    /\ fpc' = [fpc EXCEPT ![f] = "insert"]
    /\ buffer' = <<>>
    /\ UNCHANGED attempt

\* The flush Run makes itself; another flush may have emptied the buffer.
RunFlush ==
    /\ runpc = "flush"
    /\ \/ /\ buffer = <<>> /\ runpc' = "fetch"
          /\ UNCHANGED <<buffer, flushs>>
       \/ GetAndClear("run") /\ runpc' = "flushing"
    /\ UNCHANGED <<world, reader, cur, flushChan, stores, mode, high>>

\* flushLoop wakes up: the ticker fires, or there is a token in flushChan.  Its
\* select may still choose them when ctx.Done is ready as well.
LoopFlush ==
    /\ TickerOn /\ fpc["loop"] = "idle"
    /\ \/ UNCHANGED flushChan /\ GetAndClear("loop")
       \/ /\ flushChan /\ flushChan' = FALSE
          /\ \/ GetAndClear("loop")
             \/ buffer = <<>> /\ UNCHANGED <<buffer, flushs>>
    /\ UNCHANGED <<world, reader, run, stores, mode, high>>

\* InsertRawBatch succeeds.
InsertOK(f) ==
    /\ fpc[f] = "insert"
    /\ raw' = raw \cup Elems(batch[f])
    /\ fpc' = [fpc EXCEPT ![f] = "commit"]
    /\ UNCHANGED <<world, reader, run, buffer, flushChan, batch, attempt, dlq, errors, mode, high>>

\* Mutant: insertWithRetry gives up and the messages are dropped.
PutBack_Dropped(f) == UNCHANGED buffer
\* PutBack prepends the messages of a failed flush.
PutBack(f) == buffer' = batch[f] \o buffer

\* Mutant: the attempts are counted from one too late.
LastAttempt_OffByOne(f) == attempt[f] = MaxAttempts
LastAttempt(f) == attempt[f] + 1 = MaxAttempts

\* InsertRawBatch fails, although ClickHouse may have taken the rows.  The last
\* attempt, and a cancelled context, give the messages back to the buffer.
InsertFails(f) ==
    /\ fpc[f] = "insert"
    /\ raw' \in {raw, raw \cup Elems(batch[f])}
    /\ \/ /\ ~LastAttempt(f)
          /\ attempt' = [attempt EXCEPT ![f] = @ + 1]
          /\ UNCHANGED <<runpc, buffer, fpc, batch>>
       \/ /\ LastAttempt(f) \/ (mode # "up" /\ f # "close")
          /\ PutBack(f)
          /\ Return(f)
    /\ UNCHANGED <<world, reader, cur, flushChan, dlq, errors, mode, high>>

\* Mutant: one is added to an offset that the client library adds one to.
LastOf_PlusOne(s) == 1 + CHOOSE o \in Elems(s) : \A p \in Elems(s) : p <= o
\* The offset a commit request for these messages sets: the largest.
LastOf(s) == CHOOSE o \in Elems(s) : \A p \in Elems(s) : p <= o

\* CommitMessages after a flush; a failure is only logged.  The request sets
\* the group's offset whatever it was before.
CommitFlush(f) ==
    /\ fpc[f] = "commit"
    /\ committed' \in {committed, LastOf(batch[f])}
    /\ Return(f)
    /\ UNCHANGED <<world, fetched, cur, buffer, flushChan, stores, mode, high>>

-----------------------------------------------------------------------------
(* Shutdown, crash, rebalance *)

\* SIGTERM: main cancels the context.
Stop ==
    /\ mode = "up" /\ restarts < MaxRestarts
    /\ mode' = "stopping"
    /\ UNCHANGED <<world, reader, run, buffer, flushChan, flushs, stores, high>>

\* Two seconds later Close makes a last flush, whatever the others are doing.
Close ==
    /\ mode = "stopping"
    /\ mode' = "closing"
    /\ \/ GetAndClear("close")
       \/ buffer = <<>> /\ UNCHANGED <<buffer, flushs>>
    /\ UNCHANGED <<world, reader, run, flushChan, stores, high>>

\* The process ends, by a crash or because main returns after Close, and a new
\* one starts from the committed offset.
Restart ==
    /\ restarts < MaxRestarts
    /\ restarts' = restarts + 1
    /\ mode' = "up"
    /\ fetched' = committed /\ start' = committed /\ high' = committed
    /\ runpc' = "fetch" /\ cur' = 0
    /\ buffer' = <<>> /\ flushChan' = FALSE
    /\ fpc' = [f \in Flushers |-> "idle"]
    /\ batch' = [f \in Flushers |-> <<>>]
    /\ attempt' = [f \in Flushers |-> 0]
    /\ UNCHANGED <<log, enabled, committed, stores, rebalances>>

\* The group rebalances: the reader goes back to the committed offset, while
\* the buffer and the running flushes keep their messages.
Rebalance ==
    /\ mode = "up" /\ rebalances < MaxRebalances
    /\ rebalances' = rebalances + 1
    /\ fetched' = committed
    /\ UNCHANGED <<log, enabled, committed, run, buffer, flushChan, flushs, stores, mode,
                   restarts, start, high>>

-----------------------------------------------------------------------------
RunStep == Fetch \/ Add \/ SendDLQ \/ InsertError \/ CommitBad \/ RunFlush \/ RunStops
FlushStep(f) == InsertOK(f) \/ InsertFails(f) \/ CommitFlush(f)

\* Everything has been read and flushed; Run waits in FetchMessage.
Idle ==
    /\ mode = "up" /\ runpc = "fetch" /\ fetched = N
    /\ buffer = <<>> /\ \A f \in Flushers : fpc[f] = "idle"
    /\ UNCHANGED vars

Next ==
    \/ RunStep
    \/ LoopFlush
    \/ \E f \in Flushers : FlushStep(f)
    \/ Stop \/ Close \/ Restart \/ Rebalance
    \/ Idle

Spec == Init /\ [][Next]_vars

\* The goroutines run and the ticker fires.  ClickHouse and Kafka are not down
\* for ever: an operation that is retried without end succeeds in the end.
Fairness ==
    /\ WF_vars(RunStep)
    /\ WF_vars(LoopFlush)
    /\ \A f \in Flushers : WF_vars(FlushStep(f)) /\ SF_vars(InsertOK(f))
    /\ SF_vars(SendDLQ /\ runpc' = "error")
    /\ SF_vars(InsertError /\ runpc' = "commit")
FairSpec == Spec /\ Fairness

-----------------------------------------------------------------------------
(* Properties *)

\* Every variable keeps its type.
TypeOK ==
    /\ log \in [Offsets -> Kinds]
    /\ enabled \in BOOLEAN
    /\ committed \in 0..N /\ fetched \in 0..N
    /\ runpc \in RunSteps /\ cur \in 0..N
    /\ buffer \in Seq(Offsets) /\ flushChan \in BOOLEAN
    /\ fpc \in [Flushers -> FlushSteps]
    /\ batch \in [Flushers -> Seq(Offsets)]
    /\ attempt \in [Flushers -> 0..MaxAttempts-1]
    /\ raw \subseteq Offsets /\ dlq \subseteq Offsets /\ errors \subseteq Offsets
    /\ mode \in {"up", "stopping", "closing"}
    /\ restarts \in 0..MaxRestarts /\ rebalances \in 0..MaxRebalances
    /\ start \in 0..N /\ high \in 0..N

\* The message has reached the place it is meant for.
Stored(o) ==
    IF log[o] = "good" THEN o \in raw
    ELSE o \in errors /\ (enabled => o \in dlq)

\* The process still holds the message.
Held(o) ==
    \/ o = cur
    \/ o \in Elems(buffer)
    \/ \E f \in Flushers : o \in Elems(batch[f])

\* While a process lives, no message it has fetched gets out of its hands
\* before it is stored: not through failed inserts, PutBack, concurrent
\* flushes, rebalances or a shutdown that has begun.
NothingDropped ==
    \A o \in Offsets : start < o /\ o <= high => Stored(o) \/ Held(o)

\* The group's offset never runs ahead of what was fetched, and what it covers
\* since the last start is stored or still held.
CommitCovered ==
    /\ committed <= high
    /\ \A o \in Offsets : start < o /\ o <= committed => Stored(o) \/ Held(o)

\* Valid messages are stored in page_views_raw only, invalid ones in
\* processing_errors and the DLQ only, and a row of processing_errors is
\* written after the message was sent to the DLQ (handleError's order).
StoredWhereMeant ==
    /\ \A o \in raw : log[o] = "good"
    /\ \A o \in dlq \cup errors : log[o] = "bad"
    /\ enabled => errors \subseteq dlq

\* As long as the group does not rebalance, a message is in one place: in the
\* hands of Run, in the buffer, or in the batch of one flush.  Two concurrent
\* flushes never insert the same row.
SingleCustody ==
    rebalances = 0 =>
        /\ \A i, j \in 1..Len(buffer) : buffer[i] = buffer[j] => i = j
        /\ cur \notin Elems(buffer)
        /\ \A f \in Flushers :
             /\ cur \notin Elems(batch[f])
             /\ Elems(buffer) \cap Elems(batch[f]) = {}
             /\ \A g \in Flushers \ {f} : Elems(batch[f]) \cap Elems(batch[g]) = {}

\* With the ticker on and backends that come back, a process that is not
\* stopped, or the one that takes over after a crash, stores every message from
\* the offset it was started at, also those that a rebalance gave it a second
\* time or a failed insert put back.
EverythingStored ==
    <>(mode # "up" \/ \A o \in Offsets : start < o => Stored(o))

-----------------------------------------------------------------------------
(* What the documentation says and the code does not keep *)

\* handleError: "at-least-once: commit only after both complete".  A message
\* below the committed offset, which no later start fetches, is stored or still
\* held by the process.
NoEventLost ==
    \A o \in Offsets : o <= committed => Stored(o) \/ Held(o)
=============================================================================
