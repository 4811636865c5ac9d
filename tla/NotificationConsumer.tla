------------------------ MODULE NotificationConsumer ------------------------
(***************************************************************************)
(* gw-notification: the consumer of large-transaction events.  It reads    *)
(* partition 0 of the topic, inserts each event into MongoDB and then      *)
(* records the offset to continue from: in the collection consumer_offsets *)
(* (runSimpleConsumer) or at the broker (runGroupConsumer).                *)
(*                                                                         *)
(* Offsets count from 0 as in Kafka; stored is the next offset to read,    *)
(* and 0 when none is recorded.  Messages are appended to the partition    *)
(* while the consumer runs.  Kafka and MongoDB are external.  A cancelled  *)
(* context ends every loop without another state change, so a shutdown is  *)
(* a Crash.  Logging and the health server are left out.                   *)
(*                                                                         *)
(* skipped is a history variable: no guard reads it.                       *)
(***************************************************************************)
EXTENDS Integers, Sequences

CONSTANTS
    N,                 \* bound on the messages in the partition
    Ids,               \* transaction ids
    Garbage,           \* a message json.Unmarshal refuses
    UseConsumerGroup,  \* values considered: runGroupConsumer or runSimpleConsumer
    retryAttempts,     \* inserts tried for one event
    MaxCrashes,        \* bound on crashes and restarts
    MaxReconnects      \* bound on broken connections and rebalances

ASSUME BoundsAssumption ==
    /\ N \in Nat
    /\ retryAttempts \in Nat \ {0}
    /\ MaxCrashes \in Nat
    /\ MaxReconnects \in Nat
ASSUME ModeAssumption == UseConsumerGroup \subseteq BOOLEAN
ASSUME GarbageAssumption == Garbage \notin Ids

VARIABLES
    group,      \* cfg.UseConsumerGroup
    log,        \* the messages of the partition
    stored,     \* the recorded offset
    docs,       \* number of documents in Mongo for each transaction id
    pc,         \* what the consumer does next
    pos,        \* offset of the next message the reader returns
    cur,        \* offset of the message being saved
    attempt,    \* failed inserts of the message being saved
    crashes,
    reconnects,
    skipped     \* offsets of events given up after retryAttempts inserts

vars == <<group, log, stored, docs, pc, pos, cur, attempt, crashes, reconnects,
          skipped>>

Steps == {"open", "fetch", "save", "commit"}
Messages == Ids \cup {Garbage}

\* The offsets of the messages in the partition, and the message at one.
Offsets == 0..(Len(log) - 1)
At(o) == log[o + 1]

Init ==
    /\ group \in UseConsumerGroup
    /\ log = <<>>
    /\ stored = 0
    /\ docs = [i \in Ids |-> 0]
    /\ pc = "open"
    /\ pos = 0 /\ cur = 0 /\ attempt = 0
    /\ crashes = 0 /\ reconnects = 0
    /\ skipped = {}

-----------------------------------------------------------------------------
\* Some producer's message is appended to the partition.
Produce(m) ==
    /\ Len(log) < N
    /\ log' = Append(log, m)
    /\ UNCHANGED <<group, stored, docs, pc, pos, cur, attempt, crashes, reconnects,
                   skipped>>

\* Mutant: an offset that cannot be read is taken for the end of the partition.
StartOffsets_End == {stored, Len(log)}
\* Where a new reader may start.  A group continues from its offset; the simple
\* reader starts over when GetConsumerOffset fails or finds nothing.
StartOffsets == IF group THEN {stored} ELSE {stored, 0}

\* A new reader, and SetOffset.
Open ==
    /\ pc = "open"
    /\ pos' \in StartOffsets
    /\ pc' = "fetch"
    /\ UNCHANGED <<log, group, stored, docs, cur, attempt, crashes, reconnects, skipped>>

\* FetchMessage and json.Unmarshal; what cannot be parsed is passed over.
Fetch ==
    /\ pc = "fetch" /\ pos < Len(log)
    /\ pos' = pos + 1
    /\ \/ At(pos) = Garbage /\ UNCHANGED <<pc, cur, attempt>>
       \/ /\ At(pos) # Garbage
          /\ pc' = "save" /\ cur' = pos /\ attempt' = 0
    /\ UNCHANGED <<log, group, stored, docs, crashes, reconnects, skipped>>

\* Mutant: there is no unique index.
Duplicate_Unseen(i) == FALSE
\* The unique index on transaction_id refuses another document.
Duplicate(i) == docs[i] > 0

\* InsertOne as Mongo executes it.
InsertOne(i) == docs' = IF Duplicate(i) THEN docs ELSE [docs EXCEPT ![i] = @ + 1]

\* InsertLargeTransaction succeeds, or reports a duplicate, which is success.
Saved ==
    /\ pc = "save"
    /\ InsertOne(At(cur))
    /\ pc' = "commit"
    /\ UNCHANGED <<log, group, stored, pos, cur, attempt, crashes, reconnects, skipped>>

\* Mutant: one attempt too many.
LastAttempt_OffByOne == attempt = retryAttempts
LastAttempt == attempt + 1 = retryAttempts

\* Mutant: the offset is recorded although the event was not saved.
GaveUp_Commits == pc' = "commit" /\ UNCHANGED <<attempt, skipped>>
\* saveWithRetry returns false: the next message is fetched.
GaveUp ==
    /\ pc' = "fetch"
    /\ attempt' = 0
    /\ skipped' = skipped \cup {cur}

\* InsertLargeTransaction fails, although Mongo may have executed it.
InsertFails ==
    /\ pc = "save"
    /\ InsertOne(At(cur)) \/ UNCHANGED docs
    /\ \/ LastAttempt /\ GaveUp
       \/ /\ ~LastAttempt
          /\ attempt' = attempt + 1
          /\ UNCHANGED <<pc, skipped>>
    /\ UNCHANGED <<log, group, stored, pos, cur, crashes, reconnects>>

\* Mutant: the reader's position is recorded.
NextOffset_Ahead == IF pos < Len(log) THEN pos + 1 ELSE pos
\* msg.Offset + 1.
NextOffset == cur + 1

\* SetConsumerOffset or CommitMessages.  A failure is only logged; the write
\* may have been executed all the same.
RecordOffset ==
    /\ pc = "commit"
    /\ stored' \in {stored, NextOffset}
    /\ pc' = "fetch"
    /\ attempt' = 0
    /\ UNCHANGED <<log, group, docs, pos, cur, crashes, reconnects, skipped>>

\* FetchMessage returns EOF: the reader is closed and made anew.
Reconnect ==
    /\ pc = "fetch" /\ reconnects < MaxReconnects
    /\ reconnects' = reconnects + 1
    /\ pc' = "open"
    /\ UNCHANGED <<log, group, stored, docs, pos, cur, attempt, crashes, skipped>>

\* The group rebalances: the reader goes back to the recorded offset while the
\* consumer may be saving a message it has fetched before.
Rebalance ==
    /\ group /\ pc # "open" /\ reconnects < MaxReconnects
    /\ reconnects' = reconnects + 1
    /\ pos' = stored
    /\ UNCHANGED <<log, group, stored, docs, pc, cur, attempt, crashes, skipped>>

Crash ==
    /\ crashes < MaxCrashes
    /\ crashes' = crashes + 1
    /\ pc' = "open"
    /\ attempt' = 0
    /\ UNCHANGED <<log, group, stored, docs, pos, cur, reconnects, skipped>>

\* Nothing is left to read.
AtEnd == pc = "fetch" /\ pos = Len(log) /\ UNCHANGED vars

ConsumerStep == Open \/ Fetch \/ Saved \/ InsertFails \/ RecordOffset

ConsumerNext == ConsumerStep \/ Reconnect \/ Rebalance \/ Crash

Next == ConsumerNext \/ AtEnd \/ (\E m \in Messages : Produce(m))

Spec == Init /\ [][Next]_vars

\* The consumer runs, and every call to Mongo returns: with success, a duplicate or
\* an error.  Nothing is assumed of its success, since every loop over it ends.
FairSpec == Spec /\ WF_vars(ConsumerStep)

-----------------------------------------------------------------------------
(* Properties *)

\* Every variable keeps its type; in particular an event is tried at most
\* retryAttempts times.
TypeOK ==
    /\ group \in BOOLEAN
    /\ log \in Seq(Messages) /\ Len(log) <= N
    /\ stored \in 0..Len(log)
    /\ docs \in [Ids -> Nat]
    /\ pc \in Steps
    /\ pos \in 0..Len(log)
    /\ cur \in 0..Len(log)
    /\ attempt \in 0..(retryAttempts - 1)
    /\ crashes \in 0..MaxCrashes
    /\ reconnects \in 0..MaxReconnects
    /\ skipped \subseteq Offsets

\* A transaction has at most one document, whatever inserts are repeated after
\* lost answers, duplicate messages, replays from the first offset and crashes.
OneDocument == \A i \in Ids : docs[i] <= 1

\* Nothing is left to do for the message: it is no event, its transaction has
\* been saved, or it was given up on.
Settled(o) ==
    \/ At(o) = Garbage
    \/ o \in skipped
    \/ docs[At(o)] > 0

\* An event below the recorded offset, which no later start reads again, is
\* saved or was given up on by saveWithRetry: crashes, reconnects, replays and
\* failed writes of the offset lose nothing.
OffsetCovered == \A o \in Offsets : o < stored => Settled(o)

\* The consumer gets through the partition: whatever is written, and however
\* often Mongo fails, it comes to a point where every event is saved or given
\* up, since no event is retried without end.
EverythingSettled == []<>(\A o \in Offsets : Settled(o))

-----------------------------------------------------------------------------
(* What the documentation says and the code does not keep *)

\* README.md: errors other than duplicates lead to a retry without a commit.
\* Then every event below the recorded offset is saved.
NoEventLost ==
    \A o \in Offsets : o < stored =>
        At(o) = Garbage \/ docs[At(o)] > 0
=============================================================================
