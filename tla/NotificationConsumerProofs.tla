--------------------- MODULE NotificationConsumerProofs ---------------------
(***************************************************************************)
(* Proofs about NotificationConsumer, in both modes, for every partition   *)
(* and every growth of it, number of attempts, crashes and reconnects.     *)
(***************************************************************************)
EXTENDS NotificationConsumer, TLAPS

USE BoundsAssumption, ModeAssumption, GarbageAssumption DEF Offsets, Messages, At

-----------------------------------------------------------------------------
(* The inductive invariant *)

\* What an open reader has passed is settled, except the message being saved.
PositionInv ==
    pc # "open" =>
        \A o \in Offsets : o < pos =>
            Settled(o) \/ (pc = "save" /\ o = cur)

\* The message being saved is an event and all before it are settled: a
\* rebalance may have moved pos away from it.  When its offset is about to be
\* recorded, it has been saved.
CurrentInv ==
    pc \in {"save", "commit"} =>
        /\ cur \in Offsets
        /\ At(cur) \in Ids
        /\ \A o \in Offsets : o < cur => Settled(o)
        /\ pc = "commit" => docs[At(cur)] > 0

NInv ==
    /\ TypeOK
    /\ OneDocument
    /\ OffsetCovered
    /\ PositionInv
    /\ CurrentInv

\* The message at an offset of the partition.
LEMMA AtType ==
  ASSUME TypeOK, NEW o \in Offsets
  PROVE  At(o) \in Messages
  BY DEF TypeOK, At

\* A message once settled stays settled: documents are never deleted.
LEMMA SettledKept ==
  ASSUME TypeOK, TypeOK', log' = log, skipped \subseteq skipped',
         \A i \in Ids : docs[i] <= docs'[i],
         NEW o \in Offsets, Settled(o)
  PROVE  Settled(o)'
  <1>1. CASE At(o) = Garbage \/ o \in skipped
    BY <1>1 DEF Settled
  <1>2. CASE At(o) # Garbage /\ docs[At(o)] > 0
    <2>1. At(o) \in Ids
      BY <1>2, AtType
    <2>2. docs[At(o)] \in Nat /\ docs'[At(o)] \in Nat
      BY <2>1 DEF TypeOK
    <2>3. QED
      BY <1>2, <2>1, <2>2 DEF Settled
  <1>3. QED
    BY <1>1, <1>2 DEF Settled

\* InsertOne adds a document to a transaction that has none, and to no other.
LEMMA InsertOneAdds ==
  ASSUME TypeOK, OneDocument, NEW i \in Ids, InsertOne(i)
  PROVE  /\ docs' \in [Ids -> Nat]
         /\ OneDocument'
         /\ docs'[i] > 0
         /\ \A j \in Ids : docs[j] <= docs'[j]
  BY DEF TypeOK, OneDocument, InsertOne, Duplicate

LEMMA InitNInv == Init => NInv
  <1> SUFFICES ASSUME Init PROVE NInv
    OBVIOUS
  <1>1. TypeOK
    BY DEF Init, TypeOK, Steps
  <1>2. OneDocument /\ OffsetCovered /\ PositionInv /\ CurrentInv
    BY DEF Init, OneDocument, OffsetCovered, PositionInv, CurrentInv
  <1>3. QED
    BY <1>1, <1>2 DEF NInv

-----------------------------------------------------------------------------
(* One lemma per action *)

\* A message appended to the partition lies above all offsets the consumer
\* knows of.
LEMMA ProduceKeeps ==
  ASSUME NInv, NEW m \in Messages, Produce(m)
  PROVE  NInv'
  <1>1. /\ log' \in Seq(Messages) /\ Len(log') = Len(log) + 1 /\ Len(log') <= N
        /\ \A i \in 1..Len(log) : log'[i] = log[i]
    BY DEF NInv, TypeOK, Produce
  <1>2. Len(log) \in Nat
    BY DEF NInv, TypeOK
  <1>3. TypeOK'
    BY <1>1, <1>2 DEF NInv, Produce, TypeOK
  <1>4. \A o \in Offsets : o \in Offsets' /\ At(o)' = At(o) /\ (Settled(o) => Settled(o)')
    BY <1>1, <1>2 DEF Produce, Settled
  <1>5. \A o \in Offsets', n \in 0..Len(log) : o < n => o \in Offsets
    BY <1>1, <1>2
  <1>6. OneDocument' /\ OffsetCovered'
    BY <1>4, <1>5 DEF NInv, TypeOK, Produce, OneDocument, OffsetCovered
  <1>7. PositionInv'
    BY <1>4, <1>5 DEF NInv, TypeOK, Produce, PositionInv
  <1>8. CurrentInv'
    BY <1>4, <1>5 DEF NInv, TypeOK, Produce, CurrentInv
  <1>9. QED
    BY <1>3, <1>6, <1>7, <1>8 DEF NInv

LEMMA OpenKeeps ==
  ASSUME NInv, Open
  PROVE  NInv'
  <1>1. pos' \in 0..N /\ (pos' = stored \/ pos' = 0)
    BY DEF NInv, TypeOK, Open, StartOffsets
  <1>2. TypeOK'
    BY <1>1 DEF NInv, Open, TypeOK, Steps
  <1>3. \A o \in Offsets : Settled(o)' <=> Settled(o)
    BY DEF Open, Settled
  <1>4. OneDocument' /\ OffsetCovered'
    BY <1>3 DEF NInv, Open, OneDocument, OffsetCovered
  <1>5. PositionInv' /\ CurrentInv'
    BY <1>1, <1>3 DEF NInv, Open, OffsetCovered, PositionInv, CurrentInv
  <1>6. QED
    BY <1>2, <1>4, <1>5 DEF NInv

LEMMA FetchKeeps ==
  ASSUME NInv, Fetch
  PROVE  NInv'
  <1>1. pos \in Offsets /\ pos \in Nat
    BY DEF NInv, TypeOK, Fetch
  <1>2. TypeOK'
    BY <1>1 DEF NInv, Fetch, TypeOK, Steps
  <1>3. \A o \in Offsets : Settled(o)' <=> Settled(o)
    BY DEF Fetch, Settled
  <1>4. OneDocument' /\ OffsetCovered'
    BY <1>3 DEF NInv, Fetch, OneDocument, OffsetCovered
  <1>5. \A o \in Offsets : o < pos => Settled(o)
    BY DEF NInv, PositionInv, Fetch
  <1>6. CASE At(pos) = Garbage
    <2>1. Settled(pos)
      BY <1>6 DEF Settled
    <2>2. \A o \in Offsets : o < pos' => o < pos \/ o = pos
      BY <1>1 DEF Fetch
    <2>3. PositionInv'
      BY <2>1, <2>2, <1>3, <1>5 DEF Fetch, PositionInv
    <2>4. CurrentInv'
      BY <1>6 DEF Fetch, CurrentInv
    <2>5. QED
      BY <1>2, <1>4, <2>3, <2>4 DEF NInv
  <1>7. CASE At(pos) # Garbage
    <2>1. At(pos) \in Ids
      BY <1>1, <1>7 DEF NInv, TypeOK
    <2>2. \A o \in Offsets : o < pos' => o < pos \/ o = pos
      BY <1>1 DEF Fetch
    <2>3. pc' = "save" /\ cur' = pos /\ log' = log
      BY <1>7 DEF Fetch
    <2>4. PositionInv'
      BY <2>2, <2>3, <1>3, <1>5 DEF PositionInv
    <2>5. CurrentInv'
      BY <2>1, <2>3, <1>1, <1>3, <1>5 DEF CurrentInv
    <2>6. QED
      BY <1>2, <1>4, <2>4, <2>5 DEF NInv
  <1>8. QED
    BY <1>6, <1>7

LEMMA SavedKeeps ==
  ASSUME NInv, Saved
  PROVE  NInv'
  <1>1. cur \in Offsets /\ At(cur) \in Ids
    BY DEF NInv, CurrentInv, Saved
  <1>2. /\ docs' \in [Ids -> Nat] /\ OneDocument' /\ docs'[At(cur)] > 0
        /\ \A j \in Ids : docs[j] <= docs'[j]
    BY <1>1, InsertOneAdds DEF NInv, Saved
  <1>3. TypeOK'
    BY <1>2 DEF NInv, Saved, TypeOK, Steps
  <1>4. \A o \in Offsets : Settled(o) => Settled(o)'
    BY <1>2, <1>3, SettledKept DEF NInv, Saved
  <1>5. Settled(cur)'
    BY <1>2 DEF Saved, Settled
  <1>6. OffsetCovered'
    BY <1>4 DEF NInv, Saved, OffsetCovered
  <1>7. PositionInv'
    BY <1>4, <1>5 DEF NInv, Saved, PositionInv
  <1>8. CurrentInv'
    BY <1>2, <1>4 DEF NInv, Saved, CurrentInv
  <1>9. QED
    BY <1>2, <1>3, <1>6, <1>7, <1>8 DEF NInv

LEMMA InsertFailsKeeps ==
  ASSUME NInv, InsertFails
  PROVE  NInv'
  <1>1. cur \in Offsets /\ At(cur) \in Ids
    BY DEF NInv, CurrentInv, InsertFails
  <1>2. /\ docs' \in [Ids -> Nat] /\ OneDocument'
        /\ \A j \in Ids : docs[j] <= docs'[j]
    <2>1. CASE InsertOne(At(cur))
      BY <2>1, <1>1, InsertOneAdds DEF NInv
    <2>2. CASE UNCHANGED docs
      BY <2>2 DEF NInv, TypeOK, OneDocument
    <2>3. QED
      BY <2>1, <2>2 DEF InsertFails
  <1>3. TypeOK'
    <2>1. attempt' \in 0..(retryAttempts - 1)
      BY DEF NInv, InsertFails, GaveUp, LastAttempt, TypeOK
    <2>2. pc' \in Steps /\ skipped' \subseteq Offsets
      BY <1>1 DEF NInv, InsertFails, GaveUp, TypeOK, Steps
    <2>3. QED
      BY <1>2, <2>1, <2>2 DEF NInv, InsertFails, TypeOK
  <1>4. \A o \in Offsets : Settled(o) => Settled(o)'
    BY <1>2, <1>3, SettledKept DEF NInv, InsertFails, GaveUp
  <1>5. OffsetCovered'
    BY <1>4 DEF NInv, InsertFails, OffsetCovered
  <1>6. CASE GaveUp
    <2>1. Settled(cur)'
      BY <1>6 DEF GaveUp, InsertFails, Settled
    <2>2. PositionInv' /\ CurrentInv'
      BY <1>4, <1>6, <2>1 DEF NInv, InsertFails, GaveUp, PositionInv, CurrentInv
    <2>3. QED
      BY <1>2, <1>3, <1>5, <2>2 DEF NInv
  <1>7. CASE UNCHANGED <<pc, skipped>>
    <2>1. PositionInv' /\ CurrentInv'
      BY <1>4, <1>7 DEF NInv, InsertFails, PositionInv, CurrentInv
    <2>2. QED
      BY <1>2, <1>3, <1>5, <2>1 DEF NInv
  <1>8. QED
    BY <1>6, <1>7 DEF InsertFails

LEMMA RecordOffsetKeeps ==
  ASSUME NInv, RecordOffset
  PROVE  NInv'
  <1>1. /\ cur \in Offsets /\ At(cur) \in Ids /\ docs[At(cur)] > 0
        /\ \A o \in Offsets : o < cur => Settled(o)
    BY DEF NInv, CurrentInv, RecordOffset
  <1>2. TypeOK'
    BY <1>1 DEF NInv, RecordOffset, NextOffset, TypeOK, Steps
  <1>3. \A o \in Offsets : Settled(o)' <=> Settled(o)
    BY DEF RecordOffset, Settled
  <1>4. \A o \in Offsets : o < cur + 1 => Settled(o)
    <2>1. Settled(cur)
      BY <1>1 DEF Settled
    <2>2. QED
      BY <2>1, <1>1
  <1>5. OffsetCovered'
    <2>1. CASE stored' = stored
      BY <2>1, <1>3 DEF NInv, RecordOffset, OffsetCovered
    <2>2. CASE stored' = cur + 1
      BY <2>2, <1>3, <1>4 DEF RecordOffset, OffsetCovered
    <2>3. QED
      BY <2>1, <2>2 DEF RecordOffset, NextOffset
  <1>6. OneDocument' /\ PositionInv' /\ CurrentInv'
    BY <1>3 DEF NInv, RecordOffset, OneDocument, PositionInv, CurrentInv
  <1>7. QED
    BY <1>2, <1>5, <1>6 DEF NInv

LEMMA ReconnectKeeps ==
  ASSUME NInv, Reconnect
  PROVE  NInv'
  <1>1. TypeOK'
    BY DEF NInv, Reconnect, TypeOK, Steps
  <1>2. OneDocument' /\ OffsetCovered' /\ PositionInv' /\ CurrentInv'
    BY DEF NInv, Reconnect, OneDocument, OffsetCovered, Settled, PositionInv, CurrentInv
  <1>3. QED
    BY <1>1, <1>2 DEF NInv

LEMMA RebalanceKeeps ==
  ASSUME NInv, Rebalance
  PROVE  NInv'
  <1>1. TypeOK'
    BY DEF NInv, Rebalance, TypeOK
  <1>2. \A o \in Offsets : Settled(o)' <=> Settled(o)
    BY DEF Rebalance, Settled
  <1>3. OneDocument' /\ OffsetCovered' /\ PositionInv' /\ CurrentInv'
    BY <1>2 DEF NInv, Rebalance, OneDocument, OffsetCovered, PositionInv, CurrentInv
  <1>4. QED
    BY <1>1, <1>3 DEF NInv

LEMMA CrashKeeps ==
  ASSUME NInv, Crash
  PROVE  NInv'
  <1>1. TypeOK'
    BY DEF NInv, Crash, TypeOK, Steps
  <1>2. OneDocument' /\ OffsetCovered' /\ PositionInv' /\ CurrentInv'
    BY DEF NInv, Crash, OneDocument, OffsetCovered, Settled, PositionInv, CurrentInv
  <1>3. QED
    BY <1>1, <1>2 DEF NInv

-----------------------------------------------------------------------------
(* The theorems *)

LEMMA NextNInv == NInv /\ [Next]_vars => NInv'
  <1> SUFFICES ASSUME NInv, [Next]_vars PROVE NInv'
    OBVIOUS
  <1>1. CASE ConsumerStep
    BY <1>1, OpenKeeps, FetchKeeps, SavedKeeps, InsertFailsKeeps, RecordOffsetKeeps
       DEF ConsumerStep
  <1>2. CASE Reconnect \/ Rebalance \/ Crash
    BY <1>2, ReconnectKeeps, RebalanceKeeps, CrashKeeps
  <1>3. CASE \E m \in Messages : Produce(m)
    BY <1>3, ProduceKeeps
  <1>4. CASE UNCHANGED vars
    BY <1>4 DEF vars, NInv, TypeOK, OneDocument, OffsetCovered, Settled, PositionInv,
                CurrentInv
  <1>5. QED
    BY <1>1, <1>2, <1>3, <1>4 DEF Next, ConsumerNext, AtEnd

\* NInv holds in every reachable state.
THEOREM NotificationInvariance == Spec => []NInv
  BY InitNInv, NextNInv, PTL DEF Spec

\* Every variable keeps its type; in particular an event is tried at most
\* retryAttempts times and the recorded offset stays inside the partition.
THEOREM NotificationTypeCorrect == Spec => []TypeOK
  <1>1. NInv => TypeOK
    BY DEF NInv
  <1>2. QED
    BY <1>1, NotificationInvariance, PTL

\* Processing is idempotent: no transaction ever has two documents.
THEOREM NeverTwoDocuments == Spec => []OneDocument
  <1>1. NInv => OneDocument
    BY DEF NInv
  <1>2. QED
    BY <1>1, NotificationInvariance, PTL

\* What no later start reads again is saved or was given up on after
\* retryAttempts failed inserts; nothing else is ever lost.
THEOREM OffsetAlwaysCovered == Spec => []OffsetCovered
  <1>1. NInv => OffsetCovered
    BY DEF NInv
  <1>2. QED
    BY <1>1, NotificationInvariance, PTL
=============================================================================
