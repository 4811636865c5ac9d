---------------------- MODULE PageViewAggregatorProofs ----------------------
(***************************************************************************)
(* Proofs about PageViewAggregator, for every partition, batch size,       *)
(* number of attempts and number of restarts and rebalances.               *)
(***************************************************************************)
EXTENDS PageViewAggregator, SequenceTheorems, WellFoundedInduction, TLAPS

USE SizesAssumption, SwitchesAssumption, LogsAssumption

-----------------------------------------------------------------------------
(* The offsets in a sequence *)

\* What Elems returns for an empty sequence, for the sequence buffer.Add
\* builds and for the one PutBack builds.
LEMMA ElemsEmpty == Elems(<<>>) = {}
  BY DEF Elems

LEMMA ElemsType ==
  ASSUME NEW S, NEW s \in Seq(S)
  PROVE  Elems(s) \subseteq S
  BY ElementOfSeq DEF Elems

LEMMA ElemsNonEmpty ==
  ASSUME NEW S, NEW s \in Seq(S), s # <<>>
  PROVE  Elems(s) # {}
  <1>1. Len(s) \in Nat /\ Len(s) # 0
    BY EmptySeq, LenProperties
  <1>2. s[1] \in Elems(s)
    BY <1>1 DEF Elems
  <1>3. QED
    BY <1>2

LEMMA ElemsAppend ==
  ASSUME NEW S, NEW s \in Seq(S), NEW e \in S
  PROVE  Elems(Append(s, e)) = Elems(s) \cup {e}
  <1>1. Len(s) \in Nat
    BY LenProperties
  <1>2. \A i \in 1..Len(s) : Append(s, e)[i] = s[i]
    BY AppendProperties
  <1>3. Append(s, e)[Len(s) + 1] = e /\ Len(Append(s, e)) = Len(s) + 1
    BY AppendProperties
  <1>4. Elems(Append(s, e)) \subseteq Elems(s) \cup {e}
    BY <1>1, <1>2, <1>3 DEF Elems
  <1>5. Elems(s) \cup {e} \subseteq Elems(Append(s, e))
    BY <1>1, <1>2, <1>3 DEF Elems
  <1>6. QED
    BY <1>4, <1>5

LEMMA ElemsConcat ==
  ASSUME NEW S, NEW s \in Seq(S), NEW t \in Seq(S)
  PROVE  Elems(s \o t) = Elems(s) \cup Elems(t)
  <1>1. Len(s) \in Nat /\ Len(t) \in Nat
    BY LenProperties
  <1>2. /\ Len(s \o t) = Len(s) + Len(t)
        /\ \A i \in 1..(Len(s) + Len(t)) :
             (s \o t)[i] = IF i <= Len(s) THEN s[i] ELSE t[i - Len(s)]
    BY ConcatProperties
  <1>3. Elems(s \o t) \subseteq Elems(s) \cup Elems(t)
    <2> SUFFICES ASSUME NEW i \in 1..(Len(s) + Len(t))
                 PROVE  (s \o t)[i] \in Elems(s) \cup Elems(t)
      BY <1>2 DEF Elems
    <2>1. CASE i <= Len(s)
      BY <2>1, <1>1, <1>2 DEF Elems
    <2>2. CASE ~(i <= Len(s))
      <3>1. i - Len(s) \in 1..Len(t)
        BY <2>2, <1>1
      <3>2. QED
        BY <3>1, <2>2, <1>2 DEF Elems
    <2>3. QED
      BY <2>1, <2>2
  <1>4. Elems(s) \subseteq Elems(s \o t)
    <2> SUFFICES ASSUME NEW i \in 1..Len(s)
                 PROVE  s[i] \in Elems(s \o t)
      BY DEF Elems
    <2>1. i \in 1..(Len(s) + Len(t)) /\ i <= Len(s)
      BY <1>1
    <2>2. QED
      BY <2>1, <1>2 DEF Elems
  <1>5. Elems(t) \subseteq Elems(s \o t)
    <2> SUFFICES ASSUME NEW i \in 1..Len(t)
                 PROVE  t[i] \in Elems(s \o t)
      BY DEF Elems
    <2>1. /\ i + Len(s) \in 1..(Len(s) + Len(t))
          /\ ~(i + Len(s) <= Len(s))
          /\ (i + Len(s)) - Len(s) = i
      BY <1>1
    <2>2. (s \o t)[i + Len(s)] = t[i]
      BY <2>1, <1>2
    <2>3. QED
      BY <2>1, <2>2, <1>2 DEF Elems
  <1>6. QED
    BY <1>3, <1>4, <1>5

\* The offset CommitMessages sets for a batch is one of the batch.
LEMMA LastOfIsElem ==
  ASSUME NEW s \in Seq(Offsets), s # <<>>
  PROVE  LastOf(s) \in Elems(s)
  <1> DEFINE R == OpToRel(<, Nat)
             T == {N - o : o \in Elems(s)}
  <1>1. Elems(s) \subseteq Offsets /\ Elems(s) # {}
    BY ElemsType, ElemsNonEmpty
  <1>2. T \subseteq Nat /\ T # {}
    BY <1>1 DEF Offsets
  <1>3. IsWellFoundedOn(R, Nat)
    BY NatLessThanWellFounded
  <1> HIDE DEF T, R
  <1>4. PICK m \in T : \A n \in T : ~(<<n, m>> \in R)
    BY <1>2, <1>3, WFMin
  <1>5. ASSUME NEW n \in T
        PROVE  m <= n
    <2>1. m \in Nat /\ n \in Nat
      BY <1>2
    <2>2. n < m => <<n, m>> \in R
      BY <2>1 DEF R, OpToRel
    <2>3. QED
      BY <2>1, <2>2, <1>4
  <1>6. PICK o \in Elems(s) : m = N - o
    BY DEF T
  <1>7. ASSUME NEW p \in Elems(s)
        PROVE  p <= o
    <2>1. N - p \in T
      BY DEF T
    <2>2. QED
      BY <2>1, <1>5, <1>6, <1>1 DEF Offsets
  <1>8. QED
    BY <1>7 DEF LastOf

-----------------------------------------------------------------------------
(* The inductive invariant *)

\* Nothing is committed, fetched, held or started beyond high.
ReaderInv ==
    /\ committed <= high /\ fetched <= high
    /\ start <= high /\ cur <= high

\* Only valid messages that were fetched get into the buffer.
BufferInv == \A o \in Elems(buffer) : o <= high /\ log[o] = "good"

\* The same for the batches; a flush that is about to commit has inserted its
\* batch, and a flush that does not run has none.
BatchInv ==
    \A f \in Flushers :
        /\ \A o \in Elems(batch[f]) : o <= high /\ log[o] = "good"
        /\ fpc[f] = "idle" <=> batch[f] = <<>>
        /\ fpc[f] = "commit" => Elems(batch[f]) \subseteq raw

\* A flush by Run keeps Run waiting, and Close flushes once.
OwnerInv ==
    /\ runpc = "flushing" <=> fpc["run"] # "idle"
    /\ mode # "closing" => fpc["close"] = "idle"

\* What Run knows about the message in its hands.
RunInv ==
    /\ runpc \in {"fetch", "flush", "flushing"} => cur = 0
    /\ runpc = "add" => cur \in Offsets /\ log[cur] = "good"
    /\ runpc \in {"dlq", "error", "commit"} => cur \in Offsets /\ log[cur] = "bad"
    /\ runpc \in {"error", "commit"} => (enabled => cur \in dlq)
    /\ runpc = "commit" => cur \in errors

AInv ==
    /\ TypeOK
    /\ ReaderInv
    /\ BufferInv
    /\ BatchInv
    /\ OwnerInv
    /\ RunInv
    /\ NothingDropped
    /\ StoredWhereMeant

USE DEF world, reader, run, flushs, stores

\* Stores only grow, so that what is stored stays stored.
LEMMA StoredKept ==
  ASSUME log' = log, enabled' = enabled, raw \subseteq raw', dlq \subseteq dlq', errors \subseteq errors',
         NEW o \in Offsets, Stored(o)
  PROVE  Stored(o)'
  BY DEF Stored

\* The messages in the buffer and in the batches are messages of the partition.
LEMMA HeldAreOffsets ==
  ASSUME TypeOK
  PROVE  /\ Elems(buffer) \subseteq Offsets
         /\ \A f \in Flushers : Elems(batch[f]) \subseteq Offsets
         /\ <<>> \in Seq(Offsets)
  <1>1. buffer \in Seq(Offsets) /\ \A f \in Flushers : batch[f] \in Seq(Offsets)
    BY DEF TypeOK
  <1>2. QED
    BY <1>1, ElemsType, EmptySeq

LEMMA InitAInv == Init => AInv
  <1> SUFFICES ASSUME Init PROVE AInv
    OBVIOUS
  <1>1. TypeOK
    <2>1. /\ buffer \in Seq(Offsets) /\ batch \in [Flushers -> Seq(Offsets)]
          /\ fpc \in [Flushers -> FlushSteps]
      BY EmptySeq DEF Init, FlushSteps
    <2>2. log \in [Offsets -> Kinds]
      BY DEF Init
    <2>3. attempt \in [Flushers -> 0..MaxAttempts-1]
      BY DEF Init
    <2>4. flushChan \in BOOLEAN
      BY DEF Init
    <2>5. QED
      BY <2>1, <2>2, <2>3, <2>4 DEF Init, TypeOK, RunSteps
  <1>2. ReaderInv /\ OwnerInv /\ RunInv
    BY DEF Init, ReaderInv, OwnerInv, RunInv, Flushers
  <1>3. BufferInv /\ BatchInv
    BY ElemsEmpty DEF Init, BufferInv, BatchInv, Flushers
  <1>4. NothingDropped /\ StoredWhereMeant
    BY DEF Init, NothingDropped, StoredWhereMeant, Offsets
  <1>5. QED
    BY <1>1, <1>2, <1>3, <1>4 DEF AInv

-----------------------------------------------------------------------------
(* The steps of Run *)

LEMMA FetchKeeps ==
  ASSUME AInv, Fetch
  PROVE  AInv'
  <1>1. TypeOK'
    BY DEF AInv, Fetch, TypeOK, RunSteps, Offsets
  <1>2. ReaderInv'
    BY DEF AInv, Fetch, Kinds, TypeOK, ReaderInv, RunInv, Offsets
  <1>3. BufferInv'
    BY HeldAreOffsets DEF AInv, Fetch, TypeOK, BufferInv, Offsets
  <1>4. BatchInv'
    <2>1. \A f \in Flushers : \A o \in Elems(batch[f]) : o \in Offsets /\ o <= high'
      BY HeldAreOffsets DEF AInv, Fetch, TypeOK, BatchInv, Offsets
    <2>2. QED
      BY <2>1 DEF AInv, Fetch, BatchInv
  <1>5. OwnerInv'
    BY DEF AInv, Fetch, Kinds, TypeOK, OwnerInv, Flushers
  <1>6. RunInv'
    BY DEF AInv, Fetch, Kinds, TypeOK, RunInv, OwnerInv, Offsets
  <1>7. NothingDropped'
    BY DEF AInv, Fetch, Kinds, TypeOK, NothingDropped, ReaderInv, RunInv, Offsets, Stored, Held
  <1>8. StoredWhereMeant'
    BY DEF AInv, Fetch, Kinds, TypeOK, StoredWhereMeant, RunInv, Offsets
  <1>9. QED
    BY <1>1, <1>2, <1>3, <1>4, <1>5, <1>6, <1>7, <1>8 DEF AInv

LEMMA AddKeeps ==
  ASSUME AInv, Add
  PROVE  AInv'
  <1>a. /\ buffer' \in Seq(Offsets)
        /\ Elems(buffer') = Elems(buffer) \cup {cur}
        /\ cur \in Offsets
    <2>1. cur \in Offsets /\ buffer \in Seq(Offsets)
      BY DEF AInv, Add, RunInv, TypeOK
    <2>2. QED
      BY <2>1, AppendProperties, ElemsAppend DEF Add
  <1>1. TypeOK'
    <2>1. flushChan' \in BOOLEAN
      BY DEF AInv, Add, TypeOK
    <2>2. QED
      BY <2>1, <1>a DEF AInv, Add, TypeOK, RunSteps
  <1>2. ReaderInv'
    BY DEF AInv, Add, ShouldFlush, TypeOK, ReaderInv, RunInv, Offsets
  <1>3. BufferInv'
    BY <1>a DEF AInv, Add, BufferInv, ReaderInv, RunInv
  <1>4. BatchInv'
    BY DEF AInv, Add, ShouldFlush, BatchInv
  <1>5. OwnerInv'
    BY DEF AInv, Add, ShouldFlush, TypeOK, OwnerInv, Flushers
  <1>6. RunInv'
    BY DEF AInv, Add, ShouldFlush, TypeOK, RunInv, OwnerInv, Offsets
  <1>7. NothingDropped'
    BY <1>a DEF AInv, Add, NothingDropped, Stored, Held
  <1>8. StoredWhereMeant'
    BY DEF AInv, Add, ShouldFlush, TypeOK, StoredWhereMeant, RunInv, Offsets
  <1>9. QED
    BY <1>1, <1>2, <1>3, <1>4, <1>5, <1>6, <1>7, <1>8 DEF AInv

LEMMA SendDLQKeeps ==
  ASSUME AInv, SendDLQ
  PROVE  AInv'
  <1>1. TypeOK'
    <2>1. cur \in Offsets
      BY DEF AInv, SendDLQ, RunInv
    <2>2. QED
      BY <2>1 DEF AInv, SendDLQ, TypeOK, RunSteps
  <1>2. ReaderInv'
    BY DEF AInv, SendDLQ, TypeOK, ReaderInv, RunInv, Offsets
  <1>3. BufferInv'
    BY DEF AInv, SendDLQ, BufferInv
  <1>4. BatchInv'
    BY DEF AInv, SendDLQ, BatchInv
  <1>5. OwnerInv'
    BY DEF AInv, SendDLQ, TypeOK, OwnerInv, Flushers
  <1>6. RunInv'
    BY DEF AInv, SendDLQ, TypeOK, RunInv, OwnerInv, Offsets
  <1>7. NothingDropped'
    BY DEF AInv, SendDLQ, TypeOK, NothingDropped, ReaderInv, RunInv, Offsets, Stored, Held
  <1>8. StoredWhereMeant'
    BY DEF AInv, SendDLQ, TypeOK, StoredWhereMeant, RunInv, Offsets
  <1>9. QED
    BY <1>1, <1>2, <1>3, <1>4, <1>5, <1>6, <1>7, <1>8 DEF AInv

LEMMA InsertErrorKeeps ==
  ASSUME AInv, InsertError
  PROVE  AInv'
  <1>1. TypeOK'
    <2>1. cur \in Offsets
      BY DEF AInv, InsertError, RunInv
    <2>2. QED
      BY <2>1 DEF AInv, InsertError, TypeOK, RunSteps
  <1>2. ReaderInv'
    BY DEF AInv, InsertError, TypeOK, ReaderInv, RunInv, Offsets
  <1>3. BufferInv'
    BY DEF AInv, InsertError, BufferInv
  <1>4. BatchInv'
    BY DEF AInv, InsertError, BatchInv
  <1>5. OwnerInv'
    BY DEF AInv, InsertError, TypeOK, OwnerInv, Flushers
  <1>6. RunInv'
    BY DEF AInv, InsertError, TypeOK, RunInv, OwnerInv, Offsets
  <1>7. NothingDropped'
    BY DEF AInv, InsertError, TypeOK, NothingDropped, ReaderInv, RunInv, Offsets, Stored, Held
  <1>8. StoredWhereMeant'
    BY DEF AInv, InsertError, TypeOK, StoredWhereMeant, RunInv, Offsets
  <1>9. QED
    BY <1>1, <1>2, <1>3, <1>4, <1>5, <1>6, <1>7, <1>8 DEF AInv

LEMMA CommitBadKeeps ==
  ASSUME AInv, CommitBad
  PROVE  AInv'
  <1>1. TypeOK'
    BY DEF AInv, CommitBad, TypeOK, RunSteps
  <1>2. ReaderInv'
    BY DEF AInv, CommitBad, TypeOK, ReaderInv, RunInv, Offsets
  <1>3. BufferInv'
    BY DEF AInv, CommitBad, BufferInv
  <1>4. BatchInv'
    BY DEF AInv, CommitBad, BatchInv
  <1>5. OwnerInv'
    BY DEF AInv, CommitBad, TypeOK, OwnerInv, Flushers
  <1>6. RunInv'
    BY DEF AInv, CommitBad, TypeOK, RunInv, OwnerInv, Offsets
  <1>7. NothingDropped'
    BY DEF AInv, CommitBad, TypeOK, NothingDropped, ReaderInv, RunInv, Offsets, Stored, Held
  <1>8. StoredWhereMeant'
    BY DEF AInv, CommitBad, TypeOK, StoredWhereMeant, RunInv, Offsets
  <1>9. QED
    BY <1>1, <1>2, <1>3, <1>4, <1>5, <1>6, <1>7, <1>8 DEF AInv

LEMMA RunStopsKeeps ==
  ASSUME AInv, RunStops
  PROVE  AInv'
  <1>1. TypeOK'
    BY DEF AInv, RunStops, TypeOK, RunSteps
  <1>2. ReaderInv'
    BY DEF AInv, RunStops, TypeOK, ReaderInv, RunInv, Offsets
  <1>3. BufferInv'
    BY DEF AInv, RunStops, BufferInv
  <1>4. BatchInv'
    BY DEF AInv, RunStops, BatchInv
  <1>5. OwnerInv'
    BY DEF AInv, RunStops, TypeOK, OwnerInv, Flushers
  <1>6. RunInv'
    BY DEF AInv, RunStops, TypeOK, RunInv, OwnerInv, Offsets
  <1>7. NothingDropped'
    BY DEF AInv, RunStops, TypeOK, NothingDropped, ReaderInv, RunInv, Offsets, Stored, Held
  <1>8. StoredWhereMeant'
    BY DEF AInv, RunStops, TypeOK, StoredWhereMeant, RunInv, Offsets
  <1>9. QED
    BY <1>1, <1>2, <1>3, <1>4, <1>5, <1>6, <1>7, <1>8 DEF AInv

-----------------------------------------------------------------------------
(* The steps of flush *)

\* GetAndClear moves the messages of the buffer to the batch of an idle flush:
\* what was held before is held after.
LEMMA Taken ==
  ASSUME AInv, NEW f \in Flushers, fpc[f] = "idle", GetAndClear(f),
         log' = log, enabled' = enabled, high' = high, raw' = raw
  PROVE  /\ buffer' \in Seq(Offsets)
         /\ fpc' = [fpc EXCEPT ![f] = "insert"]
         /\ fpc' \in [Flushers -> FlushSteps]
         /\ batch' \in [Flushers -> Seq(Offsets)]
         /\ attempt' = attempt
         /\ BufferInv'
         /\ BatchInv'
         /\ \A o \in Elems(buffer) : o \in Elems(batch'[f])
         /\ \A g \in Flushers : \A o \in Elems(batch[g]) : o \in Elems(batch'[g])
  <1>1. /\ buffer' = <<>> /\ <<>> \in Seq(Offsets) /\ Elems(<<>>) = {}
        /\ buffer # <<>> /\ buffer \in Seq(Offsets)
    BY HeldAreOffsets, ElemsEmpty DEF AInv, GetAndClear, TypeOK
  <1>2. fpc' \in [Flushers -> FlushSteps] /\ batch' \in [Flushers -> Seq(Offsets)]
    BY <1>1 DEF AInv, GetAndClear, TypeOK, FlushSteps
  <1>3. /\ batch'[f] = buffer /\ fpc'[f] = "insert"
        /\ \A g \in Flushers \ {f} : batch'[g] = batch[g] /\ fpc'[g] = fpc[g]
    BY DEF AInv, GetAndClear, TypeOK
  <1>4. batch[f] = <<>>
    BY DEF AInv, BatchInv
  <1>5. BufferInv'
    BY <1>1 DEF BufferInv
  <1>6. BatchInv'
    BY <1>1, <1>3 DEF AInv, BufferInv, BatchInv
  <1>7. \A g \in Flushers : \A o \in Elems(batch[g]) : o \in Elems(batch'[g])
    BY <1>1, <1>3, <1>4
  <1>8. QED
    BY <1>1, <1>2, <1>3, <1>5, <1>6, <1>7 DEF GetAndClear

LEMMA RunFlushKeeps ==
  ASSUME AInv, RunFlush
  PROVE  AInv'
  <1>a. fpc["run"] = "idle" /\ "run" \in Flushers
    BY DEF AInv, RunFlush, Flushers, OwnerInv
  <1>b. log' = log /\ enabled' = enabled /\ high' = high /\ raw' = raw
    BY DEF RunFlush
  <1>1. TypeOK'
    <2>1. CASE GetAndClear("run")
      BY <2>1, <1>a, <1>b, Taken DEF AInv, RunFlush, TypeOK, RunSteps
    <2>2. CASE UNCHANGED <<buffer, flushs>>
      BY <2>2 DEF AInv, RunFlush, TypeOK, RunSteps
    <2>3. QED
      BY <2>1, <2>2 DEF RunFlush
  <1>2. ReaderInv'
    BY DEF AInv, RunFlush, GetAndClear, TypeOK, ReaderInv, RunInv, Offsets
  <1>3. BufferInv'
    <2>1. CASE GetAndClear("run")
      BY <2>1, <1>a, <1>b, Taken DEF AInv, RunFlush, BufferInv
    <2>2. CASE UNCHANGED <<buffer, flushs>>
      BY <2>2 DEF AInv, RunFlush, BufferInv
    <2>3. QED
      BY <2>1, <2>2 DEF RunFlush
  <1>4. BatchInv'
    <2>1. CASE GetAndClear("run")
      BY <2>1, <1>a, <1>b, Taken DEF AInv, RunFlush, BatchInv
    <2>2. CASE UNCHANGED <<buffer, flushs>>
      BY <2>2 DEF AInv, RunFlush, BatchInv
    <2>3. QED
      BY <2>1, <2>2 DEF RunFlush
  <1>5. OwnerInv'
    BY DEF AInv, RunFlush, GetAndClear, TypeOK, OwnerInv, Flushers
  <1>6. RunInv'
    BY DEF AInv, RunFlush, GetAndClear, TypeOK, RunInv, OwnerInv, Offsets
  <1>7. NothingDropped'
    <2>1. CASE GetAndClear("run")
      <3> SUFFICES ASSUME NEW o \in Offsets, start < o, o <= high
                   PROVE  Stored(o)' \/ Held(o)'
        BY <1>b DEF RunFlush, NothingDropped
      <3>1. Stored(o) => Stored(o)'
        BY StoredKept DEF RunFlush
      <3>2. Held(o) => Held(o)'
        BY <2>1, <1>a, <1>b, Taken DEF RunFlush, Held
      <3>3. QED
        BY <3>1, <3>2 DEF AInv, NothingDropped
    <2>2. CASE UNCHANGED <<buffer, flushs>>
      BY <2>2 DEF AInv, RunFlush, NothingDropped, Stored, Held
    <2>3. QED
      BY <2>1, <2>2 DEF RunFlush
  <1>8. StoredWhereMeant'
    BY DEF AInv, RunFlush, GetAndClear, TypeOK, StoredWhereMeant, RunInv, Offsets
  <1>9. QED
    BY <1>1, <1>2, <1>3, <1>4, <1>5, <1>6, <1>7, <1>8 DEF AInv

LEMMA LoopFlushKeeps ==
  ASSUME AInv, LoopFlush
  PROVE  AInv'
  <1>a. fpc["loop"] = "idle" /\ "loop" \in Flushers
    BY DEF AInv, LoopFlush, Flushers
  <1>b. log' = log /\ enabled' = enabled /\ high' = high /\ raw' = raw
    BY DEF LoopFlush
  <1>1. TypeOK'
    <2>1. CASE GetAndClear("loop")
      BY <2>1, <1>a, <1>b, Taken DEF AInv, LoopFlush, TypeOK, RunSteps
    <2>2. CASE UNCHANGED <<buffer, flushs>>
      BY <2>2 DEF AInv, LoopFlush, TypeOK, RunSteps
    <2>3. QED
      BY <2>1, <2>2 DEF LoopFlush
  <1>2. ReaderInv'
    BY DEF AInv, LoopFlush, GetAndClear, TypeOK, ReaderInv, RunInv, Offsets
  <1>3. BufferInv'
    <2>1. CASE GetAndClear("loop")
      BY <2>1, <1>a, <1>b, Taken DEF AInv, LoopFlush, BufferInv
    <2>2. CASE UNCHANGED <<buffer, flushs>>
      BY <2>2 DEF AInv, LoopFlush, BufferInv
    <2>3. QED
      BY <2>1, <2>2 DEF LoopFlush
  <1>4. BatchInv'
    <2>1. CASE GetAndClear("loop")
      BY <2>1, <1>a, <1>b, Taken DEF AInv, LoopFlush, BatchInv
    <2>2. CASE UNCHANGED <<buffer, flushs>>
      BY <2>2 DEF AInv, LoopFlush, BatchInv
    <2>3. QED
      BY <2>1, <2>2 DEF LoopFlush
  <1>5. OwnerInv'
    BY DEF AInv, LoopFlush, GetAndClear, TypeOK, OwnerInv, Flushers
  <1>6. RunInv'
    BY DEF AInv, LoopFlush, GetAndClear, TypeOK, RunInv, OwnerInv, Offsets
  <1>7. NothingDropped'
    <2>1. CASE GetAndClear("loop")
      <3> SUFFICES ASSUME NEW o \in Offsets, start < o, o <= high
                   PROVE  Stored(o)' \/ Held(o)'
        BY <1>b DEF LoopFlush, NothingDropped
      <3>1. Stored(o) => Stored(o)'
        BY StoredKept DEF LoopFlush
      <3>2. Held(o) => Held(o)'
        BY <2>1, <1>a, <1>b, Taken DEF LoopFlush, Held
      <3>3. QED
        BY <3>1, <3>2 DEF AInv, NothingDropped
    <2>2. CASE UNCHANGED <<buffer, flushs>>
      BY <2>2 DEF AInv, LoopFlush, NothingDropped, Stored, Held
    <2>3. QED
      BY <2>1, <2>2 DEF LoopFlush
  <1>8. StoredWhereMeant'
    BY DEF AInv, LoopFlush, GetAndClear, TypeOK, StoredWhereMeant, RunInv, Offsets
  <1>9. QED
    BY <1>1, <1>2, <1>3, <1>4, <1>5, <1>6, <1>7, <1>8 DEF AInv

LEMMA InsertOKKeeps ==
  ASSUME AInv, NEW f \in Flushers, InsertOK(f)
  PROVE  AInv'
  <1>1. TypeOK'
    BY HeldAreOffsets DEF AInv, InsertOK, TypeOK, FlushSteps
  <1>2. ReaderInv'
    BY DEF AInv, InsertOK, TypeOK, ReaderInv, RunInv, Offsets
  <1>3. BufferInv'
    BY DEF AInv, InsertOK, BufferInv
  <1>4. BatchInv'
    BY DEF AInv, InsertOK, TypeOK, BatchInv
  <1>5. OwnerInv'
    BY DEF AInv, InsertOK, TypeOK, OwnerInv, Flushers
  <1>6. RunInv'
    BY DEF AInv, InsertOK, TypeOK, RunInv, OwnerInv, Offsets
  <1>7. NothingDropped'
    BY DEF AInv, InsertOK, TypeOK, NothingDropped, ReaderInv, RunInv, Offsets, Stored, Held
  <1>8. StoredWhereMeant'
    BY DEF AInv, InsertOK, StoredWhereMeant, BatchInv
  <1>9. QED
    BY <1>1, <1>2, <1>3, <1>4, <1>5, <1>6, <1>7, <1>8 DEF AInv

\* When flush returns, only its own control and batch change.
LEMMA Returned ==
  ASSUME AInv, NEW f \in Flushers, Return(f), log' = log, enabled' = enabled, high' = high, raw \subseteq raw'
  PROVE  /\ fpc' \in [Flushers -> FlushSteps]
         /\ batch' \in [Flushers -> Seq(Offsets)]
         /\ attempt' \in [Flushers -> 0..MaxAttempts-1]
         /\ runpc' \in RunSteps
         /\ \A g \in Flushers \ {f} : batch'[g] = batch[g] /\ fpc'[g] = fpc[g]
         /\ BatchInv'
  <1>1. <<>> \in Seq(Offsets) /\ Elems(<<>>) = {}
    BY HeldAreOffsets, ElemsEmpty DEF AInv
  <1>2. /\ fpc' \in [Flushers -> FlushSteps]
        /\ batch' \in [Flushers -> Seq(Offsets)]
        /\ runpc' \in RunSteps
    BY <1>1 DEF AInv, Return, TypeOK, FlushSteps, RunSteps
  <1>3. attempt' \in [Flushers -> 0..MaxAttempts-1]
    BY DEF AInv, Return, TypeOK
  <1>4. /\ batch'[f] = <<>> /\ fpc'[f] = "idle"
        /\ \A g \in Flushers \ {f} : batch'[g] = batch[g] /\ fpc'[g] = fpc[g]
    BY DEF AInv, Return, TypeOK
  <1>5. BatchInv'
    BY <1>1, <1>4 DEF AInv, BatchInv
  <1>6. QED
    BY <1>2, <1>3, <1>4, <1>5

LEMMA InsertFailsKeeps ==
  ASSUME AInv, NEW f \in Flushers, InsertFails(f)
  PROVE  AInv'
  <1> DEFINE Again  == /\ ~LastAttempt(f)
                       /\ attempt' = [attempt EXCEPT ![f] = @ + 1]
                       /\ UNCHANGED <<runpc, buffer, fpc, batch>>
             GiveUp == PutBack(f) /\ Return(f)
  <1>a. log' = log /\ enabled' = enabled /\ high' = high /\ raw \subseteq raw' /\ raw' \subseteq Offsets
    BY HeldAreOffsets DEF AInv, InsertFails, TypeOK
  <1>b. ASSUME GiveUp
        PROVE  /\ buffer' \in Seq(Offsets)
               /\ Elems(buffer') = Elems(batch[f]) \cup Elems(buffer)
    <2>1. batch[f] \in Seq(Offsets) /\ buffer \in Seq(Offsets)
      BY DEF AInv, TypeOK
    <2>2. QED
      BY <2>1, <1>b, ConcatProperties, ElemsConcat DEF PutBack
  <1>c. Again \/ GiveUp
    BY DEF InsertFails
  <1>1. TypeOK'
    <2>1. CASE Again
      <3>1. attempt' \in [Flushers -> 0..MaxAttempts-1]
        BY <2>1 DEF AInv, TypeOK, LastAttempt
      <3>2. QED
        BY <2>1, <3>1, <1>a DEF AInv, InsertFails, TypeOK
    <2>2. CASE GiveUp
      BY <2>2, <1>a, <1>b, Returned DEF AInv, InsertFails, TypeOK
    <2>3. QED
      BY <2>1, <2>2, <1>c
  <1>2. ReaderInv'
    BY DEF AInv, InsertFails, PutBack, Return, LastAttempt, TypeOK, ReaderInv, RunInv, Offsets
  <1>3. BufferInv'
    <2>1. CASE Again
      BY <2>1, <1>a DEF AInv, BufferInv
    <2>2. CASE GiveUp
      BY <2>2, <1>a, <1>b DEF AInv, BufferInv, BatchInv
    <2>3. QED
      BY <2>1, <2>2, <1>c
  <1>4. BatchInv'
    <2>1. CASE Again
      BY <2>1, <1>a DEF AInv, BatchInv
    <2>2. CASE GiveUp
      BY <2>2, <1>a, Returned
    <2>3. QED
      BY <2>1, <2>2, <1>c
  <1>5. OwnerInv'
    BY DEF AInv, InsertFails, PutBack, Return, LastAttempt, TypeOK, OwnerInv, Flushers
  <1>6. RunInv'
    BY DEF AInv, InsertFails, PutBack, Return, LastAttempt, TypeOK, RunInv, OwnerInv, Offsets
  <1>7. NothingDropped'
    <2>1. CASE Again
      BY <2>1, <1>a DEF AInv, InsertFails, NothingDropped, Stored, Held
    <2>2. CASE GiveUp
      <3> SUFFICES ASSUME NEW o \in Offsets, start < o, o <= high
                   PROVE  Stored(o)' \/ Held(o)'
        BY <1>a DEF InsertFails, NothingDropped
      <3>1. Stored(o) \/ Held(o)
        BY DEF AInv, NothingDropped
      <3>2. CASE Stored(o)
        BY <3>2, <1>a, StoredKept DEF InsertFails
      <3>3. CASE Held(o)
        <4>1. \A g \in Flushers \ {f} : batch'[g] = batch[g]
          BY <2>2, <1>a, Returned
        <4>2. QED
          BY <4>1, <3>3, <2>2, <1>b DEF InsertFails, Held
      <3>4. QED
        BY <3>1, <3>2, <3>3
    <2>3. QED
      BY <2>1, <2>2, <1>c
  <1>8. StoredWhereMeant'
    BY DEF AInv, InsertFails, StoredWhereMeant, BatchInv
  <1>9. QED
    BY <1>1, <1>2, <1>3, <1>4, <1>5, <1>6, <1>7, <1>8 DEF AInv

LEMMA CommitFlushKeeps ==
  ASSUME AInv, NEW f \in Flushers, CommitFlush(f)
  PROVE  AInv'
  <1>a. log' = log /\ enabled' = enabled /\ high' = high /\ raw \subseteq raw' /\ Return(f)
    BY DEF CommitFlush
  <1>b. LastOf(batch[f]) \in Offsets /\ LastOf(batch[f]) <= high
    <2>1. batch[f] \in Seq(Offsets) /\ batch[f] # <<>>
      BY DEF AInv, TypeOK, BatchInv, CommitFlush
    <2>2. LastOf(batch[f]) \in Elems(batch[f])
      BY <2>1, LastOfIsElem
    <2>3. QED
      BY <2>2, HeldAreOffsets DEF AInv, BatchInv
  <1>1. TypeOK'
    <2>1. committed' \in 0..N
      BY <1>b DEF AInv, CommitFlush, TypeOK, Offsets
    <2>2. QED
      BY <2>1, <1>a, Returned DEF AInv, CommitFlush, TypeOK
  <1>2. ReaderInv'
    BY <1>a, <1>b DEF AInv, CommitFlush, ReaderInv
  <1>3. BufferInv'
    BY DEF AInv, CommitFlush, Return, BufferInv
  <1>4. BatchInv'
    BY <1>a, Returned
  <1>5. OwnerInv'
    BY DEF AInv, CommitFlush, Return, TypeOK, OwnerInv, Flushers
  <1>6. RunInv'
    BY DEF AInv, CommitFlush, Return, TypeOK, RunInv, OwnerInv, Offsets
  <1>7. NothingDropped'
    <2> SUFFICES ASSUME NEW o \in Offsets, start < o, o <= high
                 PROVE  Stored(o)' \/ Held(o)'
      BY DEF CommitFlush, NothingDropped
    <2>1. CASE Stored(o)
      BY <2>1, StoredKept DEF CommitFlush
    <2>2. CASE o \in Elems(batch[f])
      BY <2>2 DEF AInv, BatchInv, CommitFlush, Stored
    <2>3. CASE Held(o) /\ o \notin Elems(batch[f])
      <3>1. \A g \in Flushers \ {f} : batch'[g] = batch[g]
        BY <1>a, Returned
      <3>2. QED
        BY <3>1, <2>3 DEF CommitFlush, Held
    <2>4. QED
      BY <2>1, <2>2, <2>3 DEF AInv, NothingDropped
  <1>8. StoredWhereMeant'
    BY DEF AInv, CommitFlush, Return, TypeOK, StoredWhereMeant, RunInv, Offsets
  <1>9. QED
    BY <1>1, <1>2, <1>3, <1>4, <1>5, <1>6, <1>7, <1>8 DEF AInv

-----------------------------------------------------------------------------
(* Shutdown, crash, rebalance *)

LEMMA StopKeeps ==
  ASSUME AInv, Stop
  PROVE  AInv'
  <1>1. TypeOK'
    BY DEF AInv, Stop, TypeOK, RunSteps
  <1>2. ReaderInv'
    BY DEF AInv, Stop, TypeOK, ReaderInv, RunInv, Offsets
  <1>3. BufferInv'
    BY DEF AInv, Stop, BufferInv
  <1>4. BatchInv'
    BY DEF AInv, Stop, BatchInv
  <1>5. OwnerInv'
    BY DEF AInv, Stop, TypeOK, OwnerInv, Flushers
  <1>6. RunInv'
    BY DEF AInv, Stop, TypeOK, RunInv, OwnerInv, Offsets
  <1>7. NothingDropped'
    BY DEF AInv, Stop, TypeOK, NothingDropped, ReaderInv, RunInv, Offsets, Stored, Held
  <1>8. StoredWhereMeant'
    BY DEF AInv, Stop, TypeOK, StoredWhereMeant, RunInv, Offsets
  <1>9. QED
    BY <1>1, <1>2, <1>3, <1>4, <1>5, <1>6, <1>7, <1>8 DEF AInv

LEMMA CloseKeeps ==
  ASSUME AInv, Close
  PROVE  AInv'
  <1>a. fpc["close"] = "idle" /\ "close" \in Flushers
    BY DEF AInv, Close, Flushers, OwnerInv
  <1>b. log' = log /\ enabled' = enabled /\ high' = high /\ raw' = raw
    BY DEF Close
  <1>1. TypeOK'
    <2>1. CASE GetAndClear("close")
      BY <2>1, <1>a, <1>b, Taken DEF AInv, Close, TypeOK, RunSteps
    <2>2. CASE UNCHANGED <<buffer, flushs>>
      BY <2>2 DEF AInv, Close, TypeOK, RunSteps
    <2>3. QED
      BY <2>1, <2>2 DEF Close
  <1>2. ReaderInv'
    BY DEF AInv, Close, GetAndClear, TypeOK, ReaderInv, RunInv, Offsets
  <1>3. BufferInv'
    <2>1. CASE GetAndClear("close")
      BY <2>1, <1>a, <1>b, Taken DEF AInv, Close, BufferInv
    <2>2. CASE UNCHANGED <<buffer, flushs>>
      BY <2>2 DEF AInv, Close, BufferInv
    <2>3. QED
      BY <2>1, <2>2 DEF Close
  <1>4. BatchInv'
    <2>1. CASE GetAndClear("close")
      BY <2>1, <1>a, <1>b, Taken DEF AInv, Close, BatchInv
    <2>2. CASE UNCHANGED <<buffer, flushs>>
      BY <2>2 DEF AInv, Close, BatchInv
    <2>3. QED
      BY <2>1, <2>2 DEF Close
  <1>5. OwnerInv'
    BY DEF AInv, Close, GetAndClear, TypeOK, OwnerInv, Flushers
  <1>6. RunInv'
    BY DEF AInv, Close, GetAndClear, TypeOK, RunInv, OwnerInv, Offsets
  <1>7. NothingDropped'
    <2>1. CASE GetAndClear("close")
      <3> SUFFICES ASSUME NEW o \in Offsets, start < o, o <= high
                   PROVE  Stored(o)' \/ Held(o)'
        BY <1>b DEF Close, NothingDropped
      <3>1. Stored(o) => Stored(o)'
        BY StoredKept DEF Close
      <3>2. Held(o) => Held(o)'
        BY <2>1, <1>a, <1>b, Taken DEF Close, Held
      <3>3. QED
        BY <3>1, <3>2 DEF AInv, NothingDropped
    <2>2. CASE UNCHANGED <<buffer, flushs>>
      BY <2>2 DEF AInv, Close, NothingDropped, Stored, Held
    <2>3. QED
      BY <2>1, <2>2 DEF Close
  <1>8. StoredWhereMeant'
    BY DEF AInv, Close, GetAndClear, TypeOK, StoredWhereMeant, RunInv, Offsets
  <1>9. QED
    BY <1>1, <1>2, <1>3, <1>4, <1>5, <1>6, <1>7, <1>8 DEF AInv

LEMMA RestartKeeps ==
  ASSUME AInv, Restart
  PROVE  AInv'
  <1>1. TypeOK'
    <2>1. /\ <<>> \in Seq(Offsets)
          /\ fpc' \in [Flushers -> FlushSteps]
      BY EmptySeq DEF Restart, FlushSteps
    <2>2. attempt' \in [Flushers -> 0..MaxAttempts-1]
      BY DEF Restart
    <2>3. flushChan' \in BOOLEAN
      BY DEF Restart
    <2>4. QED
      BY <2>1, <2>2, <2>3 DEF AInv, Restart, TypeOK, RunSteps
  <1>2. ReaderInv'
    BY DEF AInv, Restart, TypeOK, ReaderInv, RunInv, Offsets
  <1>3. BufferInv'
    BY ElemsEmpty DEF Restart, BufferInv
  <1>4. BatchInv'
    BY ElemsEmpty DEF Restart, BatchInv
  <1>5. OwnerInv'
    BY DEF AInv, Restart, TypeOK, OwnerInv, Flushers
  <1>6. RunInv'
    BY DEF AInv, Restart, TypeOK, RunInv, OwnerInv, Offsets
  <1>7. NothingDropped'
    BY DEF AInv, Restart, TypeOK, NothingDropped, ReaderInv, RunInv, Offsets, Stored, Held
  <1>8. StoredWhereMeant'
    BY DEF AInv, Restart, TypeOK, StoredWhereMeant, RunInv, Offsets
  <1>9. QED
    BY <1>1, <1>2, <1>3, <1>4, <1>5, <1>6, <1>7, <1>8 DEF AInv

LEMMA RebalanceKeeps ==
  ASSUME AInv, Rebalance
  PROVE  AInv'
  <1>1. TypeOK'
    BY DEF AInv, Rebalance, TypeOK, RunSteps
  <1>2. ReaderInv'
    BY DEF AInv, Rebalance, TypeOK, ReaderInv, RunInv, Offsets
  <1>3. BufferInv'
    BY DEF AInv, Rebalance, BufferInv
  <1>4. BatchInv'
    BY DEF AInv, Rebalance, BatchInv
  <1>5. OwnerInv'
    BY DEF AInv, Rebalance, TypeOK, OwnerInv, Flushers
  <1>6. RunInv'
    BY DEF AInv, Rebalance, TypeOK, RunInv, OwnerInv, Offsets
  <1>7. NothingDropped'
    BY DEF AInv, Rebalance, TypeOK, NothingDropped, ReaderInv, RunInv, Offsets, Stored, Held
  <1>8. StoredWhereMeant'
    BY DEF AInv, Rebalance, TypeOK, StoredWhereMeant, RunInv, Offsets
  <1>9. QED
    BY <1>1, <1>2, <1>3, <1>4, <1>5, <1>6, <1>7, <1>8 DEF AInv

-----------------------------------------------------------------------------
(* The theorems *)

LEMMA NextAInv == AInv /\ [Next]_vars => AInv'
  <1> SUFFICES ASSUME AInv, [Next]_vars PROVE AInv'
    OBVIOUS
  <1>1. CASE RunStep
    BY <1>1, FetchKeeps, AddKeeps, SendDLQKeeps, InsertErrorKeeps, CommitBadKeeps,
       RunFlushKeeps, RunStopsKeeps DEF RunStep
  <1>2. CASE LoopFlush
    BY <1>2, LoopFlushKeeps
  <1>3. CASE \E f \in Flushers : FlushStep(f)
    BY <1>3, InsertOKKeeps, InsertFailsKeeps, CommitFlushKeeps DEF FlushStep
  <1>4. CASE Stop \/ Close \/ Restart \/ Rebalance
    BY <1>4, StopKeeps, CloseKeeps, RestartKeeps, RebalanceKeeps
  <1>5. CASE UNCHANGED vars
    BY <1>5 DEF vars, AInv, TypeOK, ReaderInv, BufferInv, BatchInv, OwnerInv, RunInv,
                NothingDropped, StoredWhereMeant, Stored, Held
  <1>6. QED
    BY <1>1, <1>2, <1>3, <1>4, <1>5 DEF Next, Idle

\* AInv holds in every reachable state.
THEOREM AggregatorInvariance == Spec => []AInv
  BY InitAInv, NextAInv, PTL DEF Spec

\* Every variable keeps its type; in particular insertWithRetry stops after
\* maxAttempts, and no commit names an offset outside the partition.
THEOREM AggregatorTypeCorrect == Spec => []TypeOK
  <1>1. AInv => TypeOK
    BY DEF AInv
  <1>2. QED
    BY <1>1, AggregatorInvariance, PTL

\* The aggregator never drops a message it has fetched: while its process
\* lives, the message is stored or held, through failed and repeated inserts,
\* PutBack, concurrent flushes, rebalances and the shutdown.
THEOREM NothingEverDropped == Spec => []NothingDropped
  <1>1. AInv => NothingDropped
    BY DEF AInv
  <1>2. QED
    BY <1>1, AggregatorInvariance, PTL

\* The committed offset never passes what was fetched, and covers since the
\* last start only messages that are stored or held.
THEOREM CommitsAlwaysCovered == Spec => []CommitCovered
  <1>1. AInv => CommitCovered
    BY DEF AInv, TypeOK, ReaderInv, NothingDropped, CommitCovered, Offsets
  <1>2. QED
    BY <1>1, AggregatorInvariance, PTL

\* Valid messages reach page_views_raw only, invalid ones the DLQ and
\* processing_errors only, in this order.
THEOREM AlwaysStoredWhereMeant == Spec => []StoredWhereMeant
  <1>1. AInv => StoredWhereMeant
    BY DEF AInv
  <1>2. QED
    BY <1>1, AggregatorInvariance, PTL

-----------------------------------------------------------------------------
(* Custody *)

\* A sequence holds no message twice.
Distinct(s) == \A i, j \in 1..Len(s) : s[i] = s[j] => i = j

LEMMA DistinctEmpty == Distinct(<<>>)
  BY DEF Distinct

\* buffer.Add with a message that is new to the buffer.
LEMMA DistinctAppend ==
  ASSUME NEW S, NEW s \in Seq(S), NEW e \in S, Distinct(s), e \notin Elems(s)
  PROVE  Distinct(Append(s, e))
  <1>1. /\ Len(s) \in Nat /\ Len(Append(s, e)) = Len(s) + 1
        /\ Append(s, e)[Len(s) + 1] = e
        /\ \A i \in 1..Len(s) : Append(s, e)[i] = s[i] /\ s[i] # e
    BY LenProperties, AppendProperties DEF Elems
  <1>2. \A i \in 1..(Len(s) + 1) : i \in 1..Len(s) \/ i = Len(s) + 1
    BY <1>1
  <1>3. QED
    BY <1>1, <1>2 DEF Distinct

\* PutBack of a batch that shares nothing with the buffer.
LEMMA DistinctConcat ==
  ASSUME NEW S, NEW s \in Seq(S), NEW t \in Seq(S), Distinct(s), Distinct(t),
         Elems(s) \cap Elems(t) = {}
  PROVE  Distinct(s \o t)
  <1>1. Len(s) \in Nat /\ Len(t) \in Nat
    BY LenProperties
  <1>2. /\ Len(s \o t) = Len(s) + Len(t)
        /\ \A i \in 1..(Len(s) + Len(t)) :
             (s \o t)[i] = IF i <= Len(s) THEN s[i] ELSE t[i - Len(s)]
    BY ConcatProperties
  <1> SUFFICES ASSUME NEW i \in 1..(Len(s) + Len(t)), NEW j \in 1..(Len(s) + Len(t)),
                      (s \o t)[i] = (s \o t)[j]
               PROVE  i = j
    BY <1>2 DEF Distinct
  <1>3. ASSUME NEW k \in 1..(Len(s) + Len(t))
        PROVE  \/ k \in 1..Len(s) /\ (s \o t)[k] = s[k] /\ s[k] \in Elems(s)
               \/ /\ ~(k <= Len(s)) /\ k - Len(s) \in 1..Len(t)
                  /\ (s \o t)[k] = t[k - Len(s)] /\ t[k - Len(s)] \in Elems(t)
    <2>1. CASE k <= Len(s)
      <3>1. k \in 1..Len(s)
        BY <1>1, <2>1
      <3>2. QED
        BY <1>2, <2>1, <3>1 DEF Elems
    <2>2. CASE ~(k <= Len(s))
      <3>1. k - Len(s) \in 1..Len(t)
        BY <1>1, <2>2
      <3>2. QED
        BY <1>2, <2>2, <3>1 DEF Elems
    <2>3. QED
      BY <2>1, <2>2
  <1>4. CASE i \in 1..Len(s) /\ j \in 1..Len(s)
    <2>1. s[i] = s[j]
      BY <1>1, <1>2, <1>4
    <2>2. QED
      BY <1>4, <2>1 DEF Distinct
  <1>5. CASE ~(i <= Len(s)) /\ ~(j <= Len(s))
    <2>1. /\ i - Len(s) \in 1..Len(t) /\ j - Len(s) \in 1..Len(t)
          /\ t[i - Len(s)] = t[j - Len(s)]
      BY <1>1, <1>2, <1>5
    <2>2. i - Len(s) = j - Len(s)
      BY <2>1 DEF Distinct
    <2>3. QED
      BY <1>1, <2>2
  <1>6. CASE \/ i \in 1..Len(s) /\ ~(j <= Len(s))
             \/ ~(i <= Len(s)) /\ j \in 1..Len(s)
    BY <1>1, <1>3, <1>6
  <1>7. QED
    BY <1>1, <1>4, <1>5, <1>6

\* What SingleCustody says of a buffer, the batches and the message of Run; the
\* batches hold no message twice either, or PutBack would give it to the buffer.
Separate(b, B, c) ==
    /\ Distinct(b)
    /\ c \notin Elems(b)
    /\ \A f \in Flushers :
         /\ Distinct(B[f])
         /\ c \notin Elems(B[f])
         /\ Elems(b) \cap Elems(B[f]) = {}
         /\ \A g \in Flushers \ {f} : Elems(B[f]) \cap Elems(B[g]) = {}

\* Without a rebalance the reader stands at the highest offset fetched, and what
\* it returns next is above everything that is held (AInv).
CustodyInv ==
    rebalances = 0 => fetched = high /\ Separate(buffer, batch, cur)

LEMMA InitCustody == Init => CustodyInv
  <1> SUFFICES ASSUME Init PROVE CustodyInv
    OBVIOUS
  <1>1. /\ fetched = high /\ buffer = <<>> /\ cur = 0
        /\ \A f \in Flushers : batch[f] = <<>>
    BY DEF Init
  <1>2. QED
    BY <1>1, ElemsEmpty, DistinctEmpty DEF CustodyInv, Separate

\* Steps that move no message.
LEMMA CustodySame ==
  ASSUME CustodyInv, rebalances' = rebalances, fetched' = fetched, high' = high,
         buffer' = buffer, batch' = batch, cur' = cur
  PROVE  CustodyInv'
  BY DEF CustodyInv

\* The partition has no offset zero.
LEMMA NoneIsNotHeld ==
  ASSUME TypeOK
  PROVE  0 \notin Elems(buffer) /\ \A f \in Flushers : 0 \notin Elems(batch[f])
  BY HeldAreOffsets DEF Offsets

LEMMA FetchCustody ==
  ASSUME AInv, CustodyInv, Fetch
  PROVE  CustodyInv'
  <1> SUFFICES ASSUME rebalances = 0
               PROVE  fetched' = high' /\ Separate(buffer, batch, cur')
    BY DEF Fetch, CustodyInv
  <1>1. fetched = high /\ Separate(buffer, batch, cur) /\ high \in 0..N
    BY DEF CustodyInv, AInv, TypeOK
  <1>2. cur' = high + 1 /\ fetched' = high + 1 /\ high' = high + 1
    BY <1>1 DEF Fetch
  <1>3. /\ \A o \in Elems(buffer) : o \in Offsets /\ o <= high
        /\ \A f \in Flushers : \A o \in Elems(batch[f]) : o \in Offsets /\ o <= high
    BY HeldAreOffsets DEF AInv, BufferInv, BatchInv
  <1>4. cur' \notin Elems(buffer) /\ \A f \in Flushers : cur' \notin Elems(batch[f])
    BY <1>1, <1>2, <1>3 DEF Offsets
  <1>5. QED
    BY <1>1, <1>2, <1>4 DEF Separate

LEMMA AddCustody ==
  ASSUME AInv, CustodyInv, Add
  PROVE  CustodyInv'
  <1> SUFFICES ASSUME rebalances = 0
               PROVE  fetched' = high' /\ Separate(buffer', batch, cur')
    BY DEF Add, CustodyInv
  <1>1. fetched = high /\ Separate(buffer, batch, cur)
    BY DEF CustodyInv
  <1>2. /\ buffer \in Seq(Offsets) /\ cur \in Offsets
        /\ buffer' = Append(buffer, cur) /\ cur' = 0
        /\ fetched' = fetched /\ high' = high
    BY DEF AInv, Add, TypeOK, RunInv
  <1>3. Distinct(buffer') /\ Elems(buffer') = Elems(buffer) \cup {cur}
    BY <1>1, <1>2, DistinctAppend, ElemsAppend DEF Separate
  <1>4. 0 \notin Elems(buffer') /\ \A f \in Flushers : 0 \notin Elems(batch[f])
    BY <1>2, <1>3, NoneIsNotHeld DEF AInv, Offsets
  <1>5. QED
    BY <1>1, <1>2, <1>3, <1>4 DEF Separate

LEMMA CommitBadCustody ==
  ASSUME AInv, CustodyInv, CommitBad
  PROVE  CustodyInv'
  BY NoneIsNotHeld DEF AInv, CommitBad, CustodyInv, Separate

\* GetAndClear gives the whole buffer to a flush that had nothing.
LEMMA TakenCustody ==
  ASSUME AInv, CustodyInv, NEW f \in Flushers, fpc[f] = "idle", GetAndClear(f),
         rebalances' = rebalances, fetched' = fetched, high' = high, cur' = cur
  PROVE  CustodyInv'
  <1> SUFFICES ASSUME rebalances = 0, fetched = high, Separate(buffer, batch, cur)
               PROVE  Separate(buffer', batch', cur)
    BY DEF CustodyInv
  <1>1. /\ buffer' = <<>> /\ batch[f] = <<>> /\ batch'[f] = buffer
        /\ \A g \in Flushers \ {f} : batch'[g] = batch[g]
    BY DEF AInv, BatchInv, TypeOK, GetAndClear
  <1>2. Elems(buffer') = {} /\ Distinct(buffer')
    BY <1>1, ElemsEmpty, DistinctEmpty
  <1>3. ASSUME NEW g \in Flushers
        PROVE  Distinct(batch'[g]) /\ cur \notin Elems(batch'[g])
    BY <1>1 DEF Separate
  <1>4. ASSUME NEW g \in Flushers, NEW h \in Flushers \ {g}
        PROVE  Elems(batch'[g]) \cap Elems(batch'[h]) = {}
    <2>1. CASE g = f
      BY <1>1, <2>1 DEF Separate
    <2>2. CASE h = f
      BY <1>1, <2>2 DEF Separate
    <2>3. CASE g # f /\ h # f
      BY <1>1, <2>3 DEF Separate
    <2>4. QED
      BY <2>1, <2>2, <2>3
  <1>5. QED
    BY <1>2, <1>3, <1>4 DEF Separate

\* A flush that is over has given its messages away: back to the buffer, or to
\* the table.
LEMMA GivenCustody ==
  ASSUME NEW b, NEW B, NEW C, NEW d, NEW c, NEW f \in Flushers, Separate(b, B, c),
         C[f] = <<>>, \A g \in Flushers \ {f} : C[g] = B[g],
         Distinct(d), Elems(d) \subseteq Elems(B[f]) \cup Elems(b)
  PROVE  Separate(d, C, c)
  <1>1. ASSUME NEW g \in Flushers
        PROVE  /\ Distinct(C[g]) /\ c \notin Elems(C[g])
               /\ Elems(d) \cap Elems(C[g]) = {}
    <2>1. CASE g = f
      BY <2>1, ElemsEmpty, DistinctEmpty
    <2>2. CASE g # f
      BY <2>2 DEF Separate
    <2>3. QED
      BY <2>1, <2>2
  <1>2. ASSUME NEW g \in Flushers, NEW h \in Flushers \ {g}
        PROVE  Elems(C[g]) \cap Elems(C[h]) = {}
    <2>1. CASE g = f \/ h = f
      BY <2>1, ElemsEmpty
    <2>2. CASE g # f /\ h # f
      BY <2>2 DEF Separate
    <2>3. QED
      BY <2>1, <2>2
  <1>3. c \notin Elems(d)
    BY DEF Separate
  <1>4. QED
    BY <1>1, <1>2, <1>3 DEF Separate

LEMMA InsertFailsCustody ==
  ASSUME AInv, CustodyInv, NEW f \in Flushers, InsertFails(f)
  PROVE  CustodyInv'
  <1>1. rebalances' = rebalances /\ fetched' = fetched /\ high' = high /\ cur' = cur
    BY DEF InsertFails
  <1>2. CASE UNCHANGED <<runpc, buffer, fpc, batch>>
    BY <1>1, <1>2, CustodySame
  <1>3. CASE PutBack(f) /\ Return(f)
    <2> SUFFICES ASSUME rebalances = 0, fetched = high, Separate(buffer, batch, cur)
                 PROVE  Separate(buffer', batch', cur)
      BY <1>1 DEF CustodyInv
    <2>1. /\ buffer \in Seq(Offsets) /\ batch[f] \in Seq(Offsets)
          /\ buffer' = batch[f] \o buffer
          /\ batch'[f] = <<>> /\ \A g \in Flushers \ {f} : batch'[g] = batch[g]
      BY <1>3 DEF AInv, TypeOK, PutBack, Return
    <2>2. Distinct(buffer') /\ Elems(buffer') = Elems(batch[f]) \cup Elems(buffer)
      BY <2>1, DistinctConcat, ElemsConcat DEF Separate
    <2>3. QED
      BY <2>1, <2>2, GivenCustody
  <1>4. QED
    BY <1>2, <1>3 DEF InsertFails

LEMMA CommitFlushCustody ==
  ASSUME AInv, CustodyInv, NEW f \in Flushers, CommitFlush(f)
  PROVE  CustodyInv'
  <1> SUFFICES ASSUME rebalances = 0, fetched = high, Separate(buffer, batch, cur)
               PROVE  Separate(buffer, batch', cur)
    BY DEF CommitFlush, CustodyInv
  <1>1. batch'[f] = <<>> /\ \A g \in Flushers \ {f} : batch'[g] = batch[g]
    BY DEF AInv, TypeOK, CommitFlush, Return
  <1>2. Distinct(buffer)
    BY DEF Separate
  <1>3. QED
    BY <1>1, <1>2, GivenCustody

LEMMA RestartCustody ==
  ASSUME Restart
  PROVE  CustodyInv'
  <1>1. /\ fetched' = high' /\ buffer' = <<>> /\ cur' = 0
        /\ \A f \in Flushers : batch'[f] = <<>>
    BY DEF Restart
  <1>2. QED
    BY <1>1, ElemsEmpty, DistinctEmpty DEF CustodyInv, Separate

LEMMA NextCustody == AInv /\ CustodyInv /\ [Next]_vars => CustodyInv'
  <1> SUFFICES ASSUME AInv, CustodyInv, [Next]_vars PROVE CustodyInv'
    OBVIOUS
  <1>1. CASE SendDLQ \/ InsertError \/ RunStops \/ Stop
    BY <1>1, CustodySame DEF SendDLQ, InsertError, RunStops, Stop
  <1>2. CASE \E f \in Flushers : InsertOK(f)
    BY <1>2, CustodySame DEF InsertOK
  <1>3. CASE RunFlush
    <2>1. "run" \in Flushers /\ fpc["run"] = "idle"
      BY <1>3 DEF AInv, OwnerInv, RunFlush, Flushers
    <2>2. QED
      BY <1>3, <2>1, TakenCustody, CustodySame DEF RunFlush
  <1>4. CASE LoopFlush
    <2>1. "loop" \in Flushers /\ fpc["loop"] = "idle"
      BY <1>4 DEF LoopFlush, Flushers
    <2>2. QED
      BY <1>4, <2>1, TakenCustody, CustodySame DEF LoopFlush
  <1>5. CASE Close
    <2>1. "close" \in Flushers /\ fpc["close"] = "idle"
      BY <1>5 DEF AInv, OwnerInv, Close, Flushers
    <2>2. QED
      BY <1>5, <2>1, TakenCustody, CustodySame DEF Close
  <1>6. CASE Rebalance
    <2>1. rebalances' # 0
      BY <1>6 DEF AInv, TypeOK, Rebalance
    <2>2. QED
      BY <2>1 DEF CustodyInv
  <1>7. CASE UNCHANGED vars
    BY <1>7, CustodySame DEF vars
  <1>8. QED
    BY <1>1, <1>2, <1>3, <1>4, <1>5, <1>6, <1>7, FetchCustody, AddCustody, CommitBadCustody,
       InsertFailsCustody, CommitFlushCustody, RestartCustody
       DEF Next, RunStep, FlushStep, Idle

\* SingleCustody: without a rebalance no two flushes, and no flush and the buffer,
\* ever hold the same message, so that a row is not inserted twice.
THEOREM AlwaysSingleCustody == Spec => []SingleCustody
  <1>1. CustodyInv => SingleCustody
    BY DEF CustodyInv, SingleCustody, Separate, Distinct
  <1>2. QED
    BY <1>1, AggregatorInvariance, InitCustody, NextCustody, PTL DEF Spec
=============================================================================
