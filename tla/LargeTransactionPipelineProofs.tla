-------------------- MODULE LargeTransactionPipelineProofs --------------------
(***************************************************************************)
(* Proofs about LargeTransactionPipeline, for any number of operations,    *)
(* attempts, messages and crashes.  The consumer's invariants hold of the   *)
(* pipeline too, since all its other steps do is append messages; what the *)
(* publishers add is that an acknowledged event is among these messages.   *)
(***************************************************************************)
EXTENDS LargeTransactionPipeline, NotificationConsumerProofs, WellFoundedInduction

USE OpsAssumption

-----------------------------------------------------------------------------
(* Composition *)

LEMMA PublisherOnlyAppends ==
  ASSUME PublisherMoves
  PROVE  UNCHANGED vars \/ \E m \in Messages : Produce(m)
  <1>1. PICK t \in Ops : Pub!Step(t)
    BY DEF PublisherMoves
  <1>2. t \in Messages
    BY DEF Messages
  <1>3. CASE log' = log
    BY <1>3 DEF PublisherMoves, consumer, vars
  <1>4. CASE Pub!Land(t) \/ Pub!LateWrite(t) \/ Pub!Rewrite(t)
    <2>1. Len(log) < N /\ log' = Append(log, t)
      BY <1>4 DEF Pub!Land, Pub!LateWrite, Pub!Rewrite, Pub!AppendCopy
    <2>2. Produce(t)
      BY <2>1 DEF Produce, PublisherMoves, consumer
    <2>3. QED
      BY <1>2, <2>2
  <1>5. QED
    BY <1>1, <1>3, <1>4
       DEF Pub!Step, Pub!Publish, Pub!PublishStep, Pub!WriterStep, Pub!ClientGoes,
           Pub!WriteSucceeds, Pub!WriteFails, Pub!BackoffOver, Pub!Abort, Pub!LateDrop

\* Seen from the consumer, the pipeline is a partition to which messages are
\* appended: its steps are steps of NotificationConsumer or leave it alone.
LEMMA PipelineIsConsumer == PipelineSpec => Spec
  <1>1. PipelineInit => Init
    BY DEF PipelineInit
  <1>2. [PipelineNext]_pipeline => [Next]_vars
    <2> SUFFICES ASSUME [PipelineNext]_pipeline PROVE [Next]_vars
      OBVIOUS
    <2>1. CASE PublisherMoves
      BY <2>1, PublisherOnlyAppends DEF Next
    <2>2. CASE WalletDies
      BY <2>2 DEF WalletDies, Pub!Die, consumer, vars
    <2>3. CASE ConsumerMoves
      BY <2>3 DEF ConsumerMoves, Next
    <2>4. CASE OthersProduce
      BY <2>4 DEF OthersProduce, Next
    <2>5. CASE AllQuiet
      BY <2>5 DEF AllQuiet, Next
    <2>6. CASE UNCHANGED pipeline
      BY <2>6 DEF pipeline, consumer, vars
    <2>7. QED
      BY <2>1, <2>2, <2>3, <2>4, <2>5, <2>6 DEF PipelineNext
  <1>3. QED
    BY <1>1, <1>2, PTL DEF PipelineSpec, Spec

\* However often Publish and its writer send an event, its transaction has at
\* most one document.
THEOREM PipelineOneDocument == PipelineSpec => []OneDocument
  BY PipelineIsConsumer, NeverTwoDocuments, PTL

\* What the recorded offset covers is saved or was given up, also while events
\* are being published.
THEOREM PipelineOffsetCovered == PipelineSpec => []OffsetCovered
  BY PipelineIsConsumer, OffsetAlwaysCovered, PTL

-----------------------------------------------------------------------------
(* Attempts and the copies they leave *)

\* The copy of the current attempt is still on its way.
OnTheWay(t) == IF phase[t] = "write" /\ ~landed[t] THEN 1 ELSE 0

\* What each phase says about the number of attempts, and that an attempt leaves
\* at most one copy behind.
AttemptInv ==
    \A t \in Ops :
        /\ phase[t] = "idle" => tries[t] = 0
        /\ phase[t] = "backoff" => tries[t] < retries
        /\ late[t] + OnTheWay(t) <= tries[t]

PInv ==
    /\ log \in Seq(Messages)
    /\ PublisherTypeOK
    /\ AttemptInv

USE PublisherAssumption

LEMMA InitPInv == PipelineInit => PInv
  BY DEF PipelineInit, Pub!Init, PInv, PublisherTypeOK, Pub!PublisherTypeOK, Pub!Phases,
         AttemptInv, OnTheWay

\* What a step of one Publish, or of the writer for it, has to show: the other
\* operations keep their state.
LEMMA OneMoves ==
  ASSUME PInv, NEW t \in Ops,
         \A u \in Ops \ {t} :
             /\ phase'[u] = phase[u] /\ tries'[u] = tries[u]
             /\ landed'[u] = landed[u] /\ late'[u] = late[u],
         PublisherTypeOK',
         log' = log \/ log' = Append(log, t),
         phase'[t] = "idle" => tries'[t] = 0,
         phase'[t] = "backoff" => tries'[t] < retries,
         late'[t] + OnTheWay(t)' <= tries'[t]
  PROVE  PInv'
  <1>1. t \in Messages
    BY DEF Messages
  <1>2. log' \in Seq(Messages)
    BY <1>1 DEF PInv
  <1>3. \A u \in Ops \ {t} : OnTheWay(u)' = OnTheWay(u)
    BY DEF OnTheWay
  <1>4. AttemptInv'
    BY <1>3 DEF PInv, AttemptInv
  <1>5. QED
    BY <1>2, <1>4 DEF PInv

\* The counters of an operation are numbers.
LEMMA Numbers ==
  ASSUME PInv, NEW t \in Ops
  PROVE  /\ tries[t] \in 0..retries /\ late[t] \in 0..retries
         /\ OnTheWay(t) \in 0..1
         /\ late[t] + OnTheWay(t) <= tries[t]
  BY DEF PInv, PublisherTypeOK, Pub!PublisherTypeOK, OnTheWay, AttemptInv

LEMMA AttemptKeeps ==
  ASSUME PInv, NEW t \in Ops, Pub!Publish(t) \/ Pub!BackoffOver(t)
  PROVE  PInv'
  <1>1. /\ log' = log /\ late' = late
        /\ phase' = [phase EXCEPT ![t] = "write"]
        /\ tries' = [tries EXCEPT ![t] = @ + 1]
        /\ landed' = [landed EXCEPT ![t] = FALSE]
    BY DEF Pub!Publish, Pub!BackoffOver, Pub!Attempt, Pub!Move
  <1>2. tries[t] < retries /\ phase[t] \in {"idle", "backoff"}
    BY DEF PInv, AttemptInv, Pub!Publish, Pub!BackoffOver
  <1>3. PublisherTypeOK'
    BY <1>1, <1>2
       DEF PInv, PublisherTypeOK, Pub!PublisherTypeOK, Pub!Phases, Pub!Publish, Pub!BackoffOver
  <1>4. /\ OnTheWay(t) = 0 /\ OnTheWay(t)' = 1
        /\ tries'[t] = tries[t] + 1 /\ phase'[t] = "write" /\ late'[t] = late[t]
    BY <1>1, <1>2 DEF OnTheWay, PInv, PublisherTypeOK, Pub!PublisherTypeOK
  <1>5. \A u \in Ops \ {t} :
          /\ phase'[u] = phase[u] /\ tries'[u] = tries[u]
          /\ landed'[u] = landed[u] /\ late'[u] = late[u]
    BY <1>1 DEF PInv, PublisherTypeOK, Pub!PublisherTypeOK
  <1>6. late'[t] + OnTheWay(t)' <= tries'[t]
    BY <1>4, Numbers
  <1>7. QED
    BY <1>1, <1>3, <1>4, <1>5, <1>6, OneMoves

\* The copy of the attempt, or of an earlier one, reaches the topic, or the writer
\* writes it again.
LEMMA WriteKeeps ==
  ASSUME PInv, NEW t \in Ops, Pub!Land(t) \/ Pub!LateWrite(t) \/ Pub!Rewrite(t)
  PROVE  PInv'
  <1>1. log' = Append(log, t) /\ phase' = phase /\ tries' = tries
    BY DEF Pub!Land, Pub!LateWrite, Pub!Rewrite, Pub!AppendCopy
  <1>2. PublisherTypeOK'
    <2>1. CASE Pub!Land(t) \/ Pub!Rewrite(t)
      BY <2>1 DEF PInv, PublisherTypeOK, Pub!PublisherTypeOK, Pub!Land, Pub!Rewrite
    <2>2. CASE Pub!LateWrite(t)
      <3>1. late[t] - 1 \in 0..retries
        BY <2>2, Numbers DEF Pub!LateWrite
      <3>2. QED
        BY <2>2, <3>1 DEF PInv, PublisherTypeOK, Pub!PublisherTypeOK, Pub!LateWrite
    <2>3. QED
      BY <2>1, <2>2
  <1>3. \A u \in Ops \ {t} :
          /\ phase'[u] = phase[u] /\ tries'[u] = tries[u]
          /\ landed'[u] = landed[u] /\ late'[u] = late[u]
    BY DEF PInv, PublisherTypeOK, Pub!PublisherTypeOK, Pub!Land, Pub!LateWrite, Pub!Rewrite
  <1>4. late'[t] + OnTheWay(t)' <= tries'[t]
    <2>1. CASE Pub!Land(t)
      <3>1. late'[t] = late[t] /\ OnTheWay(t)' = 0
        BY <2>1 DEF PInv, PublisherTypeOK, Pub!PublisherTypeOK, Pub!Land, OnTheWay
      <3>2. QED
        BY <1>1, <3>1, Numbers
    <2>2. CASE Pub!LateWrite(t)
      <3>1. late'[t] = late[t] - 1 /\ OnTheWay(t)' = OnTheWay(t)
        BY <2>2 DEF PInv, PublisherTypeOK, Pub!PublisherTypeOK, Pub!LateWrite, OnTheWay
      <3>2. QED
        BY <1>1, <3>1, Numbers
    <2>3. CASE Pub!Rewrite(t)
      <3>1. late' = late /\ OnTheWay(t)' = OnTheWay(t)
        BY <2>3 DEF Pub!Rewrite, OnTheWay
      <3>2. QED
        BY <1>1, <3>1, Numbers
    <2>4. QED
      BY <2>1, <2>2, <2>3
  <1>5. QED
    BY <1>1, <1>2, <1>3, <1>4, OneMoves DEF PInv, AttemptInv

\* An attempt, or the back-off, ends; the writer keeps or drops a copy.
LEMMA EndKeeps ==
  ASSUME PInv, NEW t \in Ops,
         Pub!WriteSucceeds(t) \/ Pub!WriteFails(t) \/ Pub!Abort(t) \/ Pub!LateDrop(t)
  PROVE  PInv'
  <1>1. log' = log /\ tries' = tries /\ landed' = landed
    BY DEF Pub!WriteSucceeds, Pub!WriteFails, Pub!Abort, Pub!LateDrop
  <1>2. late'[t] + OnTheWay(t)' <= late[t] + OnTheWay(t) /\ late'[t] \in Nat
    BY <1>1, Numbers
       DEF PInv, PublisherTypeOK, Pub!PublisherTypeOK, OnTheWay, Pub!WriteSucceeds,
           Pub!WriteFails, Pub!Abort, Pub!LateDrop, Pub!Move
  <1>3. OnTheWay(t)' \in Nat
    BY DEF OnTheWay
  <1>4. late'[t] \in 0..retries
    BY <1>2, <1>3, Numbers
  <1>5. PublisherTypeOK'
    BY <1>1, <1>4
       DEF PInv, PublisherTypeOK, Pub!PublisherTypeOK, Pub!Phases, Pub!WriteSucceeds,
           Pub!WriteFails, Pub!Abort, Pub!LateDrop, Pub!Move
  <1>6. \A u \in Ops \ {t} :
          /\ phase'[u] = phase[u] /\ tries'[u] = tries[u]
          /\ landed'[u] = landed[u] /\ late'[u] = late[u]
    BY <1>1 DEF PInv, PublisherTypeOK, Pub!PublisherTypeOK, Pub!WriteSucceeds,
                Pub!WriteFails, Pub!Abort, Pub!LateDrop, Pub!Move
  <1>7. (phase'[t] = "idle" => tries'[t] = 0) /\ (phase'[t] = "backoff" => tries'[t] < retries)
    BY <1>1, Numbers
       DEF PInv, PublisherTypeOK, Pub!PublisherTypeOK, AttemptInv, Pub!WriteSucceeds,
           Pub!WriteFails, Pub!LastAttempt, Pub!Abort, Pub!LateDrop, Pub!Move
  <1>8. late'[t] + OnTheWay(t)' <= tries'[t]
    BY <1>1, <1>2, <1>3, Numbers
  <1>9. QED
    BY <1>1, <1>5, <1>6, <1>7, <1>8, OneMoves

\* Steps that change no copy.
LEMMA OtherKeeps ==
  ASSUME PInv, log' = log \/ \E m \in Messages : log' = Append(log, m),
         phase' = phase, tries' = tries, landed' = landed, late' = late,
         acked' = acked, gone' \subseteq Ops, deaths' = deaths
  PROVE  PInv'
  <1>1. log' \in Seq(Messages)
    BY DEF PInv
  <1>2. PublisherTypeOK' /\ AttemptInv'
    BY DEF PInv, PublisherTypeOK, Pub!PublisherTypeOK, AttemptInv, OnTheWay
  <1>3. QED
    BY <1>1, <1>2 DEF PInv

LEMMA DieKeeps ==
  ASSUME PInv, WalletDies
  PROVE  PInv'
  <1>1. /\ log' = log /\ tries' = tries
        /\ \A t \in Ops : /\ late'[t] = 0
                          /\ phase'[t] \in {phase[t], "dead"}
                          /\ OnTheWay(t)' = 0
    BY DEF WalletDies, Pub!Die, OnTheWay
  <1>2. PublisherTypeOK'
    BY DEF PInv, PublisherTypeOK, Pub!PublisherTypeOK, Pub!Phases, WalletDies, Pub!Die
  <1>3. AttemptInv'
    BY <1>1, Numbers DEF PInv, AttemptInv
  <1>4. QED
    BY <1>1, <1>2, <1>3 DEF PInv

LEMMA NextPInv == PInv /\ [PipelineNext]_pipeline => PInv'
  <1> SUFFICES ASSUME PInv, [PipelineNext]_pipeline PROVE PInv'
    OBVIOUS
  <1>1. CASE PublisherMoves
    <2>1. PICK t \in Ops : Pub!Step(t)
      BY <1>1 DEF PublisherMoves
    <2>2. CASE Pub!ClientGoes(t)
      BY <2>2, OtherKeeps DEF PInv, PublisherTypeOK, Pub!PublisherTypeOK, Pub!ClientGoes
    <2>3. QED
      BY <2>1, <2>2, AttemptKeeps, WriteKeeps, EndKeeps
         DEF Pub!Step, Pub!PublishStep, Pub!WriterStep
  <1>2. CASE WalletDies
    BY <1>2, DieKeeps
  <1>3. CASE ConsumerMoves
    <2>1. log' = log
      BY <1>3 DEF ConsumerMoves, ConsumerNext, ConsumerStep, Open, Fetch, Saved, InsertFails,
                  RecordOffset, Reconnect, Rebalance, Crash
    <2>2. QED
      BY <1>3, <2>1, OtherKeeps
         DEF ConsumerMoves, wallet, PInv, PublisherTypeOK, Pub!PublisherTypeOK
  <1>4. CASE OthersProduce
    BY <1>4, OtherKeeps
       DEF OthersProduce, Produce, wallet, PInv, PublisherTypeOK, Pub!PublisherTypeOK
  <1>5. CASE AllQuiet \/ UNCHANGED pipeline
    BY <1>5, OtherKeeps DEF AllQuiet, Pub!AllReturned, Pub!vars, Pub!publish, pipeline, wallet,
                            PInv, PublisherTypeOK, Pub!PublisherTypeOK
  <1>6. QED
    BY <1>1, <1>2, <1>3, <1>4, <1>5 DEF PipelineNext

LEMMA PipelineInvariance == PipelineSpec => []PInv
  BY InitPInv, NextPInv, PTL DEF PipelineSpec

\* PublisherTypeOK: no Publish makes more than `retries' attempts, and the writer
\* never holds more copies of an event than that.
THEOREM PipelineTypeCorrect == PipelineSpec => []PublisherTypeOK
  <1>1. PInv => PublisherTypeOK
    BY DEF PInv
  <1>2. QED
    BY <1>1, PipelineInvariance, PTL

-----------------------------------------------------------------------------
(* Powers of two *)

\* Induction over the natural numbers, for a property given as a set.
LEMMA SetInduction ==
  ASSUME NEW S, 0 \in S, \A n \in Nat : n \in S => n + 1 \in S
  PROVE  Nat \subseteq S
  <1> DEFINE R == OpToRel(<, Nat)
             T == Nat \ S
  <1> SUFFICES ASSUME T # {} PROVE FALSE
    OBVIOUS
  <1>1. IsWellFoundedOn(R, Nat)
    BY NatLessThanWellFounded
  <1>2. T \subseteq Nat
    OBVIOUS
  <1>3. PICK m \in T : \A n \in T : ~(<<n, m>> \in R)
    <2> HIDE DEF R, T
    <2>1. QED
      BY <1>1, <1>2, WFMin
  <1>4. m \in Nat /\ m # 0 /\ m - 1 \in Nat /\ m - 1 < m /\ (m - 1) + 1 = m
    OBVIOUS
  <1>5. m - 1 \in T
    BY <1>4
  <1>6. <<m - 1, m>> \in R
    BY <1>4 DEF OpToRel
  <1>7. QED
    BY <1>3, <1>5, <1>6

\* The first n + 1 powers of two.
Powers(n, f) ==
    /\ f \in [0..n -> Nat]
    /\ f[0] = 1
    /\ \A i \in 1..n : f[i] = 2 * f[i - 1]

LEMMA PowersExist == \A n \in Nat : \E f : Powers(n, f)
  <1> DEFINE S == {n \in Nat : \E f : Powers(n, f)}
  <1>1. 0 \in S
    <2>1. Powers(0, [i \in 0..0 |-> 1])
      BY DEF Powers
    <2>2. QED
      BY <2>1
  <1>2. ASSUME NEW n \in Nat, n \in S
        PROVE  n + 1 \in S
    <2>1. PICK f : Powers(n, f)
      BY <1>2
    <2> DEFINE g == [i \in 0..(n + 1) |-> IF i = n + 1 THEN 2 * f[n] ELSE f[i]]
    <2>2. f[n] \in Nat /\ \A i \in 0..n : f[i] \in Nat
      BY <2>1 DEF Powers
    <2>3. g \in [0..(n + 1) -> Nat] /\ g[0] = 1
      BY <2>1, <2>2 DEF Powers
    <2>4. ASSUME NEW i \in 1..(n + 1)
          PROVE  g[i] = 2 * g[i - 1]
      <3>1. CASE i = n + 1
        BY <3>1
      <3>2. CASE i # n + 1
        <4>1. i \in 1..n /\ i - 1 \in 0..n /\ i - 1 # n + 1
          BY <3>2
        <4>2. f[i] = 2 * f[i - 1]
          BY <2>1, <4>1 DEF Powers
        <4>3. QED
          BY <4>1, <4>2
      <3>3. QED
        BY <3>1, <3>2
    <2> HIDE DEF g
    <2>5. Powers(n + 1, g)
      BY <2>3, <2>4 DEF Powers
    <2>6. QED
      BY <2>5
  <1> HIDE DEF S
  <1>3. Nat \subseteq S
    BY <1>1, <1>2, SetInduction
  <1>4. QED
    BY <1>3 DEF S

LEMMA PowersAgree ==
  ASSUME NEW m \in Nat, NEW n \in Nat, NEW f, NEW g, Powers(m, f), Powers(n, g),
         NEW k \in Nat, k <= m, k <= n
  PROVE  f[k] = g[k]
  <1> DEFINE S == {i \in Nat : i <= m /\ i <= n => f[i] = g[i]}
  <1>1. 0 \in S
    BY DEF Powers
  <1>2. ASSUME NEW i \in Nat, i \in S
        PROVE  i + 1 \in S
    <2> SUFFICES ASSUME i + 1 <= m, i + 1 <= n PROVE f[i + 1] = g[i + 1]
      OBVIOUS
    <2>1. i + 1 \in 1..m /\ i + 1 \in 1..n /\ (i + 1) - 1 = i
      OBVIOUS
    <2>2. f[i + 1] = 2 * f[i] /\ g[i + 1] = 2 * g[i]
      BY <2>1 DEF Powers
    <2>3. f[i] = g[i]
      BY <1>2
    <2>4. QED
      BY <2>2, <2>3
  <1> HIDE DEF S
  <1>3. Nat \subseteq S
    BY <1>1, <1>2, SetInduction
  <1>4. QED
    BY <1>3 DEF S

\* TwoTo is a function that satisfies its recursive definition.
LEMMA TwoToIs ==
  Pub!TwoTo = [n \in Nat |-> IF n = 0 THEN 1 ELSE 2 * Pub!TwoTo[n - 1]]
  <1> DEFINE P(n) == CHOOSE f : Powers(n, f)
             F == [n \in Nat |-> P(n)[n]]
  <1>1. \A n \in Nat : Powers(n, P(n))
    BY PowersExist
  <1> HIDE DEF P
  <1>2. ASSUME NEW n \in Nat
        PROVE  F[n] = IF n = 0 THEN 1 ELSE 2 * F[n - 1]
    <2>1. CASE n = 0
      BY <1>1, <2>1 DEF Powers
    <2>2. CASE n # 0
      <3>1. n \in 1..n /\ n - 1 \in Nat /\ n - 1 <= n
        BY <2>2
      <3>2. P(n)[n] = 2 * P(n)[n - 1]
        BY <1>1, <3>1 DEF Powers
      <3>3. P(n)[n - 1] = P(n - 1)[n - 1]
        BY <1>1, <3>1, PowersAgree
      <3>4. QED
        BY <2>2, <3>1, <3>2, <3>3
    <2>3. QED
      BY <2>1, <2>2
  <1>3. F = [n \in Nat |-> IF n = 0 THEN 1 ELSE 2 * F[n - 1]]
    BY <1>2
  <1> HIDE DEF F
  <1>4. QED
    BY <1>3, Zenon DEF Pub!TwoTo

LEMMA TwoToStep ==
  ASSUME NEW n \in Nat
  PROVE  Pub!TwoTo[0] = 1 /\ Pub!TwoTo[n + 1] = 2 * Pub!TwoTo[n]
  <1> DEFINE f == Pub!TwoTo
  <1>1. \A i \in Nat : f[i] = IF i = 0 THEN 1 ELSE 2 * f[i - 1]
    BY TwoToIs
  <1> HIDE DEF f
  <1>2. f[0] = 1 /\ f[n + 1] = 2 * f[n]
    BY <1>1
  <1>3. QED
    BY <1>2 DEF f

LEMMA TwoToType == \A n \in Nat : Pub!TwoTo[n] \in Nat \ {0}
  <1> DEFINE S == {n \in Nat : Pub!TwoTo[n] \in Nat \ {0}}
  <1>1. 0 \in S
    BY TwoToStep
  <1>2. ASSUME NEW n \in Nat, n \in S
        PROVE  n + 1 \in S
    BY <1>2, TwoToStep
  <1> HIDE DEF S
  <1>3. Nat \subseteq S
    BY <1>1, <1>2, SetInduction
  <1>4. QED
    BY <1>3 DEF S

-----------------------------------------------------------------------------
(* The time Publish takes *)

\* What n time-outs and the first n back-offs take at most.
Attempts(n) == n * timeoutPerAttempt
Backoffs(n) == backoffMs * (Pub!TwoTo[n] - 1)

LEMMA OneMore ==
  ASSUME NEW n \in Nat
  PROVE  /\ Attempts(n) \in Nat /\ Attempts(n + 1) = Attempts(n) + timeoutPerAttempt
         /\ Backoffs(n) \in Nat /\ Backoffs(n + 1) = Backoffs(n) + backoffMs * Pub!TwoTo[n]
         /\ backoffMs * Pub!TwoTo[n] \in Nat
  <1>1. ASSUME NEW b \in Nat, NEW p \in Nat
        PROVE  b * p \in Nat
    <2>1. b * p \in Int /\ b * p >= 0
      OBVIOUS
    <2>2. QED
      BY <2>1
  <1>2. ASSUME NEW b \in Nat, NEW p \in Nat
        PROVE  (p + 1) * b = p * b + b /\ b * (2 * p - 1) = b * (p - 1) + b * p
    OBVIOUS
  <1>3. Attempts(n) \in Nat /\ Attempts(n + 1) = Attempts(n) + timeoutPerAttempt
    BY <1>1, <1>2 DEF Attempts
  <1>4. PICK p \in Nat \ {0} : p = Pub!TwoTo[n]
    BY TwoToType
  <1>5. p - 1 \in Nat /\ Pub!TwoTo[n + 1] = 2 * p
    BY <1>4, TwoToStep
  <1>6. backoffMs * p \in Nat /\ backoffMs * (p - 1) \in Nat
    BY <1>1, <1>5
  <1>7. Backoffs(n) \in Nat /\ Backoffs(n + 1) = Backoffs(n) + backoffMs * p
    BY <1>2, <1>4, <1>5, <1>6 DEF Backoffs
  <1>8. QED
    BY <1>3, <1>4, <1>6, <1>7

LEMMA MoreTakesLonger ==
  ASSUME NEW m \in Nat, NEW n \in Nat, m <= n
  PROVE  Attempts(m) <= Attempts(n) /\ Backoffs(m) <= Backoffs(n)
  <1> DEFINE S == {k \in Nat : m <= k => Attempts(m) <= Attempts(k) /\ Backoffs(m) <= Backoffs(k)}
  <1>1. 0 \in S
    BY OneMore
  <1>2. ASSUME NEW k \in Nat, k \in S
        PROVE  k + 1 \in S
    <2> SUFFICES ASSUME m <= k + 1
                 PROVE  Attempts(m) <= Attempts(k + 1) /\ Backoffs(m) <= Backoffs(k + 1)
      OBVIOUS
    <2>1. CASE m = k + 1
      <3>1. Attempts(m) \in Nat /\ Backoffs(m) \in Nat
        BY OneMore
      <3>2. QED
        BY <2>1, <3>1
    <2>2. CASE m <= k
      <3>1. Attempts(m) <= Attempts(k) /\ Backoffs(m) <= Backoffs(k)
        BY <1>2, <2>2
      <3>2. Attempts(m) \in Nat /\ Backoffs(m) \in Nat
        BY OneMore
      <3>3. /\ Attempts(k) \in Nat /\ Attempts(k + 1) = Attempts(k) + timeoutPerAttempt
            /\ Backoffs(k) \in Nat /\ Backoffs(k + 1) = Backoffs(k) + backoffMs * Pub!TwoTo[k]
            /\ backoffMs * Pub!TwoTo[k] \in Nat
        BY OneMore
      <3>4. PICK g \in Nat : g = backoffMs * Pub!TwoTo[k]
        BY <3>3
      <3>5. Backoffs(k + 1) = Backoffs(k) + g
        BY <3>3, <3>4
      <3>6. timeoutPerAttempt \in Nat
        BY PublisherAssumption
      <3>7. Attempts(m) <= Attempts(k + 1)
        BY <3>1, <3>2, <3>3, <3>6
      <3>8. Backoffs(m) <= Backoffs(k + 1)
        BY <3>1, <3>2, <3>3, <3>5
      <3>9. QED
        BY <3>7, <3>8
    <2>3. QED
      BY <2>1, <2>2
  <1> HIDE DEF S
  <1>3. Nat \subseteq S
    BY <1>1, <1>2, SetInduction
  <1>4. QED
    BY <1>3 DEF S

\* An operation that is in its n-th attempt has spent at most n - 1 time-outs and
\* back-offs; one that waits for the next, one time-out more.
Allowance(p, n) ==
    CASE p = "idle"    -> 0
      [] p = "write"   -> Attempts(n - 1) + Backoffs(n - 1)
      [] p = "backoff" -> Attempts(n) + Backoffs(n - 1)
      [] OTHER         -> Attempts(retries) + Backoffs(retries - 1)

TimeInv ==
    /\ waited \in [Ops -> Nat]
    /\ \A t \in Ops :
         /\ phase[t] \in {"write", "backoff"} => tries[t] > 0
         /\ waited[t] <= Allowance(phase[t], tries[t])

LEMMA InitTime == PipelineInit => TimeInv
  <1> SUFFICES ASSUME PipelineInit PROVE TimeInv
    OBVIOUS
  <1>1. Pub!Init
    BY DEF PipelineInit
  <1>2. \A t \in Ops : phase[t] = "idle" /\ waited[t] = 0
    BY <1>1 DEF Pub!Init
  <1>3. waited \in [Ops -> Nat]
    BY <1>1 DEF Pub!Init
  <1>4. QED
    BY <1>2, <1>3 DEF TimeInv, Allowance

\* Only the operation that moves takes time.
LEMMA TimeFrame ==
  ASSUME TimeInv, NEW t \in Ops, NEW d \in Nat,
         waited' = [waited EXCEPT ![t] = @ + d],
         \A u \in Ops \ {t} : phase'[u] = phase[u] /\ tries'[u] = tries[u],
         phase'[t] \in {"write", "backoff"} => tries'[t] > 0,
         waited[t] + d <= Allowance(phase'[t], tries'[t])
  PROVE  TimeInv'
  <1>1. waited' \in [Ops -> Nat] /\ waited'[t] = waited[t] + d
    BY DEF TimeInv
  <1>2. \A u \in Ops \ {t} : waited'[u] = waited[u]
    BY DEF TimeInv
  <1>3. \A u \in Ops : Allowance(phase[u], tries[u])' = Allowance(phase'[u], tries'[u])
    BY DEF Allowance, Attempts, Backoffs
  <1>4. \A u \in Ops \ {t} : waited'[u] <= Allowance(phase[u], tries[u])'
    BY <1>2, <1>3 DEF TimeInv
  <1>5. waited'[t] <= Allowance(phase[t], tries[t])'
    BY <1>1, <1>3
  <1>6. \A u \in Ops : phase'[u] \in {"write", "backoff"} => tries'[u] > 0
    BY DEF TimeInv
  <1>7. QED
    BY <1>1, <1>4, <1>5, <1>6 DEF TimeInv

\* The same for an operation that takes no time.
LEMMA TimeStill ==
  ASSUME TimeInv, NEW t \in Ops, waited' = waited,
         \A u \in Ops \ {t} : phase'[u] = phase[u] /\ tries'[u] = tries[u],
         phase'[t] \in {"write", "backoff"} => tries'[t] > 0,
         waited[t] <= Allowance(phase'[t], tries'[t])
  PROVE  TimeInv'
  <1>1. waited' = [waited EXCEPT ![t] = @ + 0] /\ waited[t] + 0 = waited[t]
    BY DEF TimeInv
  <1>2. QED
    BY <1>1, TimeFrame

\* The parts of an allowance, for an operation with n attempts behind it.
LEMMA Allowances ==
  ASSUME NEW n \in 1..retries
  PROVE  /\ Allowance("write", n) \in Nat /\ Allowance("backoff", n) \in Nat
         /\ Allowance("backoff", n) = Allowance("write", n) + timeoutPerAttempt
         /\ Allowance("write", n + 1) = Allowance("backoff", n) + backoffMs * Pub!TwoTo[n - 1]
         /\ backoffMs * Pub!TwoTo[n - 1] \in Nat
         /\ Allowance("backoff", n) <= Allowance("returned", n)
         /\ n < retries => Allowance("write", n + 1) <= Allowance("returned", n)
         /\ Allowance("dead", n) = Allowance("returned", n)
  <1>1. PICK k \in Nat : n = k + 1
    <2>1. n - 1 \in Nat /\ n = (n - 1) + 1
      OBVIOUS
    <2>2. QED
      BY <2>1
  <1>2. /\ Attempts(k) \in Nat /\ Attempts(n) = Attempts(k) + timeoutPerAttempt
        /\ Backoffs(k) \in Nat /\ Backoffs(n) = Backoffs(k) + backoffMs * Pub!TwoTo[k]
        /\ backoffMs * Pub!TwoTo[k] \in Nat /\ Attempts(n) \in Nat /\ Backoffs(n) \in Nat
    BY <1>1, OneMore
  <1>3. retries \in Nat /\ retries - 1 \in Nat /\ k <= retries - 1 /\ n <= retries
    BY <1>1
  <1>4. /\ Attempts(n) <= Attempts(retries) /\ Backoffs(k) <= Backoffs(retries - 1)
        /\ n < retries => Backoffs(n) <= Backoffs(retries - 1)
    BY <1>1, <1>3, MoreTakesLonger
  <1>5. /\ Attempts(retries) \in Nat /\ Backoffs(retries - 1) \in Nat
    BY <1>3, OneMore
  <1>6. /\ Allowance("write", n) = Attempts(k) + Backoffs(k)
        /\ Allowance("backoff", n) = Attempts(n) + Backoffs(k)
        /\ Allowance("write", n + 1) = Attempts(n) + Backoffs(n)
        /\ Allowance("returned", n) = Attempts(retries) + Backoffs(retries - 1)
        /\ Allowance("dead", n) = Attempts(retries) + Backoffs(retries - 1)
    <2>1. n - 1 = k /\ (n + 1) - 1 = n
      BY <1>1
    <2>2. QED
      BY <2>1 DEF Allowance
  <1>7. n - 1 = k
    BY <1>1
  <1>8. QED
    BY <1>2, <1>4, <1>5, <1>6, <1>7

LEMMA PublisherTime ==
  ASSUME PInv, TimeInv, NEW t \in Ops, Pub!Publish(t) \/ Pub!PublishStep(t)
  PROVE  TimeInv'
  <1>0. /\ phase \in [Ops -> Pub!Phases] /\ tries \in [Ops -> 0..retries]
        /\ waited \in [Ops -> Nat]
    BY DEF PInv, PublisherTypeOK, Pub!PublisherTypeOK, TimeInv
  <1>a. retries \in Nat /\ timeoutPerAttempt \in Nat /\ waited[t] \in Nat
    BY <1>0
  <1>1. CASE Pub!Publish(t)
    <2>1. phase[t] = "idle" /\ tries[t] = 0
      BY <1>1 DEF Pub!Publish, PInv, AttemptInv
    <2>2. waited[t] = 0
      BY <1>a, <2>1 DEF TimeInv, Allowance
    <2>3. /\ phase'[t] = "write" /\ tries'[t] = 1 /\ waited' = waited
          /\ \A u \in Ops \ {t} : phase'[u] = phase[u] /\ tries'[u] = tries[u]
      BY <1>0, <1>1, <2>1 DEF Pub!Publish, Pub!Attempt, Pub!Move
    <2>4. 1 \in 1..retries
      BY <1>a
    <2>5. 0 <= Allowance("write", 1)
      BY <2>4, Allowances
    <2>6. QED
      BY <2>2, <2>3, <2>5, TimeStill
  <1>b. ASSUME phase[t] \in {"write", "backoff"}
        PROVE  tries[t] \in 1..retries
    BY <1>0, <1>a, <1>b DEF TimeInv
  <1>2. CASE Pub!WriteSucceeds(t) \/ Pub!WriteFails(t)
    <2>1. PICK d \in 0..timeoutPerAttempt : waited' = [waited EXCEPT ![t] = @ + d]
      BY <1>2 DEF Pub!WriteSucceeds, Pub!WriteFails, Pub!Takes
    <2>2. phase[t] = "write" /\ tries' = tries /\ phase'[t] \in {"backoff", "returned"}
      BY <1>0, <1>2 DEF Pub!WriteSucceeds, Pub!WriteFails, Pub!Move
    <2>3. \A u \in Ops \ {t} : phase'[u] = phase[u] /\ tries'[u] = tries[u]
      BY <1>0, <1>2 DEF Pub!WriteSucceeds, Pub!WriteFails, Pub!Move
    <2>4. tries[t] \in 1..retries
      BY <1>b, <2>2
    <2>5. waited[t] <= Allowance("write", tries[t])
      BY <2>2 DEF TimeInv
    <2>6. /\ waited[t] + d <= Allowance("backoff", tries[t])
          /\ waited[t] + d <= Allowance("returned", tries[t])
      <3>1. Allowance("returned", tries[t]) \in Nat
        BY <1>a, OneMore DEF Allowance
      <3>2. QED
        BY <1>a, <2>4, <2>5, <3>1, Allowances
    <2>7. waited[t] + d <= Allowance(phase'[t], tries'[t]) /\ tries'[t] > 0
      BY <2>2, <2>4, <2>6
    <2>8. d \in Nat
      BY <1>a
    <2>9. QED
      BY <2>1, <2>3, <2>7, <2>8, TimeFrame
  <1>3. CASE Pub!BackoffOver(t) \/ Pub!Abort(t)
    <2>1. phase[t] = "backoff" /\ tries[t] < retries
      BY <1>3 DEF Pub!BackoffOver, Pub!Abort, PInv, AttemptInv
    <2>2. tries[t] \in 1..retries
      BY <1>b, <2>1
    <2>3. waited[t] <= Allowance("backoff", tries[t])
      BY <2>1 DEF TimeInv
    <2> DEFINE D == backoffMs * Pub!TwoTo[tries[t] - 1]
    <2>4. D \in Nat /\ Allowance("write", tries[t] + 1) = Allowance("backoff", tries[t]) + D
      BY <2>2, Allowances
    <2>5. PICK d \in 0..D : waited' = [waited EXCEPT ![t] = @ + d]
      <3>1. D \in 0..D
        BY <2>4
      <3>2. QED
        BY <1>3, <3>1 DEF Pub!BackoffOver, Pub!Abort, Pub!Takes, Pub!Backoff
    <2>6. waited[t] + d <= Allowance("write", tries[t] + 1)
      BY <1>a, <2>2, <2>3, <2>4, <2>5, Allowances
    <2>7. d \in Nat
      BY <2>4
    <2>8. \A u \in Ops \ {t} : phase'[u] = phase[u] /\ tries'[u] = tries[u]
      BY <1>0, <1>3 DEF Pub!BackoffOver, Pub!Abort, Pub!Attempt, Pub!Move
    <2>9. CASE Pub!BackoffOver(t)
      <3>1. phase'[t] = "write" /\ tries'[t] = tries[t] + 1
        BY <1>0, <2>9 DEF Pub!BackoffOver, Pub!Attempt, Pub!Move
      <3>2. tries'[t] > 0
        BY <2>2, <3>1
      <3>3. QED
        BY <2>5, <2>6, <2>7, <2>8, <3>1, <3>2, TimeFrame
    <2>10. CASE Pub!Abort(t)
      <3>1. phase'[t] = "returned" /\ tries'[t] = tries[t]
        BY <1>0, <2>10 DEF Pub!Abort, Pub!Move
      <3>2. Allowance("returned", tries[t]) \in Nat
        BY <1>a, OneMore DEF Allowance
      <3>3. waited[t] + d <= Allowance("returned", tries[t])
        BY <1>a, <2>1, <2>2, <2>4, <2>6, <2>7, <3>2, Allowances
      <3>4. QED
        BY <2>5, <2>7, <2>8, <3>1, <3>3, TimeFrame
    <2>11. QED
      BY <1>3, <2>9, <2>10
  <1>4. QED
    BY <1>1, <1>2, <1>3 DEF Pub!PublishStep

LEMMA NextTime == PInv /\ TimeInv /\ [PipelineNext]_pipeline => TimeInv'
  <1> SUFFICES ASSUME PInv, TimeInv, [PipelineNext]_pipeline PROVE TimeInv'
    OBVIOUS
  <1>1. ASSUME UNCHANGED <<phase, tries, waited>>
        PROVE  TimeInv'
    BY <1>1 DEF TimeInv, Allowance, Attempts, Backoffs
  <1>2. CASE PublisherMoves
    <2>1. PICK t \in Ops : Pub!Step(t)
      BY <1>2 DEF PublisherMoves
    <2>2. CASE Pub!WriterStep(t) \/ Pub!ClientGoes(t)
      BY <1>1, <2>2
         DEF Pub!WriterStep, Pub!Land, Pub!LateWrite, Pub!LateDrop, Pub!Rewrite, Pub!ClientGoes
    <2>3. QED
      BY <2>1, <2>2, PublisherTime DEF Pub!Step
  <1>3. CASE WalletDies
    <2>1. /\ tries' = tries /\ waited' = waited
          /\ \A t \in Ops : \/ phase'[t] = phase[t] /\ phase[t] \notin {"write", "backoff"}
                            \/ phase'[t] = "dead" /\ phase[t] \in {"write", "backoff"}
      BY <1>3 DEF WalletDies, Pub!Die
    <2>2. ASSUME NEW t \in Ops
          PROVE  waited[t] <= Allowance(phase'[t], tries[t])
      <3>1. CASE phase'[t] = phase[t]
        BY <3>1 DEF TimeInv
      <3>2. CASE phase'[t] = "dead" /\ phase[t] \in {"write", "backoff"}
        <4>1. tries[t] \in 1..retries /\ waited[t] \in Nat
          BY <3>2 DEF TimeInv, PInv, PublisherTypeOK, Pub!PublisherTypeOK
        <4>2. waited[t] <= Allowance(phase[t], tries[t])
          BY DEF TimeInv
        <4>3. /\ retries \in Nat /\ retries - 1 \in Nat /\ timeoutPerAttempt \in Nat
          OBVIOUS
        <4>4. Allowance("dead", tries[t]) \in Nat
          BY <4>3, OneMore DEF Allowance
        <4>5. QED
          BY <3>2, <4>1, <4>2, <4>3, <4>4, Allowances
      <3>3. QED
        BY <2>1, <3>1, <3>2
    <2>3. \A t \in Ops : phase'[t] \in {"write", "backoff"} => tries[t] > 0
      BY <2>1 DEF TimeInv
    <2>4. \A t \in Ops : Allowance(phase[t], tries[t])' = Allowance(phase'[t], tries[t])
      BY <2>1 DEF Allowance, Attempts, Backoffs
    <2>5. QED
      BY <2>1, <2>2, <2>3, <2>4 DEF TimeInv
  <1>4. CASE ConsumerMoves \/ OthersProduce
    BY <1>1, <1>4 DEF ConsumerMoves, OthersProduce, wallet
  <1>5. CASE AllQuiet \/ UNCHANGED pipeline
    BY <1>1, <1>5 DEF AllQuiet, Pub!AllReturned, Pub!vars, Pub!publish, pipeline, wallet
  <1>6. QED
    BY <1>2, <1>3, <1>4, <1>5 DEF PipelineNext

\* TimeBounded: for every number of retries, time-out and first back-off, Publish
\* delays the answer to the client by no more than `retries' time-outs and the
\* sum of the back-offs, whatever Kafka, the client and the process do.
THEOREM PublishTimeBounded == PipelineSpec => []TimeBounded
  <1>1. PInv /\ TimeInv => TimeBounded
    <2> SUFFICES ASSUME PInv, TimeInv, NEW t \in Ops
                 PROVE  waited[t] <= retries * timeoutPerAttempt
                                     + backoffMs * (Pub!TwoTo[retries - 1] - 1)
      BY DEF TimeBounded, Pub!TimeBounded
    <2>1. /\ waited[t] \in Nat /\ waited[t] <= Allowance(phase[t], tries[t])
          /\ phase[t] \in Pub!Phases /\ tries[t] \in 0..retries
      BY DEF TimeInv, PInv, PublisherTypeOK, Pub!PublisherTypeOK
    <2>2. retries \in Nat /\ retries - 1 \in Nat /\ timeoutPerAttempt \in Nat
      OBVIOUS
    <2>3. Attempts(retries) \in Nat /\ Backoffs(retries - 1) \in Nat
      BY <2>2, OneMore
    <2>4. waited[t] <= Attempts(retries) + Backoffs(retries - 1)
      <3>1. CASE phase[t] = "idle"
        BY <2>1, <2>3, <3>1 DEF Allowance
      <3>2. CASE phase[t] \in {"write", "backoff"}
        <4>1. tries[t] \in 1..retries
          BY <2>1, <2>2, <3>2 DEF TimeInv
        <4>2. Allowance("returned", tries[t]) = Attempts(retries) + Backoffs(retries - 1)
          BY DEF Allowance
        <4>3. QED
          BY <2>1, <2>2, <2>3, <3>2, <4>1, <4>2, Allowances
      <3>3. CASE phase[t] \in {"returned", "dead"}
        BY <2>1, <3>3 DEF Allowance
      <3>4. QED
        BY <2>1, <3>1, <3>2, <3>3 DEF Pub!Phases
    <2>5. QED
      BY <2>4 DEF Attempts, Backoffs
  <1>2. QED
    BY <1>1, PipelineInvariance, InitTime, NextTime, PTL DEF PipelineSpec

-----------------------------------------------------------------------------
(* Acknowledged events *)

Arrived(t) == \E o \in Offsets : At(o) = t

\* An attempt whose copy has landed, or an earlier one, has put it into the
\* partition, which never loses a message.
AckInv ==
    /\ \A t \in Ops : landed[t] => Arrived(t)
    /\ \A t \in acked : Arrived(t)

LEMMA InitAck == PipelineInit => AckInv
  BY DEF PipelineInit, Pub!Init, AckInv

\* What was in the partition still is, and what is appended is.
LEMMA ArrivedKept ==
  ASSUME log \in Seq(Messages), log' = log \/ \E m \in Messages : log' = Append(log, m), NEW t
  PROVE  /\ Arrived(t) => Arrived(t)'
         /\ t \in Messages /\ log' = Append(log, t) => Arrived(t)'
  <1>1. ASSUME Arrived(t)
        PROVE  Arrived(t)'
    <2>1. PICK o \in 0..(Len(log) - 1) : log[o + 1] = t
      BY <1>1 DEF Arrived, Offsets, At
    <2>2. o \in 0..(Len(log') - 1) /\ log'[o + 1] = t
      BY <2>1
    <2>3. QED
      BY <2>2 DEF Arrived, Offsets, At
  <1>2. ASSUME t \in Messages, log' = Append(log, t)
        PROVE  Arrived(t)'
    <2>1. Len(log) \in 0..(Len(log') - 1) /\ log'[Len(log) + 1] = t
      BY <1>2
    <2>2. QED
      BY <2>1 DEF Arrived, Offsets, At
  <1>3. QED
    BY <1>1, <1>2

\* A step that lands nothing and acknowledges nothing that had not landed.
LEMMA AckFrame ==
  ASSUME AckInv, log \in Seq(Messages), log' = log \/ \E m \in Messages : log' = Append(log, m),
         \A t \in Ops : landed'[t] => landed[t] \/ (t \in Messages /\ log' = Append(log, t)),
         \A t \in acked' : t \in acked \/ (t \in Ops /\ landed[t])
  PROVE  AckInv'
  BY ArrivedKept DEF AckInv

LEMMA NextAck == PInv /\ AckInv /\ [PipelineNext]_pipeline => AckInv'
  <1> SUFFICES ASSUME PInv, AckInv, [PipelineNext]_pipeline PROVE AckInv'
    OBVIOUS
  <1>1. log \in Seq(Messages) /\ landed \in [Ops -> BOOLEAN]
    BY DEF PInv, PublisherTypeOK, Pub!PublisherTypeOK
  <1>2. CASE PublisherMoves
    <2>1. PICK t \in Ops : Pub!Step(t)
      BY <1>2 DEF PublisherMoves
    <2>2. t \in Messages
      BY DEF Messages
    <2>3. CASE Pub!Land(t)
      <3>1. log' = Append(log, t) /\ acked' = acked /\ landed' = [landed EXCEPT ![t] = TRUE]
        BY <2>3 DEF Pub!Land, Pub!AppendCopy
      <3>2. \A u \in Ops : landed'[u] => landed[u] \/ u = t
        BY <1>1, <3>1
      <3>3. QED
        BY <1>1, <2>2, <3>1, <3>2, AckFrame
    <2>4. CASE Pub!LateWrite(t) \/ Pub!Rewrite(t)
      <3>1. log' = Append(log, t) /\ acked' = acked /\ landed' = landed
        BY <2>4 DEF Pub!LateWrite, Pub!Rewrite, Pub!AppendCopy
      <3>2. QED
        BY <1>1, <2>2, <3>1, AckFrame
    <2>5. CASE Pub!Publish(t) \/ Pub!BackoffOver(t)
      <3>1. log' = log /\ acked' = acked /\ landed' = [landed EXCEPT ![t] = FALSE]
        BY <2>5 DEF Pub!Publish, Pub!BackoffOver, Pub!Attempt
      <3>2. \A u \in Ops : landed'[u] => landed[u]
        BY <1>1, <3>1
      <3>3. QED
        BY <1>1, <3>1, <3>2, AckFrame
    <2>6. CASE Pub!WriteSucceeds(t)
      <3>1. log' = log /\ acked' = acked \cup {t} /\ landed' = landed /\ landed[t]
        BY <2>6 DEF Pub!WriteSucceeds
      <3>2. QED
        BY <1>1, <3>1, AckFrame
    <2>7. CASE Pub!WriteFails(t) \/ Pub!Abort(t) \/ Pub!LateDrop(t) \/ Pub!ClientGoes(t)
      <3>1. log' = log /\ acked' = acked /\ landed' = landed
        BY <2>7 DEF Pub!WriteFails, Pub!Abort, Pub!LateDrop, Pub!ClientGoes
      <3>2. QED
        BY <1>1, <3>1, AckFrame
    <2>8. QED
      BY <2>1, <2>3, <2>4, <2>5, <2>6, <2>7 DEF Pub!Step, Pub!PublishStep, Pub!WriterStep
  <1>3. CASE WalletDies
    <2>1. log' = log /\ acked' = acked /\ landed' = landed
      BY <1>3 DEF WalletDies, Pub!Die
    <2>2. QED
      BY <1>1, <2>1, AckFrame
  <1>4. CASE ConsumerMoves \/ OthersProduce
    <2>1. acked' = acked /\ landed' = landed
      BY <1>4 DEF ConsumerMoves, OthersProduce, wallet
    <2>2. log' = log \/ \E m \in Messages : log' = Append(log, m)
      BY <1>4 DEF ConsumerMoves, ConsumerNext, ConsumerStep, Open, Fetch, Saved, InsertFails,
                  RecordOffset, Reconnect, Rebalance, Crash, OthersProduce, Produce
    <2>3. QED
      BY <1>1, <2>1, <2>2, AckFrame
  <1>5. CASE AllQuiet \/ UNCHANGED pipeline
    <2>1. log' = log /\ acked' = acked /\ landed' = landed
      BY <1>5 DEF AllQuiet, Pub!AllReturned, Pub!vars, Pub!publish, pipeline, wallet
    <2>2. QED
      BY <1>1, <2>1, AckFrame
  <1>6. QED
    BY <1>2, <1>3, <1>4, <1>5 DEF PipelineNext

\* AckedNotLost, for any number of operations, attempts, crashes and failures:
\* where Publish logs no error, the event is in the partition, and no copy of it is
\* passed over without a document or a logged give-up.
THEOREM AcknowledgedNeverLost == PipelineSpec => []AckedNotLost
  <1>1. PInv /\ AckInv /\ OffsetCovered => AckedNotLost
    <2> SUFFICES ASSUME PInv, AckInv, OffsetCovered, NEW t \in acked
                 PROVE  /\ \E o \in Offsets : At(o) = t
                        /\ \A o \in Offsets :
                             At(o) = t /\ o < stored => docs[t] > 0 \/ o \in skipped
      BY DEF AckedNotLost
    <2>1. t # Garbage
      BY GarbageAssumption DEF PInv, PublisherTypeOK, Pub!PublisherTypeOK
    <2>2. \E o \in Offsets : At(o) = t
      BY DEF AckInv, Arrived
    <2>3. ASSUME NEW o \in Offsets, At(o) = t, o < stored
          PROVE  docs[t] > 0 \/ o \in skipped
      BY <2>1, <2>3 DEF OffsetCovered, Settled
    <2>4. QED
      BY <2>2, <2>3
  <1>2. PipelineSpec => []AckInv
    BY InitAck, NextAck, PipelineInvariance, PTL DEF PipelineSpec
  <1>3. QED
    BY <1>1, <1>2, PipelineInvariance, PipelineOffsetCovered, PTL
===============================================================================
