----------------------- MODULE LargeTransactionPipeline -----------------------
(***************************************************************************)
(* The way of a large operation from the wallet to MongoDB: the publishers *)
(* of gw-currency-wallet and the consumer of gw-notification share the     *)
(* partition `log' and nothing else.  Ops are the operations followed in   *)
(* detail; the events of all others, and messages that are no events, are  *)
(* written to the partition by other producers at any time.                *)
(***************************************************************************)
EXTENDS NotificationConsumer

CONSTANTS Ops, retries, backoffMs, timeoutPerAttempt, MaxDeaths

ASSUME OpsAssumption == Ops \subseteq Ids
ASSUME PublisherAssumption ==
    /\ retries \in Nat \ {0}
    /\ backoffMs \in Nat \ {0}
    /\ timeoutPerAttempt \in Nat \ {0}
    /\ MaxDeaths \in Nat

VARIABLES phase, tries, landed, late, gone, acked, waited, deaths

Pub == INSTANCE LargeTransactionPublisher WITH MaxMessages <- N

wallet == <<phase, tries, landed, late, gone, acked, waited, deaths>>
consumer == <<group, stored, docs, pc, pos, cur, attempt, crashes, reconnects, skipped>>
pipeline == <<log, wallet, consumer>>

PipelineInit == Init /\ Pub!Init

PublisherMoves == (\E t \in Ops : Pub!Step(t)) /\ UNCHANGED consumer
WalletDies == Pub!Die /\ UNCHANGED consumer
ConsumerMoves == ConsumerNext /\ UNCHANGED wallet
OthersProduce == (\E m \in Messages \ Ops : Produce(m)) /\ UNCHANGED wallet

\* Both sides have come to an end.
AllQuiet == Pub!AllReturned /\ AtEnd

PipelineNext ==
    \/ PublisherMoves
    \/ WalletDies
    \/ ConsumerMoves
    \/ OthersProduce
    \/ AllQuiet

PipelineSpec == PipelineInit /\ [][PipelineNext]_pipeline

\* Goroutines run, and an attempt ends by its time-out if by nothing else.  The
\* consumer runs, and its calls to MongoDB return.  Nothing is assumed of the success of
\* a call to Kafka or MongoDB.
PipelineFairness ==
    /\ \A t \in Ops : WF_pipeline(Pub!PublishStep(t) /\ UNCHANGED consumer)
    /\ WF_pipeline(ConsumerStep /\ UNCHANGED wallet)
FairPipeline == PipelineSpec /\ PipelineFairness

-----------------------------------------------------------------------------
(* Properties *)

\* The publisher's variables keep their types: in particular no Publish makes
\* more than `retries' attempts.
PublisherTypeOK == Pub!PublisherTypeOK

\* Publish holds up its handler for at most `retries' time-outs and the sum of
\* the back-offs, whatever Kafka and the client do.
TimeBounded == Pub!TimeBounded

\* The consumer gave up on a copy of the event.
GivenUp(t) == \E o \in skipped : At(o) = t

\* Publish returned without success, or the service died in it.
Unsent(t) == t \notin acked /\ phase[t] \in {"returned", "dead"}

\* An event whose write was acknowledged is in the partition, and wherever the
\* recorded offset has passed a copy of it there is a document of its transaction,
\* or the consumer has given that copy up: between the nil of WriteMessages and
\* MongoDB nothing gets lost, with attempts that time out, copies that are written
\* late or twice and crashes of both services.
AckedNotLost ==
    \A t \in acked :
        /\ \E o \in Offsets : At(o) = t
        /\ \A o \in Offsets :
             At(o) = t /\ o < stored => docs[t] > 0 \/ o \in skipped

\* Every large operation gets its document, unless Publish reported a failure
\* (WARN), the wallet died, or the consumer gave up after retryAttempts: nothing
\* gets lost between an acknowledged write and MongoDB.
EndToEnd ==
    \A t \in Ops :
        (phase[t] # "idle") ~> (docs[t] > 0 \/ GivenUp(t) \/ Unsent(t))
===============================================================================
