---------------------- MODULE LargeTransactionPublisher ----------------------
(***************************************************************************)
(* Publisher.Publish of gw-currency-wallet: the event of a committed large *)
(* operation is written to Kafka in at most `retries' attempts, each with  *)
(* a time-out, with an exponential back-off between them.  The handler     *)
(* answers its client only after Publish has returned.                     *)
(*                                                                         *)
(* The events of several requests are published at the same time.  An      *)
(* event is named by its transaction id; all its copies carry that id.     *)
(* The writer of kafka-go is external: WriteMessages returns nil only when *)
(* the broker has the message.  It can fail although the broker has it, it *)
(* writes a message again when the broker's answer is lost, and an attempt *)
(* that times out, or whose client has gone, can leave its copy in the     *)
(* writer, which writes it later or drops it.                              *)
(*                                                                         *)
(* There is no clock: waited adds up how long a Publish has taken, and an  *)
(* attempt may take any time up to its time-out.  Operations below the     *)
(* threshold never get here.  waited and acked are history variables.      *)
(***************************************************************************)
EXTENDS Integers, Sequences

CONSTANTS
    Ops,                \* large operations, by transaction id
    retries,            \* attempts, the first included
    backoffMs,          \* the first back-off
    timeoutPerAttempt,  \* time-out of one WriteMessages
    MaxMessages,        \* bound on the messages in the topic
    MaxDeaths           \* bound on crashes of the wallet service

VARIABLES
    log,      \* the messages in the topic
    phase,    \* what the Publish of each operation does
    tries,    \* attempts begun
    landed,   \* the copy of the current attempt is in the topic
    late,     \* copies of earlier attempts that the writer still holds
    gone,     \* operations whose client has gone: r.Context() is cancelled
    acked,    \* operations whose Publish was successful
    waited,   \* time each Publish has taken
    deaths    \* crashes of the wallet service

publish == <<phase, tries, landed, late, gone, acked, waited>>
vars == <<log, publish, deaths>>

Phases == {"idle", "write", "backoff", "returned", "dead"}

Init ==
    /\ log = <<>>
    /\ phase = [t \in Ops |-> "idle"]
    /\ tries = [t \in Ops |-> 0]
    /\ landed = [t \in Ops |-> FALSE]
    /\ late = [t \in Ops |-> 0]
    /\ gone = {} /\ acked = {}
    /\ waited = [t \in Ops |-> 0]
    /\ deaths = 0

Move(t, p) == phase' = [phase EXCEPT ![t] = p]
Takes(t, d) == waited' = [waited EXCEPT ![t] = @ + d]

-----------------------------------------------------------------------------
(* Publish *)

\* An attempt begins.
Attempt(t) ==
    /\ Move(t, "write")
    /\ tries' = [tries EXCEPT ![t] = @ + 1]
    /\ landed' = [landed EXCEPT ![t] = FALSE]

\* The operation has been committed and its handler calls Publish.
Publish(t) ==
    /\ phase[t] = "idle"
    /\ Attempt(t)
    /\ UNCHANGED <<log, late, gone, acked, waited, deaths>>

\* The partition gets the one message of an attempt.
AppendCopy(t) == log' = Append(log, t)

\* The copy of the current attempt reaches the topic.
Land(t) ==
    /\ phase[t] = "write" /\ ~landed[t] /\ Len(log) < MaxMessages
    /\ AppendCopy(t)
    /\ landed' = [landed EXCEPT ![t] = TRUE]
    /\ UNCHANGED <<phase, tries, late, gone, acked, waited, deaths>>

\* WriteMessages returns nil, and Publish with it.
WriteSucceeds(t) ==
    /\ phase[t] = "write" /\ landed[t]
    /\ acked' = acked \cup {t}
    /\ \E d \in 0..timeoutPerAttempt : Takes(t, d)
    /\ Move(t, "returned")
    /\ UNCHANGED <<log, tries, landed, late, gone, deaths>>

\* Mutant: the loop runs once too often.
LastAttempt_OffByOne(t) == tries[t] > retries
\* attempt < p.retries does not hold any more.
LastAttempt(t) == tries[t] >= retries

\* WriteMessages returns an error: the time-out, a cancelled context or an
\* answer that was lost.  After the last attempt Publish only logs it.
WriteFails(t) ==
    /\ phase[t] = "write"
    /\ \E d \in 0..timeoutPerAttempt : Takes(t, d)
    /\ \/ ~landed[t] /\ late' = [late EXCEPT ![t] = @ + 1]
       \/ UNCHANGED late
    /\ Move(t, IF LastAttempt(t) THEN "returned" ELSE "backoff")
    /\ UNCHANGED <<log, tries, landed, gone, acked, deaths>>

\* Two to the power n, as doubling n times gives it.
TwoTo[n \in Nat] == IF n = 0 THEN 1 ELSE 2 * TwoTo[n - 1]

\* Mutant: the delay is doubled once too often.
Backoff_Doubled(k) == backoffMs * TwoTo[k]
\* The delay after k attempts: the first one, doubled k - 1 times.
Backoff(k) == backoffMs * TwoTo[k - 1]

\* The back-off is over, or the request is cancelled before it is.
BackoffOver(t) ==
    /\ phase[t] = "backoff"
    /\ Takes(t, Backoff(tries[t]))
    /\ Attempt(t)
    /\ UNCHANGED <<log, late, gone, acked, deaths>>

\* ctx.Done in the back-off: Publish gives up.
Abort(t) ==
    /\ phase[t] = "backoff" /\ t \in gone
    /\ \E d \in 0..Backoff(tries[t]) : Takes(t, d)
    /\ Move(t, "returned")
    /\ UNCHANGED <<log, tries, landed, late, gone, acked, deaths>>

-----------------------------------------------------------------------------
(* The writer, the client and the process *)

\* The writer writes a copy that an earlier attempt has left.
LateWrite(t) ==
    /\ late[t] > 0 /\ Len(log) < MaxMessages
    /\ AppendCopy(t)
    /\ late' = [late EXCEPT ![t] = @ - 1]
    /\ UNCHANGED <<phase, tries, landed, gone, acked, waited, deaths>>

\* The writer gives it up.
LateDrop(t) ==
    /\ late[t] > 0
    /\ late' = [late EXCEPT ![t] = @ - 1]
    /\ UNCHANGED <<log, phase, tries, landed, gone, acked, waited, deaths>>

\* The answer to a write is lost and the writer writes the copy again.
Rewrite(t) ==
    /\ (phase[t] = "write" /\ landed[t]) \/ late[t] > 0
    /\ Len(log) < MaxMessages
    /\ AppendCopy(t)
    /\ UNCHANGED <<phase, tries, landed, late, gone, acked, waited, deaths>>

\* The client closes its connection: net/http cancels r.Context().
ClientGoes(t) ==
    /\ phase[t] \in {"write", "backoff"} /\ t \notin gone
    /\ gone' = gone \cup {t}
    /\ UNCHANGED <<log, phase, tries, landed, late, acked, waited, deaths>>

\* The service dies with the events it is publishing; they are not persisted.
Die ==
    /\ deaths < MaxDeaths
    /\ \E t \in Ops : phase[t] \in {"write", "backoff"} \/ late[t] > 0
    /\ deaths' = deaths + 1
    /\ phase' = [t \in Ops |-> IF phase[t] \in {"write", "backoff"} THEN "dead" ELSE phase[t]]
    /\ late' = [t \in Ops |-> 0]
    /\ UNCHANGED <<log, tries, landed, gone, acked, waited>>

-----------------------------------------------------------------------------
PublishStep(t) ==
    WriteSucceeds(t) \/ WriteFails(t) \/ BackoffOver(t) \/ Abort(t)
WriterStep(t) == Land(t) \/ LateWrite(t) \/ LateDrop(t) \/ Rewrite(t)

Step(t) == Publish(t) \/ PublishStep(t) \/ WriterStep(t) \/ ClientGoes(t)

\* Every Publish has returned.
AllReturned ==
    /\ \A t \in Ops : phase[t] \in {"returned", "dead"} /\ late[t] = 0
    /\ UNCHANGED vars

Next == (\E t \in Ops : Step(t)) \/ Die \/ AllReturned

Spec == Init /\ [][Next]_vars

-----------------------------------------------------------------------------
(* Properties *)

\* The type of the publisher's variables (for waited see TimeBounded).
PublisherTypeOK ==
    /\ phase \in [Ops -> Phases]
    /\ tries \in [Ops -> 0..retries]
    /\ landed \in [Ops -> BOOLEAN]
    /\ late \in [Ops -> 0..retries]
    /\ gone \subseteq Ops /\ acked \subseteq Ops
    /\ deaths \in 0..MaxDeaths

\* Publish holds up the handler for a bounded time, with Kafka down, slow or
\* flapping and with clients that go away: `retries' time-outs and the sum of
\* the back-offs backoffMs * (1 + 2 + 4 + ...).
TimeBounded ==
    \A t \in Ops :
        waited[t] <= retries * timeoutPerAttempt + backoffMs * (TwoTo[retries - 1] - 1)
=============================================================================
