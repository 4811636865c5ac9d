---------------------------- MODULE AtomicLedger ----------------------------
(***************************************************************************)
(* What the wallet service promises its clients, without transactions,     *)
(* locks, crashes of the service or partial registration steps: a request  *)
(* moves money at most once, in one indivisible step that leaves every     *)
(* balance covered and in range; an answer "ok" is only given to a request *)
(* that has moved its money, "refused" only to one that has not and then   *)
(* never will; "unknown" (an internal error) promises nothing.             *)
(***************************************************************************)
EXTENDS Money

CONSTANTS
    Accounts,    \* pairs <<user, currency>>
    OldUsers,    \* users registered before the service started
    Requests,    \* request slots
    Workload,    \* the requests clients may send
    Rates,       \* exchange rates, in hundredths
    MaxAmount    \* the largest balance, in cents

VARIABLES
    open,      \* accounts that exist
    amount,    \* balance of each account, in cents
    req,       \* the request in each slot
    applied,   \* slots whose request has moved its money
    answer     \* what the client of each slot has been told

vars == <<open, amount, req, applied, answer>>

From(r) == <<req[r].user, req[r].cur>>
To(r)   == <<req[r].user, req[r].to>>

Init ==
    /\ open = {acc \in Accounts : acc[1] \in OldUsers}
    /\ amount \in [Accounts -> 0..MaxAmount]
    /\ req \in [Requests -> Workload]
    /\ applied = {}
    /\ answer = [r \in Requests |-> "none"]

\* An account is opened and stays open.
Open(acc) ==
    /\ acc \notin open
    /\ open' = open \cup {acc}
    /\ UNCHANGED <<amount, req, applied, answer>>

\* r has not moved money, has not been answered, and moves it now.  Its client
\* may be told at once that the outcome is unknown.
Apply(r, newAmount) ==
    /\ r \notin applied
    /\ answer[r] = "none"
    /\ newAmount \in [Accounts -> 0..MaxAmount]
    /\ amount' = newAmount
    /\ applied' = applied \cup {r}
    /\ answer' \in {answer, [answer EXCEPT ![r] = "unknown"]}
    /\ UNCHANGED <<open, req>>

Deposit(r) ==
    /\ req[r].op = "deposit"
    /\ From(r) \in open
    /\ Apply(r, [amount EXCEPT ![From(r)] = @ + CreditCents(req[r].amount)])

Withdraw(r) ==
    /\ req[r].op = "withdraw"
    /\ From(r) \in open
    /\ Covers(amount[From(r)], req[r].amount)
    /\ Apply(r, [amount EXCEPT ![From(r)] = @ - DebitCents(req[r].amount)])

\* Both legs of an exchange, in one step.
Exchange(r, rate) ==
    /\ req[r].op = "exchange"
    /\ {From(r), To(r)} \subseteq open
    /\ From(r) # To(r)
    /\ Covers(amount[From(r)], req[r].amount)
    /\ Apply(r, [amount EXCEPT
                   ![From(r)] = @ - DebitCents(req[r].amount),
                   ![To(r)]   = @ + ExchangedAmount(req[r].amount, rate)])

\* The promise has one hole: a user whose registration did not finish before
\* the service started may lose the credited leg.
ExchangeUncredited(r) ==
    /\ req[r].op = "exchange"
    /\ req[r].user \notin OldUsers
    /\ From(r) \in open
    /\ Covers(amount[From(r)], req[r].amount)
    /\ Apply(r, [amount EXCEPT ![From(r)] = @ - DebitCents(req[r].amount)])

Answer(r, a) ==
    /\ answer[r] = "none"
    /\ a = "ok" => r \in applied
    /\ a = "refused" => r \notin applied
    /\ answer' = [answer EXCEPT ![r] = a]
    /\ UNCHANGED <<open, amount, req, applied>>

Next ==
    \/ \E acc \in Accounts : Open(acc)
    \/ \E r \in Requests :
        \/ Deposit(r)
        \/ Withdraw(r)
        \/ \E rate \in Rates : Exchange(r, rate)
        \/ ExchangeUncredited(r)
        \/ \E a \in {"ok", "refused", "unknown"} : Answer(r, a)

Spec == Init /\ [][Next]_vars
=============================================================================
