---------------------------- MODULE WalletLedger ----------------------------
(***************************************************************************)
(* gw-currency-wallet: the HTTP handlers for registration, login, balance, *)
(* deposit, withdrawal and exchange, over the PostgreSQL tables users,     *)
(* wallets and balances.                                                   *)
(*                                                                         *)
(* Every request runs in a goroutine of its own; its pc names the call the *)
(* handler makes next.  A statement outside a transaction commits at once. *)
(* Exchange runs two UPDATEs in a READ COMMITTED transaction: the first    *)
(* takes the lock of the debited row, the second that of the credited row, *)
(* and both are held until COMMIT or ROLLBACK.  A waiting UPDATE evaluates *)
(* its WHERE clause again on the version it gets the lock on.  PostgreSQL  *)
(* itself (row locks, deadlock detection, rollback of the transaction of a *)
(* lost connection) is external and modelled from how this code uses it.   *)
(*                                                                         *)
(* posted, wrote and event are history variables: no guard reads them.     *)
(***************************************************************************)
EXTENDS Money, Sequences

CONSTANTS
    Users,                \* user names
    OldUsers,             \* users fully registered when the service starts
    Requests,             \* one slot per HTTP request
    NoReq,                \* not a request: nobody holds the lock
    supportedCurrencies,  \* the list in repo_auth.go
    Workload,             \* requests clients may send
    Rates,                \* exchange rates the exchanger may answer
    Threshold,            \* LARGE_TRANSACTION_THRESHOLD, in mills
    StartAmount,          \* balances of OldUsers, in cents
    MaxAmount,            \* the largest NUMERIC(18,2), in cents
    MaxCrashes            \* bound on crashes of the service

\* supportedCurrencies as a set (allowedCurrencies in handler_balance.go).
Currencies == {supportedCurrencies[i] : i \in 1..Len(supportedCurrencies)}
Rows == Users \X Currencies
Ops == {"register", "login", "balance", "deposit", "withdraw", "exchange"}
MoneyOps == {"deposit", "withdraw", "exchange"}

ASSUME UsersAssumption == OldUsers \subseteq Users
ASSUME NoReqAssumption == NoReq \notin Requests
ASSUME CurrenciesAssumption ==
    /\ supportedCurrencies \in Seq(STRING)
    /\ Len(supportedCurrencies) > 0
ASSUME WorkloadAssumption ==
    \A q \in Workload :
        /\ q.op \in Ops
        /\ q.user \in Users
        /\ q.amount \in Int
        /\ q.wellFormed \in BOOLEAN
ASSUME RatesAssumption == Rates \subseteq Nat
ASSUME AmountsAssumption ==
    /\ Threshold \in Nat
    /\ MaxAmount \in Nat
    /\ StartAmount \in 0..MaxAmount
    /\ MaxCrashes \in Nat

VARIABLES
    users,     \* rows of table users
    wallets,   \* users that have a row in table wallets
    rows,      \* rows of table balances
    amount,    \* balances.amount as last committed, in cents
    dirty,     \* the version the holder of the row's lock has written
    lock,      \* the transaction that holds the lock of a balances row
    tokens,    \* users that hold a valid JWT
    req,       \* the request each slot sends
    pc,        \* the call each request makes next
    step,      \* CreateBalancesForWallet's loop: index of the currency
    credit,    \* HandleExchange's exchangedAmount, in cents
    resp,      \* HTTP status written, 0 while there is none
    crashes,   \* crashes so far
    posted,    \* what the ledger owes: deltas of all committed operations
    wrote,     \* legs of each request that have been committed
    event      \* fate of each request's large-transaction event

tables == <<users, wallets, rows>>
money  == <<amount, dirty, lock, posted, wrote>>
locals == <<req, step, credit>>
vars   == <<tables, money, locals, tokens, pc, resp, crashes, event>>

Legs   == {"debit", "credit"}
Fates  == {"none", "due", "sent", "lost"}
Codes  == {0, 200, 201, 400, 401, 404, 409, 500}
Ended  == {"done", "dead"}
DBSteps == {"createUser", "createWallet", "createBalance", "getUser",
            "getWallet", "deposit", "withdraw", "debit", "credit", "commit",
            "getBalances"}
Steps  == {"idle", "getRate", "publish"} \cup DBSteps \cup Ended

From(r) == <<req[r].user, req[r].cur>>
To(r)   == <<req[r].user, req[r].to>>

Init ==
    /\ users = OldUsers
    /\ wallets = OldUsers
    /\ rows = OldUsers \X Currencies
    /\ amount = [x \in Rows |-> IF x[1] \in OldUsers THEN StartAmount ELSE 0]
    /\ dirty = amount
    /\ lock = [x \in Rows |-> NoReq]
    /\ tokens = OldUsers
    /\ req \in [Requests -> Workload]
    /\ pc = [r \in Requests |-> "idle"]
    /\ step = [r \in Requests |-> 1]
    /\ credit = [r \in Requests |-> 0]
    /\ resp = [r \in Requests |-> 0]
    /\ crashes = 0
    /\ posted = amount
    /\ wrote = [r \in Requests |-> {}]
    /\ event = [r \in Requests |-> "none"]

-----------------------------------------------------------------------------
(* Control of one handler *)

Goto(r, s) ==
    /\ pc' = [pc EXCEPT ![r] = s]
    /\ UNCHANGED <<resp, event>>

\* writeJSON / writeError and return.
Answer(r, code) ==
    /\ pc' = [pc EXCEPT ![r] = "done"]
    /\ resp' = [resp EXCEPT ![r] = code]
    /\ UNCHANGED event

\* The reply to a statement that took effect arrives, or is lost (broken
\* connection, request context cancelled) and the handler answers 500.
GotoOrLost(r, s) == Goto(r, s) \/ Answer(r, 500)

\* The same for the statement that moves the money; from its reply on, the
\* handler knows that the operation succeeded and its event is due.
MovedOrLost(r, s) ==
    \/ /\ pc' = [pc EXCEPT ![r] = s]
       /\ event' = [event EXCEPT ![r] = "due"]
       /\ UNCHANGED resp
    \/ Answer(r, 500)

\* JWT check of the middleware; register and login are not behind it.
Authorized(r) == req[r].op \in {"register", "login"} \/ req[r].user \in tokens

\* The checks a handler makes before it touches the database.
Valid(q) ==
    /\ q.wellFormed
    /\ q.op \in MoneyOps => q.amount > 0 /\ q.cur \in Currencies
    /\ q.op = "exchange" => q.cur # q.to /\ q.to \in Currencies

FirstStep(q) ==
    CASE q.op = "register" -> "createUser"
      [] q.op = "login"    -> "getUser"
      [] OTHER             -> "getWallet"

Receive(r) ==
    /\ pc[r] = "idle"
    /\ \/ ~Authorized(r) /\ Answer(r, 401)
       \/ Authorized(r) /\ ~Valid(req[r]) /\ Answer(r, 400)
       \/ Authorized(r) /\ Valid(req[r]) /\ Goto(r, FirstStep(req[r]))
    /\ UNCHANGED <<tables, money, locals, tokens, crashes>>

-----------------------------------------------------------------------------
(* HandleRegister and HandleLogin *)

\* Mutant: the INSERT is not protected by UNIQUE(username).
Unique_Missing(u) == TRUE
\* No row of table users violates UNIQUE(username); the unique email goes with
\* the name.
Unique(u) == u \notin users

CreateUser(r) ==
    /\ pc[r] = "createUser"
    /\ \/ /\ ~Unique(req[r].user)
          /\ Answer(r, 409)
          /\ UNCHANGED users
       \/ /\ Unique(req[r].user)
          /\ users' = users \cup {req[r].user}
          /\ GotoOrLost(r, "createWallet")
    /\ UNCHANGED <<wallets, rows, money, locals, tokens, crashes>>

CreateWalletForUser(r) ==
    /\ pc[r] = "createWallet"
    /\ wallets' = wallets \cup {req[r].user}
    /\ GotoOrLost(r, "createBalance")
    /\ UNCHANGED <<users, rows, money, locals, tokens, crashes>>

\* Mutant: the loop runs once more.
LastCurrency_OffByOne(i) == i > Len(supportedCurrencies)
LastCurrency(i) == i = Len(supportedCurrencies)

\* One iteration of CreateBalancesForWallet: each INSERT commits by itself.
CreateBalance(r) ==
    LET row == <<req[r].user, supportedCurrencies[step[r]]>> IN
    /\ pc[r] = "createBalance"
    /\ rows' = rows \cup {row}
    /\ \/ /\ ~LastCurrency(step[r])
          /\ step' = [step EXCEPT ![r] = @ + 1]
          /\ GotoOrLost(r, "createBalance")
       \/ /\ LastCurrency(step[r])
          /\ UNCHANGED step
          /\ Answer(r, 201) \/ Answer(r, 500)
    /\ UNCHANGED <<users, wallets, money, req, credit, tokens, crashes>>

\* Login: the user's row is read, the password compared, a JWT issued.
GetUserByUsername(r) ==
    /\ pc[r] = "getUser"
    /\ \/ /\ Answer(r, 401)
          /\ UNCHANGED tokens
       \/ /\ req[r].user \in users
          /\ tokens' = tokens \cup {req[r].user}
          /\ Answer(r, 200)
    /\ UNCHANGED <<tables, money, locals, crashes>>

-----------------------------------------------------------------------------
(* HandleBalance, HandleDeposit, HandleWithdraw, HandleExchange *)

GetWalletIDByUserID(r) ==
    /\ pc[r] = "getWallet"
    /\ \/ req[r].user \notin wallets /\ Answer(r, 404)
       \/ /\ req[r].user \in wallets
          /\ Goto(r, CASE req[r].op = "balance"  -> "getBalances"
                       [] req[r].op = "deposit"  -> "deposit"
                       [] req[r].op = "withdraw" -> "withdraw"
                       [] req[r].op = "exchange" -> "getRate")
    /\ UNCHANGED <<tables, money, locals, tokens, crashes>>

\* Mutant: UPDATEs do not wait for the lock of another transaction.
RowFree_Never(row) == TRUE
\* An UPDATE waits for the transaction that holds the row's lock.
RowFree(row) == lock[row] = NoReq

\* A committed single-row UPDATE and its posting.
CommitRow(r, row, new, delta, leg) ==
    /\ amount' = [amount EXCEPT ![row] = new]
    /\ dirty' = [dirty EXCEPT ![row] = new]
    /\ posted' = [posted EXCEPT ![row] = @ + delta]
    /\ wrote' = [wrote EXCEPT ![r] = {leg}]
    /\ UNCHANGED lock

\* UPDATE ... SET amount = amount + $1: no row is 404, a value beyond
\* NUMERIC(18,2) is an error.
Deposit(r) ==
    LET row == From(r)
        new == AddTo(dirty[row], req[r].amount)
    IN
    /\ pc[r] = "deposit"
    /\ \/ row \notin rows /\ Answer(r, 404) /\ UNCHANGED money
       \/ /\ row \in rows
          /\ RowFree(row)
          /\ \/ new > MaxAmount /\ Answer(r, 500) /\ UNCHANGED money
             \/ /\ new <= MaxAmount
                /\ CommitRow(r, row, new, CreditCents(req[r].amount), "credit")
                /\ MovedOrLost(r, "publish")
    /\ UNCHANGED <<tables, locals, tokens, crashes>>

\* Mutant: the WHERE clause loses AND amount >= $1.
Insufficient_Unchecked(r) == From(r) \notin rows
\* No row matches wallet, currency and amount >= $1.  A row whose committed
\* version does not match is passed over without waiting for its lock.
Insufficient(r) ==
    From(r) \in rows => ~Covers(amount[From(r)], req[r].amount)

Withdraw(r) ==
    LET row == From(r) IN
    /\ pc[r] = "withdraw"
    /\ \/ Insufficient(r) /\ Answer(r, 400) /\ UNCHANGED money
       \/ /\ ~Insufficient(r)
          /\ RowFree(row)
          /\ CommitRow(r, row, TakeFrom(dirty[row], req[r].amount),
                       -DebitCents(req[r].amount), "debit")
          /\ MovedOrLost(r, "publish")
    /\ UNCHANGED <<tables, locals, tokens, crashes>>

\* GetRateWithSource answers a rate, or any of its errors, which are all 400.
GetRateWithSource(r) ==
    /\ pc[r] = "getRate"
    /\ \/ Answer(r, 400) /\ UNCHANGED credit
       \/ \E rate \in Rates :
            /\ credit' = [credit EXCEPT
                            ![r] = ExchangedAmount(req[r].amount, rate)]
            /\ Goto(r, "debit")
    /\ UNCHANGED <<tables, money, req, step, tokens, crashes>>

Held(r) == {x \in Rows : lock[x] = r}

\* Mutant: the locks are released but the written versions stay.
Rollback_KeepsWrites(r) ==
    /\ lock' = [x \in Rows |-> IF x \in Held(r) THEN NoReq ELSE lock[x]]
    /\ UNCHANGED <<amount, dirty, posted, wrote>>
\* Mutant: the deferred Rollback is missing, the connection keeps its locks.
Rollback_Missing(r) == UNCHANGED money
\* The deferred tx.Rollback: written versions are dropped, locks released.
Rollback(r) ==
    /\ dirty' = [x \in Rows |-> IF x \in Held(r) THEN amount[x] ELSE dirty[x]]
    /\ lock' = [x \in Rows |-> IF x \in Held(r) THEN NoReq ELSE lock[x]]
    /\ UNCHANGED <<amount, posted, wrote>>

\* The version of row written by r's transaction.
WriteRow(r, row, new) ==
    /\ lock' = [lock EXCEPT ![row] = r]
    /\ dirty' = [dirty EXCEPT ![row] = new]
    /\ UNCHANGED <<amount, posted, wrote>>

\* Mutant: the debit is committed by itself.
Debit_Autocommit(r) ==
    LET row == From(r) IN
    /\ pc[r] = "debit"
    /\ \/ Insufficient(r) /\ Answer(r, 400) /\ UNCHANGED money
       \/ /\ ~Insufficient(r)
          /\ RowFree(row)
          /\ CommitRow(r, row, TakeFrom(dirty[row], req[r].amount),
                       -DebitCents(req[r].amount), "debit")
          /\ Goto(r, "credit")
    /\ UNCHANGED <<tables, locals, tokens, crashes>>
\* Mutant: RowsAffected() = 0 is not an error.
Debit_RowsUnchecked(r) ==
    LET row == From(r) IN
    /\ pc[r] = "debit"
    /\ \/ Insufficient(r) /\ Goto(r, "credit") /\ UNCHANGED money
       \/ /\ ~Insufficient(r)
          /\ RowFree(row)
          /\ WriteRow(r, row, TakeFrom(dirty[row], req[r].amount))
          /\ Goto(r, "credit")
    /\ UNCHANGED <<tables, locals, tokens, crashes>>
\* Begin and the first UPDATE of Exchange.
Debit(r) ==
    LET row == From(r) IN
    /\ pc[r] = "debit"
    /\ \/ Insufficient(r) /\ Answer(r, 400) /\ UNCHANGED money
       \/ /\ ~Insufficient(r)
          /\ RowFree(row)
          /\ WriteRow(r, row, TakeFrom(dirty[row], req[r].amount))
          /\ Goto(r, "credit")
    /\ UNCHANGED <<tables, locals, tokens, crashes>>

\* The second UPDATE of Exchange.  RowsAffected is not looked at: a missing
\* row is no error.  A value beyond NUMERIC(18,2) is one, and rolls back.
Credit(r) ==
    LET row == To(r)
        new == dirty[row] + credit[r]
    IN
    /\ pc[r] = "credit"
    /\ \/ row \notin rows /\ Goto(r, "commit") /\ UNCHANGED money
       \/ /\ row \in rows
          /\ RowFree(row)
          /\ \/ new > MaxAmount /\ Answer(r, 500) /\ Rollback(r)
             \/ new <= MaxAmount /\ Goto(r, "commit") /\ WriteRow(r, row, new)
    /\ UNCHANGED <<tables, locals, tokens, crashes>>

\* What r's open transaction adds to a row.
Posting(r, row) ==
    CASE row = From(r) -> -DebitCents(req[r].amount)
      [] row = To(r)   -> credit[r]
      [] OTHER         -> 0

Commit(r) ==
    /\ pc[r] = "commit"
    /\ amount' = [x \in Rows |-> IF x \in Held(r) THEN dirty[x] ELSE amount[x]]
    /\ lock' = [x \in Rows |-> IF x \in Held(r) THEN NoReq ELSE lock[x]]
    /\ posted' = [x \in Rows |->
                    posted[x] + (IF x \in Held(r) THEN Posting(r, x) ELSE 0)]
    /\ wrote' = [wrote EXCEPT
                   ![r] = {leg \in Legs :
                             (IF leg = "debit" THEN From(r) ELSE To(r)) \in Held(r)}]
    /\ MovedOrLost(r, "getBalances")
    /\ UNCHANGED <<tables, dirty, locals, tokens, crashes>>

\* HandleBalance's read, and the one Exchange makes after its COMMIT.
GetBalances(r) ==
    /\ pc[r] = "getBalances"
    /\ \/ req[r].op = "balance" /\ Answer(r, 200)
       \/ req[r].op = "exchange" /\ Goto(r, "publish")
    /\ UNCHANGED <<tables, money, locals, tokens, crashes>>

\* Mutant: every operation is published.
IsLarge_Always(r) == TRUE
IsLarge(r) == req[r].amount >= Threshold

\* Publish never fails the request: the event reaches Kafka or is given up.
Publish(r) ==
    /\ pc[r] = "publish"
    /\ event' \in {[event EXCEPT ![r] = f] :
                     f \in IF IsLarge(r) THEN {"sent", "lost"} ELSE {"none"}}
    /\ pc' = [pc EXCEPT ![r] = "done"]
    /\ resp' = [resp EXCEPT ![r] = 200]
    /\ UNCHANGED <<tables, money, locals, tokens, crashes>>

-----------------------------------------------------------------------------
(* Failures *)

\* A statement fails without taking effect, or its context is cancelled.
DBError(r) ==
    /\ pc[r] \in DBSteps
    /\ Rollback(r)
    /\ Answer(r, 500)
    /\ UNCHANGED <<tables, locals, tokens, crashes>>

\* The row the request's next UPDATE locks.
Wanted(r) == IF pc[r] = "credit" THEN To(r) ELSE From(r)

\* r waits for a lock that another request holds.
WaitsFor(r, s) ==
    /\ pc[r] \in {"deposit", "withdraw", "debit", "credit"}
    /\ Wanted(r) \in rows
    /\ lock[Wanted(r)] = s
    /\ pc[r] \in {"withdraw", "debit"} => ~Insufficient(r)

\* PostgreSQL's deadlock detector aborts one transaction of a cycle of waits.
DeadlockAbort(r) ==
    /\ \E S \in SUBSET Requests :
         r \in S /\ \A s \in S : \E t \in S : WaitsFor(s, t)
    /\ Rollback(r)
    /\ Answer(r, 500)
    /\ UNCHANGED <<tables, locals, tokens, crashes>>

\* The service dies: its requests end without an answer, and PostgreSQL rolls
\* back the transactions of its connections.
Crash ==
    /\ crashes < MaxCrashes
    /\ crashes' = crashes + 1
    /\ pc' = [r \in Requests |->
                IF pc[r] \in {"idle"} \cup Ended THEN pc[r] ELSE "dead"]
    /\ dirty' = amount
    /\ lock' = [x \in Rows |-> NoReq]
    /\ UNCHANGED <<tables, amount, posted, wrote, locals, tokens, resp, event>>

-----------------------------------------------------------------------------
(* The handlers: the calls each makes after its checks, failures of the    *)
(* database aside.                                                         *)

HandleRegister(r) == CreateUser(r) \/ CreateWalletForUser(r) \/ CreateBalance(r)

HandleLogin(r) == GetUserByUsername(r)

HandleBalance(r) ==
    /\ req[r].op = "balance"
    /\ GetWalletIDByUserID(r) \/ GetBalances(r)

HandleDeposit(r) ==
    /\ req[r].op = "deposit"
    /\ GetWalletIDByUserID(r) \/ Deposit(r) \/ Publish(r)

HandleWithdraw(r) ==
    /\ req[r].op = "withdraw"
    /\ GetWalletIDByUserID(r) \/ Withdraw(r) \/ Publish(r)

HandleExchange(r) ==
    /\ req[r].op = "exchange"
    /\ \/ GetWalletIDByUserID(r) \/ GetRateWithSource(r)
       \/ Debit(r) \/ Credit(r) \/ Commit(r)
       \/ GetBalances(r) \/ Publish(r)

HandlerStep(r) ==
    \/ HandleRegister(r) \/ HandleLogin(r) \/ HandleBalance(r)
    \/ HandleDeposit(r) \/ HandleWithdraw(r) \/ HandleExchange(r)

\* Every request has ended.
AllEnded == (\A r \in Requests : pc[r] \in Ended) /\ UNCHANGED vars

Next ==
    \/ \E r \in Requests :
        Receive(r) \/ HandlerStep(r) \/ DBError(r) \/ DeadlockAbort(r)
    \/ Crash
    \/ AllEnded

Spec == Init /\ [][Next]_vars

\* A goroutine that can run does run, and PostgreSQL does detect deadlocks.
Fairness == \A r \in Requests : WF_vars(HandlerStep(r) \/ DeadlockAbort(r))
FairSpec == Spec /\ Fairness

-----------------------------------------------------------------------------
(* Properties *)

\* Every variable keeps its type; in particular the loop of
\* CreateBalancesForWallet stays inside supportedCurrencies and locks are only
\* held by requests.
TypeOK ==
    /\ users \subseteq Users
    /\ wallets \subseteq Users
    /\ rows \subseteq Rows
    /\ amount \in [Rows -> Int]
    /\ dirty \in [Rows -> Int]
    /\ lock \in [Rows -> Requests \cup {NoReq}]
    /\ tokens \subseteq Users
    /\ req \in [Requests -> Workload]
    /\ pc \in [Requests -> Steps]
    /\ step \in [Requests -> 1..Len(supportedCurrencies)]
    /\ credit \in [Requests -> Nat]
    /\ resp \in [Requests -> Codes]
    /\ crashes \in 0..MaxCrashes
    /\ posted \in [Rows -> Int]
    /\ wrote \in [Requests -> SUBSET Legs]
    /\ event \in [Requests -> Fates]

\* No balance is ever overdrawn or beyond NUMERIC(18,2), whatever withdrawals,
\* exchanges, rollbacks and crashes interleave (Withdraw and Exchange in
\* repo_auth.go have no other protection than amount >= $1 in their UPDATE).
NoOverdraft ==
    \A x \in Rows : amount[x] \in 0..MaxAmount

\* The version an open transaction has written differs from the committed one
\* by that transaction's own posting, until it commits: nobody changed the row
\* under the transaction of Exchange.  A row nobody holds has no such version.
NoLostUpdate ==
    \A x \in Rows :
        IF lock[x] = NoReq
          THEN dirty[x] = amount[x]
          ELSE /\ pc[lock[x]] \in {"credit", "commit"}
               /\ x \in {From(lock[x]), To(lock[x])}
               /\ dirty[x] = amount[x] + Posting(lock[x], x)

\* Each balance is the sum of what the committed deposits, withdrawals and
\* exchange legs owed it, rounded as NUMERIC(18,2) rounds: no money appears or
\* vanishes by interleaving, rollback or crash.
BooksBalance ==
    \A x \in Rows : amount[x] = posted[x]

\* r has moved the money its operation is about.
Performed(r) ==
    /\ req[r].op = "deposit"  => wrote[r] = {"credit"}
    /\ req[r].op = "withdraw" => wrote[r] = {"debit"}
    /\ req[r].op = "exchange" =>
         IF req[r].user \in OldUsers THEN wrote[r] = Legs
                                     ELSE "debit" \in wrote[r]

\* An HTTP 200 to a deposit, withdrawal or exchange is only written when the
\* database has committed it (for an exchange of a user registered before the
\* start: both legs), and a 4xx only when it has changed nothing.
AnswersAreTrue ==
    \A r \in Requests :
        /\ resp[r] = 200 => Performed(r)
        /\ resp[r] \in {400, 401, 404, 409} => wrote[r] = {}

\* A large-transaction event is only sent for an operation whose money has been
\* committed and that is not below LARGE_TRANSACTION_THRESHOLD, and a large
\* operation answered with 200 has been handed to the publisher.
EventsAreTrue ==
    \A r \in Requests :
        /\ event[r] # "none" => wrote[r] # {}
        /\ event[r] \in {"sent", "lost"} => req[r].amount >= Threshold
        /\ resp[r] = 200 /\ req[r].op \in MoneyOps =>
             (req[r].amount >= Threshold <=> event[r] \in {"sent", "lost"})

\* HandleRegister answers 201 only when user, wallet and all balances are there,
\* and to at most one of the requests that race for one user name.
RegisteredIsComplete ==
    \A r \in Requests : resp[r] = 201 =>
        /\ req[r].user \in users \cap wallets
        /\ {req[r].user} \X Currencies \subseteq rows
        /\ \A s \in Requests \ {r} :
             resp[s] = 201 => req[s].user # req[r].user

\* Every request that enters a handler ends: locks held by Exchange are always
\* released, and circular waits are broken.
EveryRequestEnds ==
    \A r \in Requests : (pc[r] # "idle") ~> (pc[r] \in Ended)

\* The answer of the abstract specification that a status code stands for.
AnswerOf(r) ==
    IF req[r].op \notin MoneyOps THEN "none"
    ELSE CASE resp[r] = 200                    -> "ok"
           [] resp[r] \in {400, 401, 404, 409} -> "refused"
           [] resp[r] = 500                    -> "unknown"
           [] OTHER                            -> "none"

Atomic == INSTANCE AtomicLedger WITH
    Accounts <- Rows,
    open     <- rows,
    applied  <- {r \in Requests : wrote[r] # {}},
    answer   <- [r \in Requests |-> AnswerOf(r)]

\* The service implements the atomic ledger: each deposit, withdrawal and
\* exchange looks like one indivisible step to its clients.
RefinesAtomicLedger == Atomic!Spec

-----------------------------------------------------------------------------
(* What the documentation says and the code does not keep *)

\* README.md: after the exchange USD is 0 and EUR is 92, that is, a successful
\* exchange has credited the target currency, whoever the user is.
ExchangeCredits ==
    \A r \in Requests :
        req[r].op = "exchange" /\ resp[r] = 200 => wrote[r] = Legs

\* README.md: operations not below the threshold are published after they
\* succeeded.  A large operation whose success the handler has seen, and whose
\* request was answered, has been handed to the publisher.
LargePublished ==
    \A r \in Requests :
        pc[r] = "done" /\ req[r].amount >= Threshold => event[r] # "due"
=============================================================================
