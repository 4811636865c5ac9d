----------------------- MODULE WalletRefinementProofs -----------------------
(***************************************************************************)
(* WalletLedger implements AtomicLedger.  A step that commits money is the *)
(* abstract step of its operation, the step that writes a status is the    *)
(* abstract answer, an INSERT into balances opens an account, and every    *)
(* other step is a stutter.                                                *)
(***************************************************************************)
EXTENDS WalletLedgerProofs

\* The abstract state.
Applied == {q \in Requests : wrote[q] # {}}
Answers == [q \in Requests |-> AnswerOf(q)]

LEMMA AbstractVars ==
    /\ Atomic!vars = <<rows, amount, req, Applied, Answers>>
    /\ Atomic!vars' = <<rows', amount', req', Applied', Answers'>>
BY DEF Atomic!vars, Applied, Answers

\* Both levels use the arithmetic of Money.
LEMMA SameArithmetic ==
    ASSUME NEW c \in Int, NEW m \in Int, NEW rate
    PROVE  /\ Atomic!Covers(c, m) = Covers(c, m)
           /\ Atomic!CreditCents(m) = CreditCents(m)
           /\ Atomic!DebitCents(m) = DebitCents(m)
           /\ Atomic!ExchangedAmount(m, rate) = ExchangedAmount(m, rate)
BY DEF Atomic!Covers, Covers, Atomic!Mill, Mill, Atomic!CreditCents, CreditCents,
       Atomic!DebitCents, DebitCents, Atomic!ExchangedAmount, ExchangedAmount

LEMMA InitRefines == Init => Atomic!Init
<1> SUFFICES ASSUME Init PROVE Atomic!Init
  OBVIOUS
<1>1. rows = {acc \in Rows : acc[1] \in OldUsers}
  BY UsersAssumption DEF Init, Rows
<1>2. amount \in [Rows -> 0..MaxAmount]
  BY AmountsAssumption DEF Init
<1>3. Applied = {} /\ Answers = [q \in Requests |-> "none"]
  BY DEF Init, Applied, Answers, AnswerOf
<1> QED BY <1>1, <1>2, <1>3 DEF Atomic!Init, Init, Applied, Answers

\* The statuses of the other requests are not touched.
OthersKept(r) == \A q \in Requests \ {r} : resp'[q] = resp[q]

\* A step of r that moves no money and opens no account.
LEMMA QuietRefines ==
    ASSUME IInv, IInv', NEW r \in Requests, pc[r] # "done", OthersKept(r),
           UNCHANGED <<amount, rows, req, wrote>>
    PROVE  [Atomic!Next]_(Atomic!vars)
<1>1. Applied' = Applied
  BY DEF Applied
<1>2. \A q \in Requests \ {r} : AnswerOf(q)' = AnswerOf(q)
  BY DEF OthersKept, AnswerOf
<1>3. resp[r] = 0 /\ StepInv(r)' /\ resp'[r] \in Codes
  BY DEF IInv, RequestInv, StepInv, TypeOK
<1>4. AnswerOf(r) = "none"
  BY <1>3 DEF AnswerOf
<1>5. CASE AnswerOf(r)' = "none"
  <2>1. Answers' = Answers
    BY <1>2, <1>4, <1>5 DEF Answers
  <2> QED BY <1>1, <2>1, AbstractVars
<1>6. CASE AnswerOf(r)' # "none"
  <2>1. req[r].op \in MoneyOps /\ AnswerOf(r)' \in {"ok", "refused", "unknown"}
    BY <1>6 DEF AnswerOf
  <2>2. Answers' = [Answers EXCEPT ![r] = AnswerOf(r)']
    BY <1>2 DEF Answers
  <2>3. AnswerOf(r)' = "ok" => r \in Applied
    <3>1. ASSUME AnswerOf(r)' = "ok" PROVE resp'[r] = 200
      BY <3>1 DEF AnswerOf
    <3> QED BY <1>3, <2>1, <3>1 DEF StepInv, Performed, MoneyOps, Applied, Legs
  <2>4. AnswerOf(r)' = "refused" => r \notin Applied
    <3>1. ASSUME AnswerOf(r)' = "refused" PROVE resp'[r] \in {400, 401, 404, 409}
      BY <3>1 DEF AnswerOf
    <3> QED BY <1>3, <3>1 DEF StepInv, Applied
  <2>5. Atomic!Answer(r, AnswerOf(r)')
    BY <1>1, <1>4, <2>2, <2>3, <2>4 DEF Atomic!Answer, Applied, Answers
  <2> QED BY <2>1, <2>5 DEF Atomic!Next
<1> QED BY <1>5, <1>6

\* The step of r that commits its money.
LEMMA ApplyRefines ==
    ASSUME IInv, IInv', NEW r \in Requests, pc[r] # "done", OthersKept(r),
           UNCHANGED <<rows, req>>, resp'[r] \in {0, 500},
           wrote[r] = {}, wrote'[r] # {},
           \A q \in Requests \ {r} : wrote'[q] = wrote[q]
    PROVE  Atomic!Apply(r, amount')
<1>1. r \notin Applied /\ Applied' = Applied \cup {r}
  BY DEF Applied
<1>2. \A q \in Requests \ {r} : AnswerOf(q)' = AnswerOf(q)
  BY DEF OthersKept, AnswerOf
<1>3. resp[r] = 0
  BY DEF IInv, RequestInv, StepInv
<1>4. Answers[r] = "none" /\ AnswerOf(r) = "none"
  BY <1>3 DEF Answers, AnswerOf
<1>5. AnswerOf(r)' \in {"none", "unknown"}
  BY DEF AnswerOf
<1>6. Answers' \in {Answers, [Answers EXCEPT ![r] = "unknown"]}
  <2>1. CASE AnswerOf(r)' = "none"
    <3>1. Answers' = Answers
      BY <1>2, <1>4, <2>1 DEF Answers
    <3> QED BY <3>1
  <2>2. CASE AnswerOf(r)' = "unknown"
    <3>1. Answers' = [q \in Requests |-> AnswerOf(q)']
      BY DEF Answers
    <3>2. [Answers EXCEPT ![r] = "unknown"]
            = [q \in Requests |-> IF q = r THEN "unknown" ELSE AnswerOf(q)]
      BY DEF Answers
    <3>3. Answers' = [Answers EXCEPT ![r] = "unknown"]
      BY <1>2, <2>2, <3>1, <3>2
    <3> QED BY <3>3
  <2> QED BY <1>5, <2>1, <2>2
<1>7. amount' \in [Rows -> 0..MaxAmount]
  BY DEF IInv, TypeOK, RowInv, NoOverdraft
<1> QED BY <1>1, <1>4, <1>6, <1>7 DEF Atomic!Apply, Applied, Answers

\* What the step that commits a row, or a transaction, does to pc and resp.
LEMMA MovedKeeps ==
    ASSUME TypeOK, NEW r \in Requests, NEW s \in Steps, MovedOrLost(r, s),
           resp[r] = 0
    PROVE  OthersKept(r) /\ resp'[r] \in {0, 500}
BY MovedOrLostStep DEF Control, At, Told, OthersKept

LEMMA DepositRefines ==
    ASSUME IInv, IInv', NEW r \in Requests, Deposit(r)
    PROVE  [Atomic!Next]_(Atomic!vars)
<1>0. StepInv(r) /\ pc[r] = "deposit" /\ req' = req /\ rows' = rows
  BY DEF IInv, RequestInv, Deposit, locals, tables
<1>1. /\ req[r].op = "deposit" /\ From(r) \in Rows
      /\ req[r].amount \in Int /\ resp[r] = 0 /\ wrote[r] = {}
  BY <1>0, ValidRequest DEF StepInv, MoneyOps, IInv, Ended
<1> DEFINE new == AddTo(dirty[From(r)], req[r].amount)
           delta == CreditCents(req[r].amount)
<1>2. CASE /\ From(r) \in rows /\ lock[From(r)] = NoReq
           /\ CommitRow(r, From(r), new, delta, "credit")
           /\ MovedOrLost(r, "publish")
  <2>1. OthersKept(r) /\ resp'[r] \in {0, 500}
    BY <1>1, <1>2, MovedKeeps, CodesAndSteps DEF IInv
  <2>2. wrote'[r] = {"credit"} /\ \A q \in Requests \ {r} : wrote'[q] = wrote[q]
    BY <1>2 DEF CommitRow, IInv, TypeOK
  <2>3. Atomic!Apply(r, amount')
    BY <1>0, <1>1, <2>1, <2>2, ApplyRefines
  <2>4. new = amount[From(r)] + delta
    BY <1>1, <1>2, AddToCredits DEF IInv, TypeOK, RowInv, NoLostUpdate
  <2>5. amount' = [amount EXCEPT ![From(r)] = @ + CreditCents(req[r].amount)]
    BY <1>2, <2>4 DEF CommitRow
  <2>6. Atomic!Deposit(r)
    BY <1>1, <1>2, <2>3, <2>5, SameArithmetic DEF Atomic!Deposit, Atomic!Apply, Atomic!From, From
  <2> QED BY <2>6 DEF Atomic!Next
<1>3. CASE UNCHANGED money /\ (Answer(r, 404) \/ Answer(r, 500))
  <2>1. OthersKept(r)
    BY <1>3, AnswerStep, CodesAndSteps DEF IInv, Control, OthersKept
  <2> QED BY <1>0, <1>3, <2>1, QuietRefines DEF money
<1> QED BY <1>2, <1>3 DEF Deposit, RowFree

LEMMA WithdrawRefines ==
    ASSUME IInv, IInv', NEW r \in Requests, Withdraw(r)
    PROVE  [Atomic!Next]_(Atomic!vars)
<1>0. StepInv(r) /\ pc[r] = "withdraw" /\ req' = req /\ rows' = rows
  BY DEF IInv, RequestInv, Withdraw, locals, tables
<1>1. /\ req[r].op = "withdraw" /\ From(r) \in Rows
      /\ req[r].amount \in Int /\ resp[r] = 0 /\ wrote[r] = {}
  BY <1>0, ValidRequest DEF StepInv, MoneyOps, IInv, Ended
<1> DEFINE new == TakeFrom(dirty[From(r)], req[r].amount)
           delta == -DebitCents(req[r].amount)
<1>2. CASE /\ ~Insufficient(r) /\ lock[From(r)] = NoReq
           /\ CommitRow(r, From(r), new, delta, "debit")
           /\ MovedOrLost(r, "publish")
  <2>1. OthersKept(r) /\ resp'[r] \in {0, 500}
    BY <1>1, <1>2, MovedKeeps, CodesAndSteps DEF IInv
  <2>2. wrote'[r] = {"debit"} /\ \A q \in Requests \ {r} : wrote'[q] = wrote[q]
    BY <1>2 DEF CommitRow, IInv, TypeOK
  <2>3. Atomic!Apply(r, amount')
    BY <1>0, <1>1, <2>1, <2>2, ApplyRefines
  <2>4. new = amount[From(r)] - DebitCents(req[r].amount)
    BY <1>1, <1>2, TakeFromDebits DEF IInv, TypeOK, RowInv, NoLostUpdate
  <2>5. amount' = [amount EXCEPT ![From(r)] = @ - DebitCents(req[r].amount)]
    BY <1>2, <2>4 DEF CommitRow
  <2>6. From(r) \in rows /\ Covers(amount[From(r)], req[r].amount)
    BY <1>2 DEF Insufficient
  <2>7. amount[From(r)] \in Int
    BY <1>1 DEF IInv, TypeOK
  <2>8. Atomic!Withdraw(r)
    BY <1>1, <2>3, <2>5, <2>6, <2>7, SameArithmetic DEF Atomic!Withdraw, Atomic!Apply, Atomic!From, From
  <2> QED BY <2>8 DEF Atomic!Next
<1>3. CASE UNCHANGED money /\ Answer(r, 400)
  <2>1. OthersKept(r)
    BY <1>3, AnswerStep, CodesAndSteps DEF IInv, Control, OthersKept
  <2> QED BY <1>0, <1>3, <2>1, QuietRefines DEF money
<1> QED BY <1>2, <1>3 DEF Withdraw, RowFree

\* COMMIT is the abstract exchange: the rows still have the versions that were
\* there when the two UPDATEs of the transaction read them.
LEMMA CommitRefines ==
    ASSUME IInv, IInv', NEW r \in Requests, Commit(r)
    PROVE  [Atomic!Next]_(Atomic!vars)
<1>0. /\ StepInv(r) /\ pc[r] = "commit" /\ req' = req /\ rows' = rows
      /\ lock[From(r)] = r
  BY DEF IInv, RequestInv, HoldInv, Commit, locals, tables
<1>1. /\ req[r].op = "exchange" /\ From(r) \in Rows /\ To(r) \in Rows
      /\ To(r) # From(r) /\ req[r].amount \in Int /\ req[r].amount > 0
      /\ resp[r] = 0 /\ wrote[r] = {}
  BY <1>0, ValidRequest DEF StepInv, MoneyOps, IInv, Ended
<1>2. OthersKept(r) /\ resp'[r] \in {0, 500}
  BY <1>1, MovedKeeps, CodesAndSteps DEF IInv, Commit, DBSteps
<1>3. wrote'[r] # {} /\ \A q \in Requests \ {r} : wrote'[q] = wrote[q]
  <2>1. "debit" \in wrote'[r]
    BY <1>0, <1>1 DEF Commit, Held, Legs, IInv, TypeOK
  <2> QED BY <2>1 DEF Commit, IInv, TypeOK
<1>4. Atomic!Apply(r, amount')
  BY <1>0, <1>1, <1>2, <1>3, ApplyRefines
<1>5. \A x \in Rows : lock[x] = r => /\ x \in rows /\ x \in {From(r), To(r)}
                                     /\ dirty[x] = amount[x] + Posting(r, x)
  BY NoReqAssumption DEF IInv, RowInv, NoLostUpdate
<1>6. /\ Posting(r, From(r)) = -DebitCents(req[r].amount)
      /\ Posting(r, To(r)) = credit[r]
      /\ DebitCents(req[r].amount) \in Nat
      /\ amount[From(r)] \in Int /\ amount[To(r)] \in Int
  BY <1>1, CentsType DEF Posting, IInv, TypeOK
<1>7. /\ From(r) \in rows
      /\ dirty[From(r)] = amount[From(r)] - DebitCents(req[r].amount)
      /\ dirty[From(r)] >= 0
  BY <1>0, <1>1, <1>5, <1>6 DEF IInv, RowInv
<1>8. Covers(amount[From(r)], req[r].amount)
  BY <1>0 DEF IInv, HoldInv
<1>9. CASE lock[To(r)] = r
  <2>1. PICK rate \in Rates : credit[r] = ExchangedAmount(req[r].amount, rate)
    BY <1>0 DEF StepInv
  <2>2. dirty[To(r)] = amount[To(r)] + credit[r] /\ To(r) \in rows
    BY <1>1, <1>5, <1>6, <1>9
  <2>3. amount' = [amount EXCEPT ![From(r)] = @ - DebitCents(req[r].amount),
                                 ![To(r)] = @ + credit[r]]
    BY <1>0, <1>1, <1>5, <1>7, <1>9, <2>2 DEF Commit, Held, IInv, TypeOK
  <2>4. Atomic!Exchange(r, rate)
    BY <1>1, <1>4, <1>6, <1>7, <1>8, <2>1, <2>2, <2>3, SameArithmetic
       DEF Atomic!Exchange, Atomic!Apply, Atomic!From, Atomic!To, From, To
  <2> QED BY <2>4 DEF Atomic!Next
<1>10. CASE lock[To(r)] # r
  <2>1. req[r].user \notin OldUsers
    BY <1>0, <1>10 DEF IInv, HoldInv
  <2>2. amount' = [amount EXCEPT ![From(r)] = @ - DebitCents(req[r].amount)]
    BY <1>0, <1>1, <1>5, <1>7, <1>10 DEF Commit, Held, IInv, TypeOK
  <2>3. Atomic!ExchangeUncredited(r)
    BY <1>1, <1>4, <1>6, <1>7, <1>8, <2>1, <2>2, SameArithmetic
       DEF Atomic!ExchangeUncredited, Atomic!Apply, Atomic!From, From
  <2> QED BY <2>3 DEF Atomic!Next
<1> QED BY <1>9, <1>10

LEMMA CreateBalanceRefines ==
    ASSUME IInv, IInv', NEW r \in Requests, CreateBalance(r)
    PROVE  [Atomic!Next]_(Atomic!vars)
<1> DEFINE row == <<req[r].user, supportedCurrencies[step[r]]>>
<1>1. /\ req[r].op = "register" /\ UNCHANGED <<amount, req, wrote>>
      /\ rows' = rows \cup {row}
  BY DEF IInv, RequestInv, StepInv, CreateBalance, money
<1>2. row \in Rows
  BY CurrencyAt, WorkloadAssumption DEF IInv, TypeOK, Rows
<1>3. OthersKept(r)
  BY CodesAndSteps, AnswerStep, GotoOrLostStep
     DEF CreateBalance, DBSteps, IInv, Control, OthersKept
<1>4. Applied' = Applied
  BY <1>1 DEF Applied
<1>5. \A q \in Requests : AnswerOf(q)' = AnswerOf(q)
  BY <1>1, <1>3 DEF OthersKept, AnswerOf, MoneyOps
<1>6. Answers' = Answers
  BY <1>5 DEF Answers
<1>7. CASE row \in rows
  BY <1>1, <1>4, <1>6, <1>7, AbstractVars
<1>8. CASE row \notin rows
  <2>1. Atomic!Open(row)
    BY <1>1, <1>4, <1>6, <1>8 DEF Atomic!Open, Applied, Answers
  <2> QED BY <1>2, <2>1 DEF Atomic!Next
<1> QED BY <1>7, <1>8

\* The steps that only read, decide or insert into users and wallets.
LEMMA ControlRefines ==
    ASSUME IInv, IInv', NEW r \in Requests,
           \/ Receive(r) \/ CreateUser(r) \/ CreateWalletForUser(r)
           \/ GetUserByUsername(r) \/ GetWalletIDByUserID(r)
           \/ GetRateWithSource(r) \/ GetBalances(r)
    PROVE  [Atomic!Next]_(Atomic!vars)
<1>1. pc[r] # "done" /\ UNCHANGED <<amount, rows, req, wrote>>
  BY DEF Receive, CreateUser, CreateWalletForUser, GetUserByUsername,
         GetWalletIDByUserID, GetRateWithSource, GetBalances, tables, money, locals
<1>2. (\E s : Goto(r, s)) \/ (\E c : Answer(r, c))
  BY DEF Receive, CreateUser, CreateWalletForUser, GetUserByUsername,
         GetWalletIDByUserID, GetRateWithSource, GetBalances, GotoOrLost
<1>3. OthersKept(r)
  BY <1>2 DEF OthersKept, Goto, Answer, IInv, TypeOK
<1> QED BY <1>1, <1>3, QuietRefines

LEMMA PublishRefines ==
    ASSUME IInv, IInv', NEW r \in Requests, Publish(r)
    PROVE  [Atomic!Next]_(Atomic!vars)
<1>1. pc[r] # "done" /\ UNCHANGED <<amount, rows, req, wrote>>
  BY DEF Publish, tables, money, locals
<1>2. OthersKept(r)
  BY DEF OthersKept, Publish, IInv, TypeOK
<1> QED BY <1>1, <1>2, QuietRefines

\* The UPDATEs inside a transaction and its rollback are invisible.
LEMMA TransactionRefines ==
    ASSUME IInv, IInv', NEW r \in Requests,
           Debit(r) \/ Credit(r) \/ DBError(r) \/ DeadlockAbort(r)
    PROVE  [Atomic!Next]_(Atomic!vars)
<1>1. pc[r] # "done"
  BY DEF Debit, Credit, DBError, DBSteps, DeadlockAbort, WaitsFor
<1>2. UNCHANGED <<amount, rows, req, wrote>>
  BY DEF Debit, Credit, DBError, DeadlockAbort, Rollback, WriteRow, tables, money, locals
<1>3. (\E s : Goto(r, s)) \/ (\E c : Answer(r, c))
  BY DEF Debit, Credit, DBError, DeadlockAbort
<1>4. OthersKept(r)
  BY <1>3 DEF OthersKept, Goto, Answer, IInv, TypeOK
<1> QED BY <1>1, <1>2, <1>4, QuietRefines

\* Every step of the service is a step of the atomic ledger or invisible in it.
LEMMA NextRefines == IInv /\ IInv' /\ [Next]_vars => [Atomic!Next]_(Atomic!vars)
<1> SUFFICES ASSUME IInv, IInv', [Next]_vars PROVE [Atomic!Next]_(Atomic!vars)
  OBVIOUS
<1>1. CASE UNCHANGED <<rows, amount, req, wrote, resp>>
  <2>1. Applied' = Applied /\ Answers' = Answers
    BY <1>1 DEF Applied, Answers, AnswerOf
  <2> QED BY <1>1, <2>1, AbstractVars
<1>2. CASE UNCHANGED vars
  BY <1>1, <1>2 DEF vars, tables, money, locals
<1>3. CASE Crash
  BY <1>1, <1>3 DEF Crash, tables, locals
<1>4. ASSUME NEW r \in Requests,
             Receive(r) \/ HandlerStep(r) \/ DBError(r) \/ DeadlockAbort(r)
      PROVE  [Atomic!Next]_(Atomic!vars)
  BY <1>4, ControlRefines, CreateBalanceRefines, DepositRefines, WithdrawRefines,
     CommitRefines, PublishRefines, TransactionRefines DEF HandlerStep, HandleRegister, HandleLogin,
     HandleBalance, HandleDeposit, HandleWithdraw, HandleExchange
<1> QED BY <1>2, <1>3, <1>4 DEF Next, AllEnded

\* Deposits, withdrawals and exchanges of the wallet service are atomic for its
\* clients: for every workload, the service implements AtomicLedger.
THEOREM ImplementsAtomicLedger == Spec => RefinesAtomicLedger
<1>1. Spec => []IInv
  BY Invariance
<1> QED BY <1>1, InitRefines, NextRefines, PTL DEF Spec, RefinesAtomicLedger, Atomic!Spec
=============================================================================
