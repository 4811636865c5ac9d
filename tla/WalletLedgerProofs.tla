------------------------- MODULE WalletLedgerProofs -------------------------
(* Theorems about WalletLedger, for every value of its constants.          *)
EXTENDS WalletLedger, TLAPS

-----------------------------------------------------------------------------
(* Arithmetic *)

\* Adding an unrounded amount to a whole number of cents and rounding adds the
\* rounded amount.
LEMMA AddToCredits ==
    ASSUME NEW c \in Int, NEW m \in Int
    PROVE  AddTo(c, m) = c + CreditCents(m)
BY DEF AddTo, ToNumeric, Mill, CreditCents

\* Subtracting rounds the half cent the other way.
LEMMA TakeFromDebits ==
    ASSUME NEW c \in Int, NEW m \in Int
    PROVE  TakeFrom(c, m) = c - DebitCents(m)
BY DEF TakeFrom, ToNumeric, Mill, DebitCents

\* A covered debit leaves a balance between zero and the old balance.
LEMMA CoveredDebit ==
    ASSUME NEW c \in Int, NEW m \in Int, m > 0, Covers(c, m)
    PROVE  c - DebitCents(m) \in 0..c
BY DEF Covers, Mill, DebitCents

\* The cents of a positive amount are natural numbers.
LEMMA CentsType ==
    ASSUME NEW m \in Int, m > 0
    PROVE  CreditCents(m) \in Nat /\ DebitCents(m) \in Nat
BY DEF CreditCents, DebitCents

LEMMA ExchangedAmountType ==
    ASSUME NEW m \in Int, m > 0, NEW rate \in Nat
    PROVE  ExchangedAmount(m, rate) \in Nat
<1>1. m * rate \in Nat
  OBVIOUS
<1>2. ASSUME NEW p \in Nat PROVE (p + 500) \div 1000 \in Nat
  OBVIOUS
<1> QED BY <1>1, <1>2 DEF ExchangedAmount
-----------------------------------------------------------------------------
(* The inductive invariant *)

\* The committed balances and the uncommitted versions.
RowInv ==
    /\ NoOverdraft
    /\ NoLostUpdate
    /\ BooksBalance
    /\ \A x \in Rows : dirty[x] \in 0..MaxAmount
    /\ \A x \in Rows : lock[x] # NoReq => x \in rows

\* Which locks the transaction of an exchange holds at which step.
HoldInv ==
    /\ OldUsers \X Currencies \subseteq rows
    /\ \A r \in Requests :
        /\ pc[r] \in {"credit", "commit"} =>
             lock[From(r)] = r /\ Covers(amount[From(r)], req[r].amount)
        /\ pc[r] = "credit" => lock[To(r)] # r
        /\ pc[r] = "commit" /\ req[r].user \in OldUsers => lock[To(r)] = r

\* Where a request is in its handler, and what it has committed by then.
StepInv(r) ==
    /\ pc[r] \in {"createUser", "createWallet", "createBalance"} =>
         req[r].op = "register"
    /\ pc[r] = "getUser" => req[r].op = "login"
    /\ pc[r] = "getWallet" =>
         req[r].op \in {"balance"} \cup MoneyOps /\ Valid(req[r])
    /\ pc[r] = "deposit" => req[r].op = "deposit" /\ Valid(req[r])
    /\ pc[r] = "withdraw" => req[r].op = "withdraw" /\ Valid(req[r])
    /\ pc[r] \in {"getRate", "debit", "credit", "commit"} =>
         req[r].op = "exchange" /\ Valid(req[r])
    /\ pc[r] \in {"debit", "credit", "commit"} =>
         \E rate \in Rates : credit[r] = ExchangedAmount(req[r].amount, rate)
    /\ pc[r] = "getBalances" => req[r].op \in {"balance", "exchange"}
    /\ pc[r] = "publish" => req[r].op \in MoneyOps
    /\ pc[r] \in {"getBalances", "publish"} => Performed(r)
    /\ wrote[r] # {} => /\ req[r].op \in MoneyOps
                        /\ pc[r] \in {"getBalances", "publish"} \cup Ended
    /\ resp[r] # 0 <=> pc[r] = "done"
    /\ resp[r] = 200 => Performed(r)
    /\ resp[r] \in {400, 401, 404, 409} => wrote[r] = {}

RequestInv == \A r \in Requests : StepInv(r)

IInv == TypeOK /\ RowInv /\ HoldInv /\ RequestInv

-----------------------------------------------------------------------------
(* Facts about valid requests *)

LEMMA RowsType ==
    ASSUME NEW x \in Rows
    PROVE  x[1] \in Users /\ x[2] \in Currencies /\ x = <<x[1], x[2]>>
BY DEF Rows

LEMMA CurrencyAt ==
    ASSUME NEW i \in 1..Len(supportedCurrencies)
    PROVE  supportedCurrencies[i] \in Currencies
BY DEF Currencies

\* A validated request is about rows of the ledger and a positive amount.
LEMMA ValidRequest ==
    ASSUME TypeOK, NEW r \in Requests, req[r].op \in MoneyOps, Valid(req[r])
    PROVE  /\ From(r) \in Rows
           /\ req[r].amount \in Int /\ req[r].amount > 0
           /\ req[r].op = "exchange" => To(r) \in Rows /\ To(r) # From(r)
<1>1. req[r] \in Workload
  BY DEF TypeOK
<1>2. req[r].user \in Users /\ req[r].amount \in Int
  BY <1>1, WorkloadAssumption
<1>3. req[r].amount > 0 /\ req[r].cur \in Currencies
  BY DEF Valid
<1>4. req[r].op = "exchange" => req[r].cur # req[r].to /\ req[r].to \in Currencies
  BY DEF Valid
<1> QED BY <1>2, <1>3, <1>4 DEF From, To, Rows

-----------------------------------------------------------------------------
(* Initial states *)

LEMMA InitIInv == Init => IInv
<1> SUFFICES ASSUME Init PROVE IInv
  OBVIOUS
<1> USE UsersAssumption, NoReqAssumption, AmountsAssumption, CurrenciesAssumption
<1>0. 1 \in 1..Len(supportedCurrencies)
  OBVIOUS
<1>1. OldUsers \X Currencies \subseteq Rows
  BY DEF Rows
<1>2. amount \in [Rows -> 0..MaxAmount]
  BY DEF Init
<1>3. TypeOK
  <2>1. amount \in [Rows -> Int] /\ dirty \in [Rows -> Int] /\ posted \in [Rows -> Int]
    BY <1>2 DEF Init
  <2>2. users \subseteq Users /\ wallets \subseteq Users /\ rows \subseteq Rows
        /\ tokens \subseteq Users
    BY <1>1 DEF Init
  <2>3. /\ lock \in [Rows -> Requests \cup {NoReq}]
        /\ req \in [Requests -> Workload]
        /\ pc \in [Requests -> Steps]
        /\ event \in [Requests -> Fates]
        /\ wrote \in [Requests -> SUBSET Legs]
    BY DEF Init, Steps, Fates
  <2>4. /\ step \in [Requests -> 1..Len(supportedCurrencies)]
        /\ credit \in [Requests -> Nat]
        /\ resp \in [Requests -> Codes]
        /\ crashes \in 0..MaxCrashes
    BY <1>0 DEF Init, Codes
  <2> QED BY <2>1, <2>2, <2>3, <2>4 DEF TypeOK
<1>4. RowInv
  BY <1>2 DEF Init, RowInv, NoOverdraft, NoLostUpdate, BooksBalance
<1>5. HoldInv
  BY DEF Init, HoldInv
<1>6. RequestInv
  BY DEF Init, RequestInv, StepInv, Performed
<1> QED BY <1>3, <1>4, <1>5, <1>6 DEF IInv

-----------------------------------------------------------------------------
(* Steps that leave the ledger alone *)

\* A step of r that touches no other request.
Frame(r) ==
    /\ req' = req
    /\ \A s \in Requests \ {r} :
         /\ pc'[s] = pc[s] /\ credit'[s] = credit[s]
         /\ wrote'[s] = wrote[s] /\ resp'[s] = resp[s]

\* A step of r that neither writes a row nor enters or leaves the transaction.
Quiet(r) ==
    /\ Frame(r)
    /\ UNCHANGED <<amount, dirty, lock, posted>>
    /\ rows \subseteq rows'
    /\ {pc[r], pc'[r]} \cap {"credit", "commit"} = {}

LEMMA FrameStep ==
    ASSUME IInv, NEW r \in Requests, Frame(r), StepInv(r)'
    PROVE  RequestInv'
<1> SUFFICES ASSUME NEW s \in Requests, s # r PROVE StepInv(s)'
  BY DEF RequestInv
<1>1. StepInv(s)
  BY DEF IInv, RequestInv
<1>2. /\ req'[s] = req[s] /\ pc'[s] = pc[s] /\ credit'[s] = credit[s]
      /\ wrote'[s] = wrote[s] /\ resp'[s] = resp[s]
  BY DEF Frame
<1> QED BY <1>1, <1>2 DEF StepInv, Performed

LEMMA QuietStep ==
    ASSUME IInv, NEW r \in Requests, Quiet(r)
    PROVE  RowInv' /\ HoldInv'
<1> USE DEF IInv, Quiet, Frame
<1>1. \A s \in Requests : From(s)' = From(s) /\ To(s)' = To(s)
  BY DEF From, To
<1>2. \A x \in Rows : lock[x] # NoReq =>
        /\ lock[x] \in Requests \ {r}
        /\ Posting(lock[x], x)' = Posting(lock[x], x)
  <2> SUFFICES ASSUME NEW x \in Rows, lock[x] # NoReq
               PROVE  /\ lock[x] \in Requests \ {r}
                      /\ Posting(lock[x], x)' = Posting(lock[x], x)
    OBVIOUS
  <2>1. lock[x] \in Requests
    BY DEF TypeOK
  <2>2. pc[lock[x]] \in {"credit", "commit"}
    BY DEF RowInv, NoLostUpdate
  <2>3. lock[x] # r
    BY <2>2
  <2> QED BY <2>1, <2>3, <1>1 DEF Posting
<1>3. RowInv'
  BY <1>1, <1>2 DEF RowInv, NoOverdraft, NoLostUpdate, BooksBalance
<1>4. HoldInv'
  BY <1>1 DEF HoldInv
<1> QED BY <1>3, <1>4

-----------------------------------------------------------------------------
(* Control of one handler *)

\* pc, resp and event keep their types and other requests theirs.
Control(r) ==
    /\ pc' \in [Requests -> Steps]
    /\ resp' \in [Requests -> Codes]
    /\ event' \in [Requests -> Fates]
    /\ \A q \in Requests \ {r} : pc'[q] = pc[q] /\ resp'[q] = resp[q]

\* r goes on to step s, or has been answered with code.
At(r, s) == pc'[r] = s /\ resp'[r] = resp[r]
Told(r, code) == pc'[r] = "done" /\ resp'[r] = code

LEMMA GotoStep ==
    ASSUME TypeOK, NEW r \in Requests, NEW s \in Steps, Goto(r, s)
    PROVE  Control(r) /\ At(r, s)
BY DEF TypeOK, Goto, Control, At

LEMMA AnswerStep ==
    ASSUME TypeOK, NEW r \in Requests, NEW c \in Codes, Answer(r, c)
    PROVE  Control(r) /\ Told(r, c)
<1>1. "done" \in Steps
  BY DEF Steps, Ended
<1> QED BY <1>1 DEF TypeOK, Answer, Control, Told

LEMMA GotoOrLostStep ==
    ASSUME TypeOK, NEW r \in Requests, NEW s \in Steps, GotoOrLost(r, s)
    PROVE  Control(r) /\ (At(r, s) \/ Told(r, 500))
<1>1. 500 \in Codes
  BY DEF Codes
<1> QED BY <1>1, GotoStep, AnswerStep DEF GotoOrLost

LEMMA MovedOrLostStep ==
    ASSUME TypeOK, NEW r \in Requests, NEW s \in Steps, MovedOrLost(r, s)
    PROVE  Control(r) /\ (At(r, s) \/ Told(r, 500))
<1>1. 500 \in Codes
  BY DEF Codes
<1>2. CASE Answer(r, 500)
  BY <1>1, <1>2, AnswerStep
<1>3. CASE /\ pc' = [pc EXCEPT ![r] = s]
           /\ event' = [event EXCEPT ![r] = "due"]
           /\ UNCHANGED resp
  BY <1>3 DEF TypeOK, Control, At, Fates
<1> QED BY <1>2, <1>3 DEF MovedOrLost

\* The members of Codes and Steps, for the provers.
LEMMA CodesAndSteps ==
    /\ {200, 201, 400, 401, 404, 409, 500} \subseteq Codes
    /\ DBSteps \subseteq Steps
    /\ {"idle", "getRate", "publish", "done", "dead"} \subseteq Steps
BY DEF Codes, Steps, Ended

-----------------------------------------------------------------------------
(* One lemma per action *)

LEMMA ReceiveStep ==
    ASSUME IInv, NEW r \in Requests, Receive(r)
    PROVE  IInv'
<1> USE DEF IInv
<1>1. req[r] \in Workload /\ req[r].user \in Users /\ req[r].op \in Ops
  BY WorkloadAssumption DEF TypeOK
<1>2. Control(r)
  BY CodesAndSteps, GotoStep, AnswerStep, GotoOrLostStep DEF Receive, FirstStep, DBSteps
<1>3. \/ Told(r, 401)
      \/ Told(r, 400)
      \/ At(r, FirstStep(req[r])) /\ Valid(req[r])
  <2>1. CASE ~Authorized(r) /\ Answer(r, 401)
    BY <2>1, CodesAndSteps, AnswerStep
  <2>2. CASE Authorized(r) /\ ~Valid(req[r]) /\ Answer(r, 400)
    BY <2>2, CodesAndSteps, AnswerStep
  <2>3. CASE Valid(req[r]) /\ Goto(r, FirstStep(req[r]))
    <3>1. FirstStep(req[r]) \in Steps
      BY CodesAndSteps DEF FirstStep, DBSteps
    <3> QED BY <2>3, <3>1, GotoStep
  <2> QED BY <2>1, <2>2, <2>3 DEF Receive
<1>4. /\ UNCHANGED <<amount, dirty, lock, posted, wrote, req, step, credit, crashes>>
      /\ users' \subseteq Users /\ wallets' \subseteq Users
      /\ rows' = rows /\ tokens' \subseteq Users
  BY <1>1 DEF Receive, TypeOK, tables, money, locals
<1>5. TypeOK'
  BY <1>2, <1>4 DEF TypeOK, Control
<1>6. StepInv(r)
  BY DEF RequestInv
<1>7. StepInv(r)'
  BY <1>1, <1>3, <1>4, <1>6 DEF At, Told, StepInv, Performed, Receive, Ended, FirstStep, Ops, MoneyOps
<1>8. Quiet(r)
  BY <1>1, <1>2, <1>3, <1>4, <1>6 DEF At, Told, Quiet, Frame, Control, Receive, StepInv, FirstStep, Ops, MoneyOps
<1> QED BY <1>5, <1>7, <1>8, FrameStep, QuietStep DEF Quiet

LEMMA CreateUserStep ==
    ASSUME IInv, NEW r \in Requests, CreateUser(r)
    PROVE  IInv'
<1> USE DEF IInv
<1>1. req[r] \in Workload /\ req[r].user \in Users /\ req[r].op \in Ops
  BY WorkloadAssumption DEF TypeOK
<1>2. Control(r)
  BY CodesAndSteps, GotoStep, AnswerStep, GotoOrLostStep DEF CreateUser, DBSteps
<1>3. Told(r, 409) \/ Told(r, 500) \/ At(r, "createWallet")
  BY CodesAndSteps, GotoStep, AnswerStep, GotoOrLostStep DEF CreateUser, DBSteps
<1>4. /\ UNCHANGED <<amount, dirty, lock, posted, wrote, req, step, credit, crashes>>
      /\ users' \subseteq Users /\ wallets' \subseteq Users
      /\ rows' = rows /\ tokens' \subseteq Users
  BY <1>1 DEF CreateUser, TypeOK, tables, money, locals
<1>5. TypeOK'
  BY <1>2, <1>4 DEF TypeOK, Control
<1>6. StepInv(r)
  BY DEF RequestInv
<1>7. StepInv(r)'
  BY <1>1, <1>3, <1>4, <1>6 DEF At, Told, StepInv, Performed, CreateUser, Ended
<1>8. Quiet(r)
  BY <1>1, <1>2, <1>3, <1>4, <1>6 DEF At, Told, Quiet, Frame, Control, CreateUser, StepInv
<1> QED BY <1>5, <1>7, <1>8, FrameStep, QuietStep DEF Quiet

LEMMA CreateWalletForUserStep ==
    ASSUME IInv, NEW r \in Requests, CreateWalletForUser(r)
    PROVE  IInv'
<1> USE DEF IInv
<1>1. req[r] \in Workload /\ req[r].user \in Users /\ req[r].op \in Ops
  BY WorkloadAssumption DEF TypeOK
<1>2. Control(r)
  BY CodesAndSteps, GotoStep, AnswerStep, GotoOrLostStep DEF CreateWalletForUser, DBSteps
<1>3. Told(r, 500) \/ At(r, "createBalance")
  BY CodesAndSteps, GotoStep, AnswerStep, GotoOrLostStep DEF CreateWalletForUser, DBSteps
<1>4. /\ UNCHANGED <<amount, dirty, lock, posted, wrote, req, step, credit, crashes>>
      /\ users' \subseteq Users /\ wallets' \subseteq Users
      /\ rows' = rows /\ tokens' \subseteq Users
  BY <1>1 DEF CreateWalletForUser, TypeOK, tables, money, locals
<1>5. TypeOK'
  BY <1>2, <1>4 DEF TypeOK, Control
<1>6. StepInv(r)
  BY DEF RequestInv
<1>7. StepInv(r)'
  BY <1>1, <1>3, <1>4, <1>6 DEF At, Told, StepInv, Performed, CreateWalletForUser, Ended
<1>8. Quiet(r)
  BY <1>1, <1>2, <1>3, <1>4, <1>6 DEF At, Told, Quiet, Frame, Control, CreateWalletForUser, StepInv
<1> QED BY <1>5, <1>7, <1>8, FrameStep, QuietStep DEF Quiet

LEMMA GetUserByUsernameStep ==
    ASSUME IInv, NEW r \in Requests, GetUserByUsername(r)
    PROVE  IInv'
<1> USE DEF IInv
<1>1. req[r] \in Workload /\ req[r].user \in Users /\ req[r].op \in Ops
  BY WorkloadAssumption DEF TypeOK
<1>2. Control(r)
  BY CodesAndSteps, GotoStep, AnswerStep, GotoOrLostStep DEF GetUserByUsername
<1>3. Told(r, 401) \/ Told(r, 200)
  BY CodesAndSteps, GotoStep, AnswerStep, GotoOrLostStep DEF GetUserByUsername
<1>4. /\ UNCHANGED <<amount, dirty, lock, posted, wrote, req, step, credit, crashes>>
      /\ users' \subseteq Users /\ wallets' \subseteq Users
      /\ rows' = rows /\ tokens' \subseteq Users
  BY <1>1 DEF GetUserByUsername, TypeOK, tables, money, locals
<1>5. TypeOK'
  BY <1>2, <1>4 DEF TypeOK, Control
<1>6. StepInv(r)
  BY DEF RequestInv
<1>7. StepInv(r)'
  BY <1>1, <1>3, <1>4, <1>6 DEF At, Told, StepInv, Performed, GetUserByUsername, Ended
<1>8. Quiet(r)
  BY <1>1, <1>2, <1>3, <1>4, <1>6 DEF At, Told, Quiet, Frame, Control, GetUserByUsername, StepInv
<1> QED BY <1>5, <1>7, <1>8, FrameStep, QuietStep DEF Quiet

LEMMA GetWalletIDByUserIDStep ==
    ASSUME IInv, NEW r \in Requests, GetWalletIDByUserID(r)
    PROVE  IInv'
<1> USE DEF IInv
<1>1. req[r] \in Workload /\ req[r].user \in Users /\ req[r].op \in Ops
  BY WorkloadAssumption DEF TypeOK
<1>2. Control(r)
  BY CodesAndSteps, GotoStep, AnswerStep, GotoOrLostStep DEF GetWalletIDByUserID, DBSteps, RequestInv, StepInv, MoneyOps
<1>3. \/ Told(r, 404)
      \/ req[r].op = "balance" /\ At(r, "getBalances")
      \/ req[r].op = "deposit" /\ At(r, "deposit")
      \/ req[r].op = "withdraw" /\ At(r, "withdraw")
      \/ req[r].op = "exchange" /\ At(r, "getRate")
  <2>1. CASE Answer(r, 404)
    BY <2>1, CodesAndSteps, AnswerStep
  <2>2. req[r].op \in {"balance", "deposit", "withdraw", "exchange"}
    BY DEF GetWalletIDByUserID, RequestInv, StepInv, MoneyOps
  <2>3. CASE req[r].op = "balance" /\ Goto(r, "getBalances")
    BY <2>3, CodesAndSteps, GotoStep DEF DBSteps
  <2>4. CASE req[r].op = "deposit" /\ Goto(r, "deposit")
    BY <2>4, CodesAndSteps, GotoStep DEF DBSteps
  <2>5. CASE req[r].op = "withdraw" /\ Goto(r, "withdraw")
    BY <2>5, CodesAndSteps, GotoStep DEF DBSteps
  <2>6. CASE req[r].op = "exchange" /\ Goto(r, "getRate")
    BY <2>6, CodesAndSteps, GotoStep
  <2> QED BY <2>1, <2>2, <2>3, <2>4, <2>5, <2>6 DEF GetWalletIDByUserID
<1>4. /\ UNCHANGED <<amount, dirty, lock, posted, wrote, req, step, credit, crashes>>
      /\ users' \subseteq Users /\ wallets' \subseteq Users
      /\ rows' = rows /\ tokens' \subseteq Users
  BY <1>1 DEF GetWalletIDByUserID, TypeOK, tables, money, locals
<1>5. TypeOK'
  BY <1>2, <1>4 DEF TypeOK, Control
<1>6. StepInv(r)
  BY DEF RequestInv
<1>7. StepInv(r)'
  BY <1>1, <1>3, <1>4, <1>6 DEF At, Told, StepInv, Performed, GetWalletIDByUserID, Ended, MoneyOps
<1>8. Quiet(r)
  BY <1>1, <1>2, <1>3, <1>4, <1>6 DEF At, Told, Quiet, Frame, Control, GetWalletIDByUserID, StepInv, MoneyOps
<1> QED BY <1>5, <1>7, <1>8, FrameStep, QuietStep DEF Quiet

LEMMA GetBalancesStep ==
    ASSUME IInv, NEW r \in Requests, GetBalances(r)
    PROVE  IInv'
<1> USE DEF IInv
<1>1. req[r] \in Workload /\ req[r].user \in Users /\ req[r].op \in Ops
  BY WorkloadAssumption DEF TypeOK
<1>2. Control(r)
  BY CodesAndSteps, GotoStep, AnswerStep, GotoOrLostStep DEF GetBalances
<1>3. \/ req[r].op = "balance" /\ Told(r, 200)
      \/ req[r].op = "exchange" /\ At(r, "publish")
  <2>1. CASE req[r].op = "balance" /\ Answer(r, 200)
    BY <2>1, CodesAndSteps, AnswerStep
  <2>2. CASE req[r].op = "exchange" /\ Goto(r, "publish")
    BY <2>2, CodesAndSteps, GotoStep
  <2> QED BY <2>1, <2>2 DEF GetBalances
<1>4. /\ UNCHANGED <<amount, dirty, lock, posted, wrote, req, step, credit, crashes>>
      /\ users' \subseteq Users /\ wallets' \subseteq Users
      /\ rows' = rows /\ tokens' \subseteq Users
  BY <1>1 DEF GetBalances, TypeOK, tables, money, locals
<1>5. TypeOK'
  BY <1>2, <1>4 DEF TypeOK, Control
<1>6. StepInv(r)
  BY DEF RequestInv
<1>7. StepInv(r)'
  BY <1>1, <1>3, <1>4, <1>6 DEF At, Told, StepInv, Performed, GetBalances, Ended, MoneyOps
<1>8. Quiet(r)
  BY <1>1, <1>2, <1>3, <1>4, <1>6 DEF At, Told, Quiet, Frame, Control, GetBalances, StepInv, MoneyOps
<1> QED BY <1>5, <1>7, <1>8, FrameStep, QuietStep DEF Quiet

LEMMA CreateBalanceStep ==
    ASSUME IInv, NEW r \in Requests, CreateBalance(r)
    PROVE  IInv'
<1> USE DEF IInv
<1>1. /\ req[r] \in Workload /\ req[r].user \in Users
      /\ step[r] \in 1..Len(supportedCurrencies)
  BY WorkloadAssumption DEF TypeOK
<1>2. Control(r)
  BY CodesAndSteps, AnswerStep, GotoOrLostStep DEF CreateBalance, DBSteps
<1>3. Told(r, 201) \/ Told(r, 500) \/ At(r, "createBalance")
  BY CodesAndSteps, AnswerStep, GotoOrLostStep DEF CreateBalance, DBSteps
<1>4. /\ UNCHANGED <<amount, dirty, lock, posted, wrote, req, credit, crashes>>
      /\ UNCHANGED <<users, wallets, tokens>>
      /\ rows \subseteq rows'
  BY DEF CreateBalance, money
<1>5. rows' \subseteq Rows
  BY <1>1, CurrencyAt DEF TypeOK, CreateBalance, Rows
<1>6. step' \in [Requests -> 1..Len(supportedCurrencies)]
  <2>1. Len(supportedCurrencies) \in Nat
    BY CurrenciesAssumption
  <2>2. ~LastCurrency(step[r]) => step[r] + 1 \in 1..Len(supportedCurrencies)
    BY <1>1, <2>1 DEF LastCurrency
  <2> QED BY <1>1, <2>2 DEF TypeOK, CreateBalance
<1>7. TypeOK'
  BY <1>2, <1>4, <1>5, <1>6 DEF TypeOK, Control
<1>8. StepInv(r)
  BY DEF RequestInv
<1>9. StepInv(r)'
  BY <1>3, <1>4, <1>8 DEF At, Told, StepInv, Performed, CreateBalance, Ended
<1>10. Quiet(r)
  BY <1>2, <1>3, <1>4 DEF At, Told, Quiet, Frame, Control, CreateBalance
<1> QED BY <1>7, <1>9, <1>10, FrameStep, QuietStep DEF Quiet

LEMMA GetRateWithSourceStep ==
    ASSUME IInv, NEW r \in Requests, GetRateWithSource(r)
    PROVE  IInv'
<1> USE DEF IInv
<1>1. StepInv(r) /\ pc[r] = "getRate"
  BY DEF RequestInv, GetRateWithSource
<1>2. req[r].amount \in Int /\ req[r].amount > 0
  BY <1>1, ValidRequest DEF StepInv, MoneyOps
<1>3. Control(r)
  BY CodesAndSteps, AnswerStep, GotoStep DEF GetRateWithSource, DBSteps
<1>4. \/ Told(r, 400) /\ UNCHANGED credit
      \/ /\ At(r, "debit")
         /\ \E rate \in Rates :
              credit' = [credit EXCEPT
                           ![r] = ExchangedAmount(req[r].amount, rate)]
  BY CodesAndSteps, AnswerStep, GotoStep DEF GetRateWithSource, DBSteps
<1>5. /\ UNCHANGED <<amount, dirty, lock, posted, wrote, req, step, crashes>>
      /\ UNCHANGED <<users, wallets, rows, tokens>>
  BY DEF GetRateWithSource, money, tables
<1>6. /\ credit' \in [Requests -> Nat]
      /\ \A q \in Requests \ {r} : credit'[q] = credit[q]
      /\ pc'[r] = "debit" => \E rate \in Rates :
                               credit'[r] = ExchangedAmount(req[r].amount, rate)
  <2>1. CASE UNCHANGED credit /\ Told(r, 400)
    BY <2>1 DEF TypeOK, Told
  <2>2. ASSUME NEW rate \in Rates,
               credit' = [credit EXCEPT
                            ![r] = ExchangedAmount(req[r].amount, rate)]
        PROVE  /\ credit' \in [Requests -> Nat]
               /\ \A q \in Requests \ {r} : credit'[q] = credit[q]
               /\ credit'[r] = ExchangedAmount(req[r].amount, rate)
    <3>1. ExchangedAmount(req[r].amount, rate) \in Nat
      BY <1>2, RatesAssumption, ExchangedAmountType
    <3> QED BY <2>2, <3>1 DEF TypeOK
  <2> QED BY <1>4, <2>1, <2>2
<1>7. TypeOK'
  BY <1>3, <1>5, <1>6 DEF TypeOK, Control
<1>8. StepInv(r)'
  BY <1>1, <1>4, <1>5, <1>6 DEF At, Told, StepInv, Performed, Ended
<1>9. Quiet(r)
  BY <1>1, <1>3, <1>4, <1>5, <1>6 DEF At, Told, Quiet, Frame, Control
<1> QED BY <1>7, <1>8, <1>9, FrameStep, QuietStep DEF Quiet

LEMMA PublishStep ==
    ASSUME IInv, NEW r \in Requests, Publish(r)
    PROVE  IInv'
<1> USE DEF IInv
<1>1. StepInv(r) /\ pc[r] = "publish"
  BY DEF RequestInv, Publish
<1>2. event' \in [Requests -> Fates]
  BY DEF TypeOK, Publish, Fates
<1>3. Control(r) /\ Told(r, 200)
  BY <1>2, CodesAndSteps DEF TypeOK, Publish, Control, Told
<1>4. /\ UNCHANGED <<amount, dirty, lock, posted, wrote, req, step, credit, crashes>>
      /\ UNCHANGED <<users, wallets, rows, tokens>>
  BY DEF Publish, money, tables, locals
<1>5. TypeOK'
  BY <1>3, <1>4 DEF TypeOK, Control
<1>6. StepInv(r)'
  BY <1>1, <1>3, <1>4 DEF Told, StepInv, Performed, Ended
<1>7. Quiet(r)
  BY <1>1, <1>3, <1>4 DEF Told, Quiet, Frame, Control
<1> QED BY <1>5, <1>6, <1>7, FrameStep, QuietStep DEF Quiet

\* Goto and the answers leave everything but pc, resp and event alone.
Untouched == UNCHANGED <<tables, locals, tokens, crashes>>

\* A committed single-row UPDATE on a row nobody holds, as Deposit and Withdraw
\* make it.
LEMMA CommitRowStep ==
    ASSUME IInv, NEW r \in Requests, Control(r), Untouched,
           {pc[r], pc'[r]} \cap {"credit", "commit"} = {},
           NEW row \in Rows, lock[row] = NoReq,
           NEW new \in 0..MaxAmount, NEW delta \in Int, new = dirty[row] + delta,
           NEW leg \in Legs, CommitRow(r, row, new, delta, leg)
    PROVE  TypeOK' /\ RowInv' /\ HoldInv' /\ Frame(r) /\ wrote'[r] = {leg}
<1> USE DEF IInv, Untouched, tables, locals
<1>1. TypeOK'
  <2>1. /\ amount' \in [Rows -> Int] /\ dirty' \in [Rows -> Int]
        /\ posted' \in [Rows -> Int]
    BY DEF TypeOK, CommitRow
  <2>2. wrote' \in [Requests -> SUBSET Legs] /\ lock' = lock
    BY DEF TypeOK, CommitRow
  <2> QED BY <2>1, <2>2 DEF TypeOK, Control
<1>2. Frame(r) /\ wrote'[r] = {leg}
  BY DEF Frame, Control, TypeOK, CommitRow
<1>3. \A s \in Requests : From(s)' = From(s) /\ To(s)' = To(s)
  BY DEF From, To
<1>4. \A x \in Rows : lock[x] # NoReq =>
        lock[x] \in Requests \ {r} /\ Posting(lock[x], x)' = Posting(lock[x], x)
  <2> SUFFICES ASSUME NEW x \in Rows, lock[x] # NoReq
               PROVE  lock[x] \in Requests \ {r}
                      /\ Posting(lock[x], x)' = Posting(lock[x], x)
    OBVIOUS
  <2>1. lock[x] \in Requests /\ pc[lock[x]] \in {"credit", "commit"}
    BY DEF TypeOK, RowInv, NoLostUpdate
  <2>2. lock' = lock /\ req' = req /\ credit' = credit
    BY DEF CommitRow
  <2> QED BY <2>1, <2>2 DEF Posting, From, To
<1>5. \A x \in Rows : /\ amount'[x] = IF x = row THEN new ELSE amount[x]
                      /\ dirty'[x] = IF x = row THEN new ELSE dirty[x]
                      /\ posted'[x] = posted[x] + (IF x = row THEN delta ELSE 0)
  BY DEF CommitRow, TypeOK
<1>6. dirty[row] = amount[row] /\ amount[row] = posted[row]
  BY DEF RowInv, NoLostUpdate, BooksBalance
<1>7. NoOverdraft' /\ \A x \in Rows : dirty'[x] \in 0..MaxAmount
  BY <1>5 DEF RowInv, NoOverdraft
<1>8. BooksBalance'
  <2> SUFFICES ASSUME NEW x \in Rows PROVE amount'[x] = posted'[x]
    BY DEF BooksBalance
  <2>1. amount[x] \in Int /\ amount[x] = posted[x]
    BY DEF RowInv, BooksBalance, TypeOK
  <2>2. CASE x = row
    BY <1>5, <1>6, <2>1, <2>2
  <2>3. CASE x # row
    BY <1>5, <2>1, <2>3
  <2> QED BY <2>2, <2>3
<1>9. NoLostUpdate'
  <2> SUFFICES ASSUME NEW x \in Rows
               PROVE  IF lock[x] = NoReq
                        THEN dirty'[x] = amount'[x]
                        ELSE /\ pc'[lock[x]] \in {"credit", "commit"}
                             /\ x \in {From(lock[x])', To(lock[x])'}
                             /\ dirty'[x] = amount'[x] + Posting(lock[x], x)'
    BY DEF NoLostUpdate, CommitRow
  <2>1. CASE lock[x] = NoReq
    BY <2>1, <1>5 DEF RowInv, NoLostUpdate
  <2>2. CASE lock[x] # NoReq
    <3>1. x # row
      BY <2>2
    <3>2. dirty'[x] = dirty[x] /\ amount'[x] = amount[x]
      BY <3>1, <1>5
    <3>3. lock[x] \in Requests \ {r} /\ Posting(lock[x], x)' = Posting(lock[x], x)
      BY <2>2, <1>4
    <3>4. pc'[lock[x]] = pc[lock[x]] /\ From(lock[x])' = From(lock[x])
          /\ To(lock[x])' = To(lock[x])
      BY <3>3, <1>3 DEF Control, CommitRow
    <3> QED BY <2>2, <3>2, <3>3, <3>4 DEF RowInv, NoLostUpdate
  <2> QED BY <2>1, <2>2
<1>10. RowInv'
  BY <1>7, <1>8, <1>9 DEF RowInv, CommitRow
<1>11. HoldInv'
  <2>1. \A q \in Requests : pc'[q] \in {"credit", "commit"} =>
          pc[q] = pc'[q] /\ From(q) \in Rows /\ lock[From(q)] = q
    BY ValidRequest DEF Control, RequestInv, StepInv, MoneyOps, HoldInv
  <2>2. \A q \in Requests : pc'[q] \in {"credit", "commit"} =>
          amount'[From(q)] = amount[From(q)]
    BY <1>5, <2>1, NoReqAssumption
  <2> QED BY <1>3, <2>1, <2>2 DEF HoldInv, CommitRow, Control
<1> QED BY <1>1, <1>2, <1>10, <1>11

\* A step that leaves the money alone outside the transaction.
LEMMA NoMoneyStep ==
    ASSUME IInv, NEW r \in Requests, Control(r), Untouched, UNCHANGED money,
           {pc[r], pc'[r]} \cap {"credit", "commit"} = {}
    PROVE  TypeOK' /\ RowInv' /\ HoldInv' /\ Frame(r)
<1> USE DEF IInv, Untouched, tables, locals, money
<1>1. TypeOK'
  BY DEF TypeOK, Control
<1>2. Quiet(r)
  BY DEF Quiet, Frame, Control
<1> QED BY <1>1, <1>2, QuietStep DEF Quiet

LEMMA DepositStep ==
    ASSUME IInv, NEW r \in Requests, Deposit(r)
    PROVE  IInv'
<1> USE DEF IInv
<1>0. StepInv(r) /\ pc[r] = "deposit" /\ Untouched
  BY DEF RequestInv, Deposit, Untouched
<1>1. /\ req[r].op = "deposit" /\ Valid(req[r]) /\ From(r) \in Rows
      /\ req[r].amount \in Int /\ req[r].amount > 0
  BY <1>0, ValidRequest DEF StepInv, MoneyOps
<1> DEFINE new == AddTo(dirty[From(r)], req[r].amount)
           delta == CreditCents(req[r].amount)
<1>2. CASE /\ lock[From(r)] = NoReq /\ new <= MaxAmount
           /\ CommitRow(r, From(r), new, delta, "credit")
           /\ MovedOrLost(r, "publish")
  <2>1. Control(r) /\ (At(r, "publish") \/ Told(r, 500))
    BY <1>2, MovedOrLostStep, CodesAndSteps
  <2>2. dirty[From(r)] \in 0..MaxAmount
    BY <1>1 DEF RowInv
  <2>3. delta \in Nat /\ new = dirty[From(r)] + delta
    BY <1>1, <2>2, CentsType, AddToCredits, AmountsAssumption
  <2>4. new \in 0..MaxAmount
    BY <1>2, <2>2, <2>3, AmountsAssumption
  <2>5. {pc[r], pc'[r]} \cap {"credit", "commit"} = {}
    BY <1>0, <2>1 DEF At, Told
  <2>6. "credit" \in Legs
    BY DEF Legs
  <2> HIDE DEF new, delta
  <2>7. TypeOK' /\ RowInv' /\ HoldInv' /\ Frame(r) /\ wrote'[r] = {"credit"}
    BY <1>0, <1>1, <1>2, <2>1, <2>3, <2>4, <2>5, <2>6, CommitRowStep
  <2>8. StepInv(r)'
    BY <1>0, <1>1, <2>1, <2>7
       DEF StepInv, Performed, At, Told, MoneyOps, Ended, Frame
  <2> QED BY <2>7, <2>8, FrameStep
<1>3. CASE UNCHANGED money /\ (Answer(r, 404) \/ Answer(r, 500))
  <2>1. Control(r) /\ (Told(r, 404) \/ Told(r, 500))
    BY <1>3, AnswerStep, CodesAndSteps
  <2>2. TypeOK' /\ RowInv' /\ HoldInv' /\ Frame(r)
    BY <1>0, <1>3, <2>1, NoMoneyStep DEF Told
  <2>3. StepInv(r)'
    BY <1>0, <1>3, <2>1, <2>2 DEF StepInv, Performed, Told, Ended, Frame, money
  <2> QED BY <2>2, <2>3, FrameStep
<1> QED BY <1>2, <1>3 DEF Deposit, RowFree

LEMMA WithdrawStep ==
    ASSUME IInv, NEW r \in Requests, Withdraw(r)
    PROVE  IInv'
<1> USE DEF IInv
<1>0. StepInv(r) /\ pc[r] = "withdraw" /\ Untouched
  BY DEF RequestInv, Withdraw, Untouched
<1>1. /\ req[r].op = "withdraw" /\ Valid(req[r]) /\ From(r) \in Rows
      /\ req[r].amount \in Int /\ req[r].amount > 0
  BY <1>0, ValidRequest DEF StepInv, MoneyOps
<1> DEFINE new == TakeFrom(dirty[From(r)], req[r].amount)
           delta == -DebitCents(req[r].amount)
<1>2. CASE /\ lock[From(r)] = NoReq /\ ~Insufficient(r)
           /\ CommitRow(r, From(r), new, delta, "debit")
           /\ MovedOrLost(r, "publish")
  <2>1. Control(r) /\ (At(r, "publish") \/ Told(r, 500))
    BY <1>2, MovedOrLostStep, CodesAndSteps
  <2>2. /\ amount[From(r)] \in 0..MaxAmount /\ dirty[From(r)] = amount[From(r)]
        /\ Covers(amount[From(r)], req[r].amount)
    BY <1>1, <1>2 DEF RowInv, NoOverdraft, NoLostUpdate, Insufficient
  <2>3. delta \in Int /\ new = dirty[From(r)] + delta
    BY <1>1, <2>2, CentsType, TakeFromDebits, AmountsAssumption
  <2>4. new \in 0..MaxAmount
    BY <1>1, <2>2, <2>3, CoveredDebit, CentsType, AmountsAssumption
  <2>5. {pc[r], pc'[r]} \cap {"credit", "commit"} = {}
    BY <1>0, <2>1 DEF At, Told
  <2>6. "debit" \in Legs
    BY DEF Legs
  <2> HIDE DEF new, delta
  <2>7. TypeOK' /\ RowInv' /\ HoldInv' /\ Frame(r) /\ wrote'[r] = {"debit"}
    BY <1>0, <1>1, <1>2, <2>1, <2>3, <2>4, <2>5, <2>6, CommitRowStep
  <2>8. StepInv(r)'
    BY <1>0, <1>1, <2>1, <2>7
       DEF StepInv, Performed, At, Told, MoneyOps, Ended, Frame
  <2> QED BY <2>7, <2>8, FrameStep
<1>3. CASE UNCHANGED money /\ Answer(r, 400)
  <2>1. Control(r) /\ Told(r, 400)
    BY <1>3, AnswerStep, CodesAndSteps
  <2>2. TypeOK' /\ RowInv' /\ HoldInv' /\ Frame(r)
    BY <1>0, <1>3, <2>1, NoMoneyStep DEF Told
  <2>3. StepInv(r)'
    BY <1>0, <1>3, <2>1, <2>2 DEF StepInv, Performed, Told, Ended, Frame, money
  <2> QED BY <2>2, <2>3, FrameStep
<1> QED BY <1>2, <1>3 DEF Withdraw, RowFree

\* An UPDATE inside r's transaction on a row nobody holds.
LEMMA WriteRowStep ==
    ASSUME IInv, NEW r \in Requests, Control(r), Untouched,
           pc'[r] \in {"credit", "commit"},
           NEW row \in Rows, row \in rows, lock[row] = NoReq,
           row \in {From(r), To(r)},
           NEW new \in 0..MaxAmount, new = amount[row] + Posting(r, row),
           WriteRow(r, row, new)
    PROVE  TypeOK' /\ RowInv' /\ Frame(r)
<1> USE DEF IInv, Untouched, tables, locals
<1>1. TypeOK'
  <2>1. dirty' \in [Rows -> Int] /\ lock' \in [Rows -> Requests \cup {NoReq}]
    BY DEF TypeOK, WriteRow
  <2> QED BY <2>1 DEF TypeOK, Control, WriteRow
<1>2. Frame(r)
  BY DEF Frame, Control, WriteRow
<1>3. \A x \in Rows : /\ lock'[x] = IF x = row THEN r ELSE lock[x]
                      /\ dirty'[x] = IF x = row THEN new ELSE dirty[x]
  BY DEF WriteRow, TypeOK
<1>4. NoOverdraft' /\ BooksBalance' /\ \A x \in Rows : dirty'[x] \in 0..MaxAmount
  BY <1>3 DEF WriteRow, RowInv, NoOverdraft, BooksBalance
<1>5. \A x \in Rows : lock'[x] # NoReq => x \in rows'
  BY <1>3 DEF RowInv
<1>6. NoLostUpdate'
  <2> SUFFICES ASSUME NEW x \in Rows
               PROVE  IF lock'[x] = NoReq
                        THEN dirty'[x] = amount[x]
                        ELSE /\ pc'[lock'[x]] \in {"credit", "commit"}
                             /\ x \in {From(lock[x])', To(lock[x])'}
                             /\ dirty'[x] = amount[x] + Posting(lock[x], x)'
    BY DEF NoLostUpdate, WriteRow
  <2>1. CASE x = row
    BY <2>1, <1>3, NoReqAssumption DEF From, To, Posting
  <2>2. CASE x # row
    <3>1. lock'[x] = lock[x] /\ dirty'[x] = dirty[x]
      BY <2>2, <1>3
    <3>2. IF lock[x] = NoReq
            THEN dirty[x] = amount[x]
            ELSE /\ pc[lock[x]] \in {"credit", "commit"}
                 /\ x \in {From(lock[x]), To(lock[x])}
                 /\ dirty[x] = amount[x] + Posting(lock[x], x)
      BY DEF RowInv, NoLostUpdate
    <3>3. lock[x] # NoReq => /\ pc'[lock[x]] \in {"credit", "commit"}
                             /\ From(lock[x])' = From(lock[x])
                             /\ To(lock[x])' = To(lock[x])
                             /\ Posting(lock[x], x)' = Posting(lock[x], x)
      <4> SUFFICES ASSUME lock[x] # NoReq
                   PROVE  /\ pc'[lock[x]] \in {"credit", "commit"}
                          /\ From(lock[x])' = From(lock[x])
                          /\ To(lock[x])' = To(lock[x])
                          /\ Posting(lock[x], x)' = Posting(lock[x], x)
        OBVIOUS
      <4>1. lock[x] \in Requests
        BY DEF TypeOK
      <4>2. pc'[lock[x]] \in {"credit", "commit"}
        BY <3>2, <4>1 DEF Control
      <4> QED BY <3>1, <4>2 DEF From, To, Posting
    <3> QED BY <3>1, <3>2, <3>3
  <2> QED BY <2>1, <2>2
<1> QED BY <1>1, <1>2, <1>4, <1>5, <1>6 DEF RowInv

LEMMA DebitStep ==
    ASSUME IInv, NEW r \in Requests, Debit(r)
    PROVE  IInv'
<1> USE DEF IInv
<1>0. StepInv(r) /\ pc[r] = "debit" /\ Untouched
  BY DEF RequestInv, Debit, Untouched
<1>1. /\ req[r].op = "exchange" /\ Valid(req[r]) /\ From(r) \in Rows
      /\ To(r) \in Rows /\ To(r) # From(r)
      /\ req[r].amount \in Int /\ req[r].amount > 0
  BY <1>0, ValidRequest DEF StepInv, MoneyOps
<1> DEFINE new == TakeFrom(dirty[From(r)], req[r].amount)
<1>2. CASE /\ lock[From(r)] = NoReq /\ ~Insufficient(r)
           /\ WriteRow(r, From(r), new)
           /\ Goto(r, "credit")
  <2>1. Control(r) /\ At(r, "credit")
    BY <1>2, GotoStep, CodesAndSteps DEF DBSteps
  <2>2. /\ amount[From(r)] \in 0..MaxAmount /\ dirty[From(r)] = amount[From(r)]
        /\ Covers(amount[From(r)], req[r].amount) /\ From(r) \in rows
    BY <1>1, <1>2 DEF RowInv, NoOverdraft, NoLostUpdate, Insufficient
  <2>3. new = amount[From(r)] + Posting(r, From(r))
    BY <1>1, <2>2, CentsType, TakeFromDebits, AmountsAssumption DEF Posting
  <2>4. new \in 0..MaxAmount
    BY <1>1, <2>2, TakeFromDebits, CoveredDebit, CentsType, AmountsAssumption
  <2> HIDE DEF new
  <2>5. TypeOK' /\ RowInv' /\ Frame(r)
    BY <1>0, <1>1, <1>2, <2>1, <2>2, <2>3, <2>4, WriteRowStep DEF At
  <2>6. HoldInv'
    <3>1. \A x \in Rows : lock'[x] = IF x = From(r) THEN r ELSE lock[x]
      BY <1>2 DEF WriteRow, TypeOK
    <3>2. \A q \in Requests : From(q)' = From(q) /\ To(q)' = To(q) /\ req'[q] = req[q]
      BY <1>0 DEF Untouched, locals, From, To
    <3>3. lock[To(r)] # r
      BY <1>0, <1>1, NoReqAssumption DEF RowInv, NoLostUpdate
    <3>4. rows' = rows
      BY <1>0 DEF Untouched, tables
    <3>5. \A q \in Requests \ {r} : pc'[q] \in {"credit", "commit"} =>
            From(q) \in Rows /\ To(q) \in Rows
      BY <2>1, ValidRequest DEF Control, RequestInv, StepInv, MoneyOps
    <3> SUFFICES ASSUME NEW q \in Requests
                 PROVE  /\ pc'[q] \in {"credit", "commit"} =>
                             lock'[From(q)] = q /\ Covers(amount'[From(q)], req[q].amount)
                        /\ pc'[q] = "credit" => lock'[To(q)] # q
                        /\ pc'[q] = "commit" /\ req[q].user \in OldUsers
                             => lock'[To(q)] = q
      BY <3>2, <3>4 DEF HoldInv
    <3>6. CASE q = r
      BY <3>1, <3>3, <3>6, <1>1, <1>2, <2>1, <2>2 DEF At, WriteRow
    <3>7. CASE q # r
      BY <3>1, <3>5, <3>7, <1>2, <2>1, NoReqAssumption DEF HoldInv, Control, WriteRow
    <3> QED BY <3>6, <3>7
  <2>7. StepInv(r)'
    BY <1>0, <1>1, <1>2, <2>1, <2>5
       DEF StepInv, Performed, At, Frame, WriteRow, Untouched, locals, Valid, Ended
  <2> QED BY <2>5, <2>6, <2>7, FrameStep
<1>3. CASE UNCHANGED money /\ Answer(r, 400)
  <2>1. Control(r) /\ Told(r, 400)
    BY <1>3, AnswerStep, CodesAndSteps
  <2>2. TypeOK' /\ RowInv' /\ HoldInv' /\ Frame(r)
    BY <1>0, <1>3, <2>1, NoMoneyStep DEF Told
  <2>3. StepInv(r)'
    BY <1>0, <1>3, <2>1, <2>2 DEF StepInv, Performed, Told, Ended, Frame, money
  <2> QED BY <2>2, <2>3, FrameStep
<1> QED BY <1>2, <1>3 DEF Debit, RowFree

\* The deferred Rollback of a request that ends with 500.
LEMMA RollbackStep ==
    ASSUME IInv, NEW r \in Requests, Control(r), Told(r, 500), Untouched, Rollback(r)
    PROVE  TypeOK' /\ RowInv' /\ HoldInv' /\ Frame(r)
<1> USE DEF IInv, Untouched, tables, locals
<1>1. \A x \in Rows :
        /\ lock'[x] = IF lock[x] = r THEN NoReq ELSE lock[x]
        /\ dirty'[x] = IF lock[x] = r THEN amount[x] ELSE dirty[x]
  BY DEF Rollback, Held
<1>2. dirty' \in [Rows -> Int] /\ lock' \in [Rows -> Requests \cup {NoReq}]
  BY DEF Rollback, Held, TypeOK
<1>3. TypeOK'
  BY <1>2 DEF TypeOK, Control, Rollback
<1>4. Frame(r)
  BY DEF Frame, Control, Rollback
<1>5. \A q \in Requests : From(q)' = From(q) /\ To(q)' = To(q)
  BY DEF From, To
<1>6. RowInv'
  <2>1. NoOverdraft' /\ BooksBalance' /\ \A x \in Rows : dirty'[x] \in 0..MaxAmount
    BY <1>1 DEF Rollback, RowInv, NoOverdraft, BooksBalance
  <2>2. \A x \in Rows : lock'[x] # NoReq => x \in rows'
    BY <1>1 DEF RowInv
  <2>3. NoLostUpdate'
    <3> SUFFICES ASSUME NEW x \in Rows
                 PROVE  IF lock'[x] = NoReq
                          THEN dirty'[x] = amount[x]
                          ELSE /\ pc'[lock'[x]] \in {"credit", "commit"}
                               /\ x \in {From(lock[x])', To(lock[x])'}
                               /\ dirty'[x] = amount[x] + Posting(lock[x], x)'
      BY DEF NoLostUpdate, Rollback
    <3>1. CASE lock[x] \in {r, NoReq}
      BY <3>1, <1>1 DEF RowInv, NoLostUpdate
    <3>2. CASE lock[x] \notin {r, NoReq}
      <4>1. lock'[x] = lock[x] /\ dirty'[x] = dirty[x] /\ lock[x] \in Requests \ {r}
        BY <3>2, <1>1 DEF TypeOK
      <4>2. pc'[lock[x]] = pc[lock[x]]
        BY <4>1 DEF Control
      <4>3. /\ pc[lock[x]] \in {"credit", "commit"}
            /\ x \in {From(lock[x]), To(lock[x])}
            /\ dirty[x] = amount[x] + Posting(lock[x], x)
        BY <3>2 DEF RowInv, NoLostUpdate
      <4> QED BY <3>2, <4>1, <4>2, <4>3 DEF From, To, Posting
    <3> QED BY <3>1, <3>2
  <2> QED BY <2>1, <2>2, <2>3 DEF RowInv
<1>7. HoldInv'
  <2>1. \A q \in Requests \ {r} : pc'[q] \in {"credit", "commit"} =>
          From(q) \in Rows /\ To(q) \in Rows
    BY ValidRequest DEF Control, RequestInv, StepInv, MoneyOps
  <2> SUFFICES ASSUME NEW q \in Requests
               PROVE  /\ pc'[q] \in {"credit", "commit"} =>
                             lock'[From(q)] = q /\ Covers(amount'[From(q)], req[q].amount)
                      /\ pc'[q] = "credit" => lock'[To(q)] # q
                      /\ pc'[q] = "commit" /\ req[q].user \in OldUsers
                           => lock'[To(q)] = q
    BY <1>5 DEF HoldInv
  <2>2. CASE q = r
    BY <2>2 DEF Told
  <2>3. CASE q # r
    BY <2>1, <2>3, <1>1, NoReqAssumption DEF HoldInv, Control, Rollback
  <2> QED BY <2>2, <2>3
<1> QED BY <1>3, <1>4, <1>6, <1>7

\* A request that rolls back and answers 500 keeps the invariant.
LEMMA FailStep ==
    ASSUME IInv, NEW r \in Requests, pc[r] \in DBSteps, Untouched,
           Rollback(r), Answer(r, 500)
    PROVE  IInv'
<1> USE DEF IInv
<1>1. Control(r) /\ Told(r, 500)
  BY AnswerStep, CodesAndSteps
<1>2. TypeOK' /\ RowInv' /\ HoldInv' /\ Frame(r)
  BY <1>1, RollbackStep
<1>3. StepInv(r) /\ wrote' = wrote
  BY DEF RequestInv, Rollback
<1>4. StepInv(r)'
  BY <1>1, <1>2, <1>3 DEF StepInv, Performed, Told, Ended, Frame
<1> QED BY <1>2, <1>4, FrameStep

LEMMA DBErrorStep ==
    ASSUME IInv, NEW r \in Requests, DBError(r)
    PROVE  IInv'
BY FailStep DEF DBError, Untouched

LEMMA DeadlockAbortStep ==
    ASSUME IInv, NEW r \in Requests, DeadlockAbort(r)
    PROVE  IInv'
<1>1. pc[r] \in {"deposit", "withdraw", "debit", "credit"}
  BY DEF DeadlockAbort, WaitsFor
<1>2. pc[r] \in DBSteps
  BY <1>1 DEF DBSteps
<1> QED BY <1>2, FailStep DEF DeadlockAbort, Untouched

LEMMA CreditStep ==
    ASSUME IInv, NEW r \in Requests, Credit(r)
    PROVE  IInv'
<1> USE DEF IInv
<1>0. StepInv(r) /\ pc[r] = "credit" /\ Untouched
  BY DEF RequestInv, Credit, Untouched
<1>1. /\ req[r].op = "exchange" /\ Valid(req[r]) /\ From(r) \in Rows
      /\ To(r) \in Rows /\ To(r) # From(r)
  BY <1>0, ValidRequest DEF StepInv, MoneyOps
<1> DEFINE new == dirty[To(r)] + credit[r]
<1>2. ASSUME Control(r), At(r, "commit"), UNCHANGED wrote
      PROVE  Frame(r) => StepInv(r)'
  BY <1>0, <1>1, <1>2
     DEF StepInv, Performed, At, Frame, Untouched, locals, Valid, Ended
<1>3. CASE To(r) \notin rows /\ Goto(r, "commit") /\ UNCHANGED money
  <2>1. Control(r) /\ At(r, "commit")
    BY <1>3, GotoStep, CodesAndSteps DEF DBSteps
  <2>2. TypeOK' /\ Frame(r)
    BY <1>0, <1>3, <2>1 DEF TypeOK, Frame, Control, Untouched, money, locals, tables
  <2>3. \A q \in Requests : From(q)' = From(q) /\ To(q)' = To(q)
    BY <1>0 DEF Untouched, locals, From, To
  <2>4. \A x \in Rows : lock[x] # NoReq => pc'[lock[x]] \in {"credit", "commit"}
    BY <2>1 DEF RowInv, NoLostUpdate, TypeOK, Control, At
  <2>5. RowInv'
    BY <1>0, <1>3, <2>4
       DEF RowInv, NoOverdraft, NoLostUpdate, BooksBalance, money, Untouched,
           tables, locals, From, To, Posting
  <2>6. req[r].user \notin OldUsers
    <3>1. To(r) = <<req[r].user, req[r].to>> /\ req[r].to \in Currencies
      BY <1>1 DEF To, Valid
    <3> QED BY <1>3, <3>1 DEF HoldInv
  <2>7. HoldInv'
    BY <1>0, <1>3, <2>1, <2>3, <2>6
       DEF HoldInv, Control, At, money, Untouched, tables, locals
  <2> QED BY <1>2, <1>3, <2>1, <2>2, <2>5, <2>7, FrameStep DEF money
<1>4. CASE Rollback(r) /\ Answer(r, 500)
  <2>1. pc[r] \in DBSteps
    BY <1>0 DEF DBSteps
  <2> QED BY <1>0, <1>4, <2>1, FailStep
<1>5. CASE /\ To(r) \in rows /\ lock[To(r)] = NoReq /\ new <= MaxAmount
           /\ Goto(r, "commit") /\ WriteRow(r, To(r), new)
  <2>1. Control(r) /\ At(r, "commit")
    BY <1>5, GotoStep, CodesAndSteps DEF DBSteps
  <2>2. dirty[To(r)] \in 0..MaxAmount /\ dirty[To(r)] = amount[To(r)]
    BY <1>1, <1>5 DEF RowInv, NoLostUpdate
  <2>3. credit[r] \in Nat
    BY DEF TypeOK
  <2>4. new = amount[To(r)] + Posting(r, To(r))
    BY <1>1, <2>2 DEF Posting
  <2>5. new \in 0..MaxAmount
    BY <1>5, <2>2, <2>3, AmountsAssumption
  <2> HIDE DEF new
  <2>6. TypeOK' /\ RowInv' /\ Frame(r)
    BY <1>0, <1>1, <1>5, <2>1, <2>4, <2>5, WriteRowStep DEF At
  <2>7. HoldInv'
    <3>1. \A x \in Rows : lock'[x] = IF x = To(r) THEN r ELSE lock[x]
      BY <1>5 DEF WriteRow, TypeOK
    <3>2. \A q \in Requests : From(q)' = From(q) /\ To(q)' = To(q) /\ req'[q] = req[q]
      BY <1>0 DEF Untouched, locals, From, To
    <3>3. rows' = rows
      BY <1>0 DEF Untouched, tables
    <3>4. \A q \in Requests \ {r} : pc'[q] \in {"credit", "commit"} =>
            From(q) \in Rows /\ To(q) \in Rows
      BY <2>1, ValidRequest DEF Control, RequestInv, StepInv, MoneyOps
    <3> SUFFICES ASSUME NEW q \in Requests
                 PROVE  /\ pc'[q] \in {"credit", "commit"} =>
                             lock'[From(q)] = q /\ Covers(amount'[From(q)], req[q].amount)
                        /\ pc'[q] = "credit" => lock'[To(q)] # q
                        /\ pc'[q] = "commit" /\ req[q].user \in OldUsers
                             => lock'[To(q)] = q
      BY <3>2, <3>3 DEF HoldInv
    <3>5. CASE q = r
      BY <3>1, <3>5, <1>0, <1>1, <1>5, <2>1 DEF At, HoldInv, WriteRow
    <3>6. CASE q # r
      BY <3>1, <3>4, <3>6, <1>5, <2>1, NoReqAssumption DEF HoldInv, Control, WriteRow
    <3> QED BY <3>5, <3>6
  <2> QED BY <1>2, <1>5, <2>1, <2>6, <2>7, FrameStep DEF WriteRow
<1> QED BY <1>3, <1>4, <1>5 DEF Credit, RowFree

LEMMA CommitStep ==
    ASSUME IInv, NEW r \in Requests, Commit(r)
    PROVE  IInv'
<1> USE DEF IInv
<1>0. /\ StepInv(r) /\ pc[r] = "commit" /\ Untouched /\ dirty' = dirty
  BY DEF RequestInv, Commit, Untouched
<1>1. /\ req[r].op = "exchange" /\ From(r) \in Rows
      /\ To(r) \in Rows /\ To(r) # From(r)
      /\ req[r].amount \in Int /\ req[r].amount > 0
  BY <1>0, ValidRequest DEF StepInv, MoneyOps
<1>2. Control(r) /\ (At(r, "getBalances") \/ Told(r, 500))
  BY MovedOrLostStep, CodesAndSteps DEF Commit, DBSteps
<1>3. \A x \in Rows :
        /\ lock'[x] = IF lock[x] = r THEN NoReq ELSE lock[x]
        /\ amount'[x] = IF lock[x] = r THEN dirty[x] ELSE amount[x]
        /\ posted'[x] = posted[x] + IF lock[x] = r THEN Posting(r, x) ELSE 0
  BY DEF Commit, Held
<1>4. \A x \in Rows : Posting(r, x) \in Int
  BY <1>1, CentsType DEF Posting, TypeOK
<1>5. wrote'[r] = {"debit"} \cup (IF lock[To(r)] = r THEN {"credit"} ELSE {})
  <2>1. lock[From(r)] = r
    BY <1>0 DEF HoldInv
  <2>2. wrote'[r] = {leg \in Legs :
                      lock[IF leg = "debit" THEN From(r) ELSE To(r)] = r}
    BY <1>1 DEF Commit, Held, TypeOK
  <2> QED BY <2>1, <2>2 DEF Legs
<1>6. Frame(r)
  BY <1>0, <1>2 DEF Frame, Control, Commit, Untouched, locals, TypeOK
<1>7. TypeOK'
  <2>1. lock' \in [Rows -> Requests \cup {NoReq}] /\ amount' \in [Rows -> Int]
    BY DEF TypeOK, Commit, Held
  <2>2. posted' \in [Rows -> Int]
    BY <1>4 DEF TypeOK, Commit, Held
  <2>3. wrote' \in [Requests -> SUBSET Legs]
    BY DEF TypeOK, Commit, Legs
  <2> QED BY <1>0, <1>2, <2>1, <2>2, <2>3 DEF TypeOK, Control, Untouched, tables, locals
<1>8. RowInv'
  <2>1. NoOverdraft' /\ \A x \in Rows : dirty'[x] \in 0..MaxAmount
    BY <1>0, <1>3 DEF RowInv, NoOverdraft
  <2>2. \A x \in Rows : lock'[x] # NoReq => x \in rows'
    BY <1>0, <1>3 DEF RowInv, Untouched, tables
  <2>3. BooksBalance'
    <3> SUFFICES ASSUME NEW x \in Rows PROVE amount'[x] = posted'[x]
      BY DEF BooksBalance
    <3>1. amount[x] \in Int /\ amount[x] = posted[x]
      BY DEF RowInv, BooksBalance, TypeOK
    <3>2. CASE lock[x] = r
      <4>1. dirty[x] = amount[x] + Posting(r, x)
        BY <3>2, NoReqAssumption DEF RowInv, NoLostUpdate
      <4> QED BY <3>1, <3>2, <4>1, <1>3
    <3>3. CASE lock[x] # r
      BY <3>1, <3>3, <1>3
    <3> QED BY <3>2, <3>3
  <2>4. NoLostUpdate'
    <3> SUFFICES ASSUME NEW x \in Rows
                 PROVE  IF lock'[x] = NoReq
                          THEN dirty[x] = amount'[x]
                          ELSE /\ pc'[lock'[x]] \in {"credit", "commit"}
                               /\ x \in {From(lock[x])', To(lock[x])'}
                               /\ dirty[x] = amount'[x] + Posting(lock[x], x)'
      BY <1>0 DEF NoLostUpdate
    <3>1. CASE lock[x] \in {r, NoReq}
      BY <3>1, <1>3 DEF RowInv, NoLostUpdate
    <3>2. CASE lock[x] \notin {r, NoReq}
      <4>1. lock'[x] = lock[x] /\ amount'[x] = amount[x] /\ lock[x] \in Requests \ {r}
        BY <3>2, <1>3 DEF TypeOK
      <4>2. pc'[lock[x]] = pc[lock[x]]
        BY <4>1, <1>2 DEF Control
      <4>3. /\ pc[lock[x]] \in {"credit", "commit"}
            /\ x \in {From(lock[x]), To(lock[x])}
            /\ dirty[x] = amount[x] + Posting(lock[x], x)
        BY <3>2 DEF RowInv, NoLostUpdate
      <4>4. req' = req /\ credit' = credit
        BY <1>0 DEF Untouched, locals
      <4> QED BY <3>2, <4>1, <4>2, <4>3, <4>4 DEF From, To, Posting
    <3> QED BY <3>1, <3>2
  <2> QED BY <2>1, <2>2, <2>3, <2>4 DEF RowInv
<1>9. HoldInv'
  <2>1. \A q \in Requests \ {r} : pc'[q] \in {"credit", "commit"} =>
          From(q) \in Rows /\ To(q) \in Rows
    BY <1>2, ValidRequest DEF Control, RequestInv, StepInv, MoneyOps
  <2>2. /\ \A q \in Requests : From(q)' = From(q) /\ To(q)' = To(q) /\ req'[q] = req[q]
        /\ rows' = rows
    BY <1>0 DEF Untouched, locals, tables, From, To
  <2> SUFFICES ASSUME NEW q \in Requests
               PROVE  /\ pc'[q] \in {"credit", "commit"} =>
                             lock'[From(q)] = q /\ Covers(amount'[From(q)], req[q].amount)
                      /\ pc'[q] = "credit" => lock'[To(q)] # q
                      /\ pc'[q] = "commit" /\ req[q].user \in OldUsers
                           => lock'[To(q)] = q
    BY <2>2 DEF HoldInv
  <2>3. CASE q = r
    BY <2>3, <1>2 DEF Told, At
  <2>4. CASE q # r
    BY <2>1, <2>4, <1>2, <1>3, NoReqAssumption DEF HoldInv, Control
  <2> QED BY <2>3, <2>4
<1>10. StepInv(r)'
  <2>1. req[r].user \in OldUsers => wrote'[r] = Legs
    BY <1>0, <1>5 DEF HoldInv, Legs
  <2> QED BY <1>0, <1>1, <1>2, <1>5, <1>6, <2>1
          DEF StepInv, Performed, At, Told, MoneyOps, Ended, Frame
<1> QED BY <1>6, <1>7, <1>8, <1>9, <1>10, FrameStep

LEMMA CrashStep ==
    ASSUME IInv, Crash
    PROVE  IInv'
<1> USE DEF IInv
<1>1. /\ UNCHANGED <<users, wallets, rows, amount, posted, wrote, req, step, credit>>
      /\ UNCHANGED <<tokens, resp, event>>
      /\ dirty' = amount /\ lock' = [x \in Rows |-> NoReq]
  BY DEF Crash, tables, locals
<1>2. \A r \in Requests : \/ pc'[r] = pc[r] /\ pc[r] \in {"idle"} \cup Ended
                          \/ pc'[r] = "dead" /\ pc[r] \notin {"idle"} \cup Ended
  BY DEF Crash
<1>3. TypeOK'
  <2>1. pc' \in [Requests -> Steps]
    BY CodesAndSteps DEF Crash, TypeOK
  <2>2. crashes' \in 0..MaxCrashes
    BY AmountsAssumption DEF Crash, TypeOK
  <2> QED BY <1>1, <2>1, <2>2 DEF TypeOK
<1>4. RowInv'
  BY <1>1 DEF RowInv, NoOverdraft, NoLostUpdate, BooksBalance
<1>5. HoldInv'
  <2>1. \A r \in Requests : pc'[r] \notin {"credit", "commit"}
    BY <1>2 DEF Ended
  <2> QED BY <1>1, <2>1 DEF HoldInv
<1>6. RequestInv'
  <2> SUFFICES ASSUME NEW r \in Requests PROVE StepInv(r)'
    BY DEF RequestInv
  <2>1. StepInv(r)
    BY DEF RequestInv
  <2> QED BY <1>1, <1>2, <2>1 DEF StepInv, Performed, Ended
<1> QED BY <1>3, <1>4, <1>5, <1>6

-----------------------------------------------------------------------------
(* The theorems *)

\* Every step of the service keeps the inductive invariant.
LEMMA NextIInv == IInv /\ [Next]_vars => IInv'
<1> SUFFICES ASSUME IInv, [Next]_vars PROVE IInv'
  OBVIOUS
<1>1. CASE UNCHANGED vars
  <2>1. UNCHANGED <<users, wallets, rows, amount, dirty, lock, posted, wrote, req,
                    step, credit, tokens, pc, resp, crashes, event>>
    BY <1>1 DEF vars, tables, money, locals
  <2> QED BY <2>1 DEF IInv, TypeOK, RowInv, NoOverdraft, NoLostUpdate, BooksBalance,
                      HoldInv, RequestInv, StepInv, Performed, From, To, Posting
<1>2. ASSUME NEW r \in Requests, Receive(r) PROVE IInv'
  BY <1>2, ReceiveStep
<1>3. ASSUME NEW r \in Requests, HandlerStep(r) PROVE IInv'
  BY <1>3, CreateUserStep, CreateWalletForUserStep, CreateBalanceStep,
     GetUserByUsernameStep, GetWalletIDByUserIDStep, DepositStep, WithdrawStep,
     GetRateWithSourceStep, DebitStep, CreditStep, CommitStep, GetBalancesStep,
     PublishStep DEF HandlerStep, HandleRegister, HandleLogin,
     HandleBalance, HandleDeposit, HandleWithdraw, HandleExchange
<1>4. ASSUME NEW r \in Requests, DBError(r) PROVE IInv'
  BY <1>4, DBErrorStep
<1>5. ASSUME NEW r \in Requests, DeadlockAbort(r) PROVE IInv'
  BY <1>5, DeadlockAbortStep
<1>6. CASE Crash
  BY <1>6, CrashStep
<1> QED BY <1>1, <1>2, <1>3, <1>4, <1>5, <1>6 DEF Next, AllEnded

\* The inductive invariant holds in every reachable state.
THEOREM Invariance == Spec => []IInv
BY InitIInv, NextIInv, PTL DEF Spec

\* Every variable of the wallet service keeps its type, for every number of
\* users, requests, currencies and every workload.
THEOREM TypeCorrect == Spec => []TypeOK
<1>1. IInv => TypeOK
  BY DEF IInv
<1> QED BY <1>1, Invariance, PTL

\* No interleaving of withdrawals, exchanges, rollbacks and crashes overdraws a
\* balance (Withdraw and Exchange in repo_auth.go).
THEOREM NeverOverdrawn == Spec => []NoOverdraft
<1>1. IInv => NoOverdraft
  BY DEF IInv, RowInv
<1> QED BY <1>1, Invariance, PTL

\* No update is lost between the two UPDATEs of Exchange and its COMMIT.
THEOREM UpdatesKept == Spec => []NoLostUpdate
<1>1. IInv => NoLostUpdate
  BY DEF IInv, RowInv
<1> QED BY <1>1, Invariance, PTL

\* The balances are what the committed operations owe, to the cent.
THEOREM BooksAlwaysBalance == Spec => []BooksBalance
<1>1. IInv => BooksBalance
  BY DEF IInv, RowInv
<1> QED BY <1>1, Invariance, PTL

\* A 200 is only answered to an operation that has been committed, and a 4xx
\* only to one that changed nothing.
THEOREM AnswersAlwaysTrue == Spec => []AnswersAreTrue
<1>1. IInv => AnswersAreTrue
  BY DEF IInv, RequestInv, StepInv, AnswersAreTrue
<1> QED BY <1>1, Invariance, PTL
-----------------------------------------------------------------------------
(* Events *)

\* What EventsAreTrue says of one request.
EventTrue(r) ==
    /\ event[r] # "none" => wrote[r] # {}
    /\ event[r] \in {"sent", "lost"} => req[r].amount >= Threshold
    /\ resp[r] = 200 /\ req[r].op \in MoneyOps =>
         (req[r].amount >= Threshold <=> event[r] \in {"sent", "lost"})

\* What a step of r does to the fates of the events: the other requests keep
\* theirs, and r has moved no money, or has just moved it, or publishes.
Others(r) ==
    /\ req' = req
    /\ \A q \in Requests \ {r} :
         wrote'[q] = wrote[q] /\ event'[q] = event[q] /\ resp'[q] = resp[q]
Unmoved(r) ==
    /\ wrote' = wrote /\ event' = event
    /\ resp'[r] = resp[r] \/ resp'[r] # 200 \/ req[r].op \notin MoneyOps
Moved(r) ==
    /\ wrote'[r] # {}
    /\ event'[r] \in {event[r], "due"}
    /\ resp'[r] # 200
Published(r) ==
    /\ wrote' = wrote /\ wrote[r] # {}
    /\ event'[r] \in IF IsLarge(r) THEN {"sent", "lost"} ELSE {"none"}

\* A request can act in one of these ways.
ActionOf(r) == Receive(r) \/ HandlerStep(r) \/ DBError(r) \/ DeadlockAbort(r)

LEMMA AnswerFate ==
    ASSUME TypeOK, NEW r \in Requests, NEW c, Answer(r, c)
    PROVE  event' = event /\ resp'[r] = c /\ \A q \in Requests \ {r} : resp'[q] = resp[q]
BY DEF TypeOK, Answer

LEMMA GotoFate ==
    ASSUME NEW r \in Requests, NEW s, Goto(r, s)
    PROVE  event' = event /\ resp' = resp
BY DEF Goto

LEMMA MovedFate ==
    ASSUME TypeOK, NEW r \in Requests, NEW s, MovedOrLost(r, s)
    PROVE  /\ event'[r] \in {event[r], "due"} /\ resp'[r] \in {resp[r], 500}
           /\ \A q \in Requests \ {r} : event'[q] = event[q] /\ resp'[q] = resp[q]
<1>1. CASE Answer(r, 500)
  BY <1>1, AnswerFate
<1>2. CASE event' = [event EXCEPT ![r] = "due"] /\ UNCHANGED resp
  BY <1>2 DEF TypeOK
<1> QED BY <1>1, <1>2 DEF MovedOrLost

\* An operation that was answered or is about to be published moved its money.
LEMMA PerformedWrote ==
    ASSUME NEW r \in Requests, req[r].op \in MoneyOps, Performed(r)
    PROVE  wrote[r] # {}
BY DEF Performed, MoneyOps, Legs

LEMMA ReceiveFate ==
    ASSUME IInv, NEW r \in Requests, Receive(r)
    PROVE  Others(r) /\ Unmoved(r)
<1>1. TypeOK /\ wrote' = wrote /\ req' = req
  BY DEF IInv, Receive, money, locals
<1>2. CASE Answer(r, 401) \/ Answer(r, 400)
  BY <1>1, <1>2, AnswerFate DEF Others, Unmoved
<1>3. CASE Goto(r, FirstStep(req[r]))
  BY <1>1, <1>3, GotoFate DEF Others, Unmoved
<1> QED BY <1>2, <1>3 DEF Receive

LEMMA RegisterFate ==
    ASSUME IInv, NEW r \in Requests, HandleRegister(r)
    PROVE  Others(r) /\ Unmoved(r)
<1>1. TypeOK /\ wrote' = wrote /\ req' = req
  BY DEF IInv, HandleRegister, CreateUser, CreateWalletForUser, CreateBalance, money, locals
<1>2. \/ \E s \in Steps : Goto(r, s)
      \/ \E c \in {201, 409, 500} : Answer(r, c)
  BY CodesAndSteps
     DEF HandleRegister, CreateUser, CreateWalletForUser, CreateBalance, GotoOrLost, DBSteps
<1> QED BY <1>1, <1>2, AnswerFate, GotoFate DEF Others, Unmoved

LEMMA ReadFate ==
    ASSUME IInv, NEW r \in Requests,
           GetUserByUsername(r) \/ GetWalletIDByUserID(r) \/ GetRateWithSource(r) \/ GetBalances(r)
    PROVE  Others(r) /\ Unmoved(r)
<1>1. TypeOK /\ StepInv(r) /\ wrote' = wrote /\ req' = req
  BY DEF IInv, RequestInv, GetUserByUsername, GetWalletIDByUserID, GetRateWithSource,
         GetBalances, money, locals
<1>2. CASE GetUserByUsername(r)
  <2>1. req[r].op = "login" /\ (Answer(r, 401) \/ Answer(r, 200))
    BY <1>1, <1>2 DEF StepInv, GetUserByUsername
  <2> QED BY <1>1, <2>1, AnswerFate DEF Others, Unmoved, MoneyOps
<1>3. CASE GetWalletIDByUserID(r)
  BY <1>1, <1>3, AnswerFate, GotoFate DEF GetWalletIDByUserID, Others, Unmoved
<1>4. CASE GetRateWithSource(r)
  BY <1>1, <1>4, AnswerFate, GotoFate DEF GetRateWithSource, Others, Unmoved
<1>5. CASE GetBalances(r)
  <2>1. CASE req[r].op = "balance" /\ Answer(r, 200)
    BY <1>1, <2>1, AnswerFate DEF Others, Unmoved, MoneyOps
  <2>2. CASE Goto(r, "publish")
    BY <1>1, <2>2, GotoFate DEF Others, Unmoved
  <2> QED BY <1>5, <2>1, <2>2 DEF GetBalances
<1> QED BY <1>2, <1>3, <1>4, <1>5

\* A single-row UPDATE that commits by itself.
LEMMA RowFate ==
    ASSUME TypeOK, NEW r \in Requests, NEW row, NEW new, NEW delta, NEW leg, NEW s,
           CommitRow(r, row, new, delta, leg), MovedOrLost(r, s),
           resp[r] # 200, req' = req
    PROVE  Others(r) /\ Moved(r)
<1>1. wrote'[r] = {leg} /\ \A q \in Requests \ {r} : wrote'[q] = wrote[q]
  BY DEF TypeOK, CommitRow
<1>2. wrote'[r] # {}
  BY <1>1
<1> QED BY <1>1, <1>2, MovedFate DEF Others, Moved

LEMMA UpdateFate ==
    ASSUME IInv, NEW r \in Requests, Deposit(r) \/ Withdraw(r)
    PROVE  Others(r) /\ (Unmoved(r) \/ Moved(r))
<1>1. TypeOK /\ resp[r] # 200 /\ req' = req
  BY DEF IInv, RequestInv, StepInv, Deposit, Withdraw, locals
<1>2. ASSUME NEW c \in {400, 404, 500}, Answer(r, c), UNCHANGED money
      PROVE  Others(r) /\ Unmoved(r)
  BY <1>1, <1>2, AnswerFate DEF Others, Unmoved, money
<1>3. CASE Deposit(r)
  BY <1>1, <1>2, <1>3, RowFate DEF Deposit
<1>4. CASE Withdraw(r)
  BY <1>1, <1>2, <1>4, RowFate DEF Withdraw
<1> QED BY <1>3, <1>4

LEMMA TransactionFate ==
    ASSUME IInv, NEW r \in Requests, Debit(r) \/ Credit(r) \/ Commit(r)
    PROVE  Others(r) /\ (Unmoved(r) \/ Moved(r))
<1>1. TypeOK /\ StepInv(r) /\ resp[r] # 200 /\ req' = req
  BY DEF IInv, RequestInv, StepInv, Debit, Credit, Commit, locals
<1>2. CASE Debit(r) \/ Credit(r)
  <2>1. wrote' = wrote
    BY <1>2 DEF Debit, Credit, WriteRow, Rollback, money
  <2>2. Goto(r, "credit") \/ Goto(r, "commit") \/ Answer(r, 400) \/ Answer(r, 500)
    BY <1>2 DEF Debit, Credit
  <2> QED BY <1>1, <2>1, <2>2, AnswerFate, GotoFate DEF Others, Unmoved
<1>3. CASE Commit(r)
  <2>1. From(r) \in Rows /\ lock[From(r)] = r
    <3>1. pc[r] = "commit"
      BY <1>3 DEF Commit
    <3>2. req[r].op = "exchange" /\ Valid(req[r])
      BY <1>1, <3>1 DEF StepInv
    <3> QED BY <1>1, <3>1, <3>2, ValidRequest DEF IInv, HoldInv, MoneyOps
  <2>2. "debit" \in wrote'[r] /\ \A q \in Requests \ {r} : wrote'[q] = wrote[q]
    BY <1>1, <1>3, <2>1 DEF Commit, TypeOK, Held, Legs
  <2>3. MovedOrLost(r, "getBalances")
    BY <1>3 DEF Commit
  <2>4. wrote'[r] # {}
    BY <2>2
  <2> QED BY <1>1, <2>2, <2>3, <2>4, MovedFate DEF Others, Moved
<1> QED BY <1>2, <1>3

LEMMA PublishFate ==
    ASSUME IInv, NEW r \in Requests, Publish(r)
    PROVE  Others(r) /\ Published(r)
<1>1. TypeOK /\ StepInv(r) /\ pc[r] = "publish"
  BY DEF IInv, RequestInv, Publish
<1>2. wrote' = wrote /\ req' = req /\ wrote[r] # {}
  BY <1>1, PerformedWrote DEF Publish, StepInv, money, locals
<1>3. PICK f \in (IF IsLarge(r) THEN {"sent", "lost"} ELSE {"none"}) :
        event' = [event EXCEPT ![r] = f]
  BY DEF Publish
<1>4. event'[r] = f /\ \A q \in Requests \ {r} : event'[q] = event[q]
  BY <1>1, <1>3 DEF TypeOK
<1>5. \A q \in Requests \ {r} : resp'[q] = resp[q]
  BY <1>1 DEF Publish, TypeOK
<1> QED BY <1>2, <1>3, <1>4, <1>5 DEF Others, Published

LEMMA FailFate ==
    ASSUME IInv, NEW r \in Requests, DBError(r) \/ DeadlockAbort(r)
    PROVE  Others(r) /\ Unmoved(r)
<1>1. TypeOK /\ wrote' = wrote /\ req' = req /\ Answer(r, 500)
  BY DEF IInv, DBError, DeadlockAbort, Rollback, locals
<1> QED BY <1>1, AnswerFate DEF Others, Unmoved

LEMMA ActionFate ==
    ASSUME IInv, NEW r \in Requests, ActionOf(r)
    PROVE  Others(r) /\ (Unmoved(r) \/ Moved(r) \/ Published(r))
BY ReceiveFate, RegisterFate, ReadFate, UpdateFate, TransactionFate, PublishFate, FailFate
   DEF ActionOf, HandlerStep, HandleRegister, HandleLogin, HandleBalance, HandleDeposit,
       HandleWithdraw, HandleExchange

LEMMA InitEvents == Init => EventsAreTrue
BY DEF Init, EventsAreTrue

LEMMA NextEvents == IInv /\ EventsAreTrue /\ [Next]_vars => EventsAreTrue'
<1> SUFFICES ASSUME IInv, EventsAreTrue, [Next]_vars PROVE EventsAreTrue'
  OBVIOUS
<1>1. \A r \in Requests : EventTrue(r)
  BY DEF EventsAreTrue, EventTrue
<1>2. ASSUME UNCHANGED <<req, wrote, event, resp>>
      PROVE  EventsAreTrue'
  BY <1>2 DEF EventsAreTrue
<1>3. ASSUME NEW r \in Requests, ActionOf(r)
      PROVE  EventsAreTrue'
  <2>1. Others(r) /\ (Unmoved(r) \/ Moved(r) \/ Published(r))
    BY <1>3, ActionFate
  <2>2. \A q \in Requests \ {r} : EventTrue(q)'
    BY <1>1, <2>1 DEF Others, EventTrue
  <2>3. ASSUME Unmoved(r) PROVE EventTrue(r)'
    BY <1>1, <2>1, <2>3 DEF Others, Unmoved, EventTrue
  <2>4. ASSUME Moved(r) PROVE EventTrue(r)'
    BY <1>1, <2>1, <2>4 DEF Others, Moved, EventTrue
  <2>5. ASSUME Published(r) PROVE EventTrue(r)'
    <3>1. req[r].amount >= Threshold <=> event'[r] \in {"sent", "lost"}
      BY <2>5 DEF Published, IsLarge
    <3> QED BY <2>1, <2>5, <3>1 DEF Others, Published, EventTrue
  <2>6. EventTrue(r)'
    BY <2>1, <2>3, <2>4, <2>5
  <2> QED BY <2>2, <2>6 DEF EventsAreTrue, EventTrue
<1>4. CASE Crash \/ UNCHANGED vars
  BY <1>2, <1>4 DEF Crash, vars, money, locals
<1> QED BY <1>3, <1>4 DEF Next, AllEnded, ActionOf

\* EventsAreTrue: no interleaving, lost reply, rollback or crash gives Kafka an
\* event of money that was not committed, and a large operation answered with
\* 200 has been handed to the publisher.
THEOREM EventsAlwaysTrue == Spec => []EventsAreTrue
BY Invariance, InitEvents, NextEvents, PTL DEF Spec
-----------------------------------------------------------------------------
(* Registration *)

\* r has inserted the row of its user: no other request can.
Registering(r) == pc[r] \in {"createWallet", "createBalance"} \/ resp[r] = 201

\* What registration has inserted at each of its steps.
Inserted(r) ==
    /\ Registering(r) => req[r].user \in users
    /\ pc[r] = "createBalance" \/ resp[r] = 201 =>
         /\ req[r].user \in wallets
         /\ \A i \in 1..Len(supportedCurrencies) : i < step[r] \/ resp[r] = 201 =>
              <<req[r].user, supportedCurrencies[i]>> \in rows
    /\ pc[r] \in {"idle", "createUser", "createWallet"} => step[r] = 1

Sole(r, s) == Registering(r) /\ Registering(s) => req[r].user # req[s].user

RegInv ==
    /\ \A r \in Requests : Inserted(r)
    /\ \A r \in Requests : \A s \in Requests \ {r} : Sole(r, s)

LEMMA InitRegistration == Init => RegInv
BY DEF Init, RegInv, Inserted, Sole, Registering

\* The tables of users only grow, so it is enough to look at the request that
\* makes the step: it registers its user already, or finds the name free.
LEMMA RegistrationFrame ==
    ASSUME RegInv, NEW r \in Requests, req' = req,
           \A q \in Requests \ {r} :
               pc'[q] = pc[q] /\ resp'[q] = resp[q] /\ step'[q] = step[q],
           users \subseteq users', wallets \subseteq wallets', rows \subseteq rows',
           Inserted(r)',
           Registering(r)' => Registering(r) \/ req[r].user \notin users
    PROVE  RegInv'
<1>1. \A q \in Requests \ {r} :
        /\ Registering(q)' <=> Registering(q)
        /\ Inserted(q)'
  BY DEF RegInv, Inserted, Registering
<1>2. ASSUME NEW q \in Requests \ {r}, Registering(q), Registering(r)'
      PROVE  req[q].user # req[r].user
  <2>1. CASE Registering(r)
    BY <1>2, <2>1 DEF RegInv, Sole
  <2>2. CASE req[r].user \notin users
    BY <1>2, <2>2 DEF RegInv, Inserted
  <2> QED BY <1>2, <2>1, <2>2
<1>3. ASSUME NEW p \in Requests, NEW q \in Requests \ {p}
      PROVE  Sole(p, q)'
  <2>1. CASE p = r
    BY <1>1, <1>2, <2>1 DEF Sole
  <2>2. CASE q = r
    BY <1>1, <1>2, <2>2 DEF Sole
  <2>3. CASE p # r /\ q # r
    BY <1>1, <2>3 DEF RegInv, Sole
  <2> QED BY <2>1, <2>2, <2>3
<1>4. \A q \in Requests : Inserted(q)'
  BY <1>1
<1> QED BY <1>3, <1>4 DEF RegInv

\* The steps that have nothing to do with registration.
Later == {"getUser", "getWallet", "getBalances", "deposit", "withdraw", "getRate", "debit",
          "credit", "commit", "publish"}

Unrelated(r) ==
    /\ Control(r)
    /\ UNCHANGED <<users, wallets, rows, req, step>>
    /\ \/ \E s \in Later : At(r, s)
       \/ \E c \in Codes \ {201} : Told(r, c)
       \/ pc[r] = "idle" /\ At(r, "createUser")

LEMMA UnrelatedKeeps ==
    ASSUME IInv, RegInv, NEW r \in Requests, Unrelated(r)
    PROVE  RegInv'
<1>1. /\ req' = req /\ UNCHANGED <<users, wallets, rows, step>>
      /\ \A q \in Requests \ {r} : pc'[q] = pc[q] /\ resp'[q] = resp[q]
  BY DEF Unrelated, Control
<1>2. pc'[r] \notin {"createWallet", "createBalance"}
  BY DEF Unrelated, Later, At, Told
<1>3. resp'[r] = 201 => resp[r] = 201
  BY DEF Unrelated, At, Told
<1>4. pc'[r] \in {"idle", "createUser", "createWallet"} => pc[r] = "idle"
  BY DEF Unrelated, Later, At, Told
<1>5. Inserted(r)
  BY DEF RegInv
<1>6. Inserted(r)'
  BY <1>1, <1>2, <1>3, <1>4, <1>5 DEF Inserted, Registering
<1>7. Registering(r)' => Registering(r)
  BY <1>2, <1>3 DEF Registering
<1> QED BY <1>1, <1>6, <1>7, RegistrationFrame

\* Goto and Answer in the words of Unrelated.
LEMMA GotoLater ==
    ASSUME TypeOK, NEW r \in Requests, NEW s \in Later, Goto(r, s)
    PROVE  Control(r) /\ \E t \in Later : At(r, t)
<1>1. s \in Steps
  BY CodesAndSteps DEF Later, DBSteps
<1> QED BY <1>1, GotoStep

LEMMA MovedLater ==
    ASSUME TypeOK, NEW r \in Requests, NEW s \in Later, MovedOrLost(r, s)
    PROVE  /\ Control(r)
           /\ (\E t \in Later : At(r, t)) \/ (\E c \in Codes \ {201} : Told(r, c))
<1>1. s \in Steps /\ 500 \in Codes \ {201}
  BY CodesAndSteps DEF Later, DBSteps
<1> QED BY <1>1, MovedOrLostStep

LEMMA AnswerOther ==
    ASSUME TypeOK, NEW r \in Requests, NEW c \in {200, 400, 401, 404, 409, 500}, Answer(r, c)
    PROVE  Control(r) /\ \E d \in Codes \ {201} : Told(r, d)
<1>1. c \in Codes \ {201}
  BY CodesAndSteps
<1> QED BY <1>1, AnswerStep

LEMMA ReceiveUnrelated ==
    ASSUME IInv, NEW r \in Requests, Receive(r)
    PROVE  Unrelated(r)
<1>1. TypeOK /\ pc[r] = "idle" /\ UNCHANGED <<users, wallets, rows, req, step>>
  BY DEF IInv, Receive, tables, locals
<1>2. CASE Answer(r, 401) \/ Answer(r, 400)
  BY <1>1, <1>2, AnswerOther DEF Unrelated
<1>3. CASE Goto(r, FirstStep(req[r]))
  <2>1. CASE FirstStep(req[r]) = "createUser"
    BY <1>1, <1>3, <2>1, CodesAndSteps, GotoStep DEF Unrelated, DBSteps
  <2>2. CASE FirstStep(req[r]) \in Later
    BY <1>1, <1>3, <2>2, GotoLater DEF Unrelated
  <2> QED BY <2>1, <2>2 DEF FirstStep, Later
<1> QED BY <1>2, <1>3 DEF Receive

LEMMA ReadUnrelated ==
    ASSUME IInv, NEW r \in Requests,
           GetUserByUsername(r) \/ GetWalletIDByUserID(r) \/ GetRateWithSource(r) \/ GetBalances(r)
    PROVE  Unrelated(r)
<1>1. TypeOK /\ StepInv(r) /\ UNCHANGED <<users, wallets, rows, req, step>>
  BY DEF IInv, RequestInv, GetUserByUsername, GetWalletIDByUserID, GetRateWithSource,
         GetBalances, tables, locals
<1>2. \/ \E s \in Later : Goto(r, s)
      \/ \E c \in {200, 400, 401, 404, 409, 500} : Answer(r, c)
  <2>1. CASE GetUserByUsername(r)
    BY <2>1 DEF GetUserByUsername
  <2>2. CASE GetWalletIDByUserID(r)
    <3>1. req[r].op \in {"balance", "deposit", "withdraw", "exchange"}
      BY <1>1, <2>2 DEF GetWalletIDByUserID, StepInv, MoneyOps
    <3> QED BY <2>2, <3>1 DEF GetWalletIDByUserID, Later
  <2>3. CASE GetRateWithSource(r)
    BY <2>3 DEF GetRateWithSource, Later
  <2>4. CASE GetBalances(r)
    BY <2>4 DEF GetBalances, Later
  <2> QED BY <2>1, <2>2, <2>3, <2>4
<1> QED BY <1>1, <1>2, GotoLater, AnswerOther DEF Unrelated

LEMMA MoneyUnrelated ==
    ASSUME IInv, NEW r \in Requests,
           Deposit(r) \/ Withdraw(r) \/ Debit(r) \/ Credit(r) \/ Commit(r)
    PROVE  Unrelated(r)
<1>1. TypeOK /\ UNCHANGED <<users, wallets, rows, req, step>>
  BY DEF IInv, Deposit, Withdraw, Debit, Credit, Commit, tables, locals
<1>2. \/ \E s \in Later : Goto(r, s) \/ MovedOrLost(r, s)
      \/ \E c \in {200, 400, 401, 404, 409, 500} : Answer(r, c)
  <2>1. CASE Deposit(r) \/ Withdraw(r)
    BY <2>1 DEF Deposit, Withdraw, Later
  <2>2. CASE Debit(r) \/ Credit(r)
    BY <2>2 DEF Debit, Credit, Later
  <2>3. CASE Commit(r)
    BY <2>3 DEF Commit, Later
  <2> QED BY <2>1, <2>2, <2>3
<1> QED BY <1>1, <1>2, GotoLater, MovedLater, AnswerOther DEF Unrelated

LEMMA EndUnrelated ==
    ASSUME IInv, NEW r \in Requests, Publish(r) \/ DBError(r) \/ DeadlockAbort(r)
    PROVE  Unrelated(r)
<1>1. TypeOK /\ UNCHANGED <<users, wallets, rows, req, step>>
  BY DEF IInv, Publish, DBError, DeadlockAbort, tables, locals
<1>2. CASE Publish(r)
  <2>1. event' \in [Requests -> Fates]
    BY <1>1, <1>2 DEF TypeOK, Publish, Fates
  <2>2. Control(r) /\ Told(r, 200)
    BY <1>1, <1>2, <2>1, CodesAndSteps DEF TypeOK, Publish, Control, Told
  <2>3. 200 \in Codes \ {201}
    BY CodesAndSteps
  <2> QED BY <1>1, <2>2, <2>3 DEF Unrelated
<1>3. CASE DBError(r) \/ DeadlockAbort(r)
  BY <1>1, <1>3, AnswerOther DEF DBError, DeadlockAbort, Unrelated
<1> QED BY <1>2, <1>3

LEMMA CreateUserRegisters ==
    ASSUME IInv, RegInv, NEW r \in Requests, CreateUser(r)
    PROVE  RegInv'
<1>1. TypeOK /\ UNCHANGED <<wallets, rows, req, step>> /\ pc[r] = "createUser"
  BY DEF IInv, CreateUser, locals
<1>2. CASE Answer(r, 409) /\ UNCHANGED users
  BY <1>1, <1>2, AnswerOther, UnrelatedKeeps DEF Unrelated
<1>3. CASE /\ req[r].user \notin users /\ users' = users \cup {req[r].user}
           /\ GotoOrLost(r, "createWallet")
  <2>1. Control(r) /\ (At(r, "createWallet") \/ Told(r, 500))
    BY <1>1, <1>3, CodesAndSteps, GotoOrLostStep DEF DBSteps
  <2>2. resp[r] # 201 /\ step[r] = 1
    BY <1>1 DEF IInv, RequestInv, StepInv, RegInv, Inserted
  <2>3. Inserted(r)'
    BY <1>1, <1>3, <2>1, <2>2 DEF Inserted, Registering, At, Told
  <2>4. /\ \A q \in Requests \ {r} : pc'[q] = pc[q] /\ resp'[q] = resp[q] /\ step'[q] = step[q]
        /\ users \subseteq users'
    BY <1>1, <1>3, <2>1 DEF Control
  <2> QED BY <1>1, <1>3, <2>3, <2>4, RegistrationFrame
<1> QED BY <1>2, <1>3 DEF CreateUser, Unique

LEMMA CreateWalletRegisters ==
    ASSUME IInv, RegInv, NEW r \in Requests, CreateWalletForUser(r)
    PROVE  RegInv'
<1>1. /\ TypeOK /\ UNCHANGED <<users, rows, req, step>> /\ pc[r] = "createWallet"
      /\ wallets' = wallets \cup {req[r].user}
  BY DEF IInv, CreateWalletForUser, locals
<1>2. Control(r) /\ (At(r, "createBalance") \/ Told(r, 500))
  BY <1>1, CodesAndSteps, GotoOrLostStep DEF CreateWalletForUser, DBSteps
<1>3. resp[r] # 201 /\ step[r] = 1 /\ req[r].user \in users /\ Registering(r)
  BY <1>1 DEF IInv, RequestInv, StepInv, RegInv, Inserted, Registering
<1>4. Inserted(r)'
  BY <1>1, <1>2, <1>3 DEF Inserted, Registering, At, Told
<1>5. \A q \in Requests \ {r} : pc'[q] = pc[q] /\ resp'[q] = resp[q] /\ step'[q] = step[q]
  BY <1>1, <1>2 DEF Control
<1> QED BY <1>1, <1>3, <1>4, <1>5, RegistrationFrame

LEMMA CreateBalanceRegisters ==
    ASSUME IInv, RegInv, NEW r \in Requests, CreateBalance(r)
    PROVE  RegInv'
<1> DEFINE k == step[r]
           n == Len(supportedCurrencies)
<1>1. /\ TypeOK /\ UNCHANGED <<users, wallets, req>> /\ pc[r] = "createBalance"
      /\ rows' = rows \cup {<<req[r].user, supportedCurrencies[k]>>}
  BY DEF IInv, CreateBalance
<1>2. Registering(r) /\ req[r].user \in users \cap wallets /\ resp[r] # 201
  BY <1>1 DEF IInv, RequestInv, StepInv, RegInv, Inserted, Registering
<1>3. \A i \in 1..n : i < k => <<req[r].user, supportedCurrencies[i]>> \in rows
  BY <1>1 DEF RegInv, Inserted
<1>4. n \in Nat /\ k \in 1..n
  BY <1>1, CurrenciesAssumption DEF TypeOK
<1>5. \A i \in 1..n : i < k + 1 => <<req[r].user, supportedCurrencies[i]>> \in rows'
  <2>1. \A i \in 1..n : i < k + 1 => i < k \/ i = k
    BY <1>4
  <2> QED BY <1>1, <1>3, <2>1
<1>6. \A q \in Requests \ {r} : step'[q] = step[q]
  BY <1>1 DEF CreateBalance, TypeOK
<1>7. CASE k # n /\ step'[r] = k + 1 /\ GotoOrLost(r, "createBalance")
  <2>1. Control(r) /\ (At(r, "createBalance") \/ Told(r, 500))
    BY <1>1, <1>7, CodesAndSteps, GotoOrLostStep DEF DBSteps
  <2>2. Inserted(r)'
    BY <1>1, <1>2, <1>5, <1>7, <2>1 DEF Inserted, Registering, At, Told
  <2>3. \A q \in Requests \ {r} : pc'[q] = pc[q] /\ resp'[q] = resp[q]
    BY <2>1 DEF Control
  <2> QED BY <1>1, <1>2, <1>6, <2>2, <2>3, RegistrationFrame
<1>8. CASE k = n /\ UNCHANGED step /\ (Answer(r, 201) \/ Answer(r, 500))
  <2>1. Control(r) /\ (Told(r, 201) \/ Told(r, 500))
    BY <1>1, <1>8, CodesAndSteps, AnswerStep
  <2>2. \A i \in 1..n : <<req[r].user, supportedCurrencies[i]>> \in rows'
    BY <1>4, <1>5, <1>8
  <2>3. Inserted(r)'
    BY <1>1, <1>2, <2>1, <2>2 DEF Inserted, Registering, Told
  <2>4. \A q \in Requests \ {r} : pc'[q] = pc[q] /\ resp'[q] = resp[q]
    BY <2>1 DEF Control
  <2> QED BY <1>1, <1>2, <1>6, <2>3, <2>4, RegistrationFrame
<1>9. ~LastCurrency(k) => step'[r] = k + 1
  BY <1>1 DEF CreateBalance, TypeOK, LastCurrency
<1> QED BY <1>7, <1>8, <1>9 DEF CreateBalance, LastCurrency

LEMMA NextRegistration == IInv /\ RegInv /\ [Next]_vars => RegInv'
<1> SUFFICES ASSUME IInv, RegInv, [Next]_vars PROVE RegInv'
  OBVIOUS
<1>1. ASSUME NEW r \in Requests, ActionOf(r)
      PROVE  RegInv'
  BY <1>1, UnrelatedKeeps, ReceiveUnrelated, ReadUnrelated, MoneyUnrelated, EndUnrelated,
     CreateUserRegisters, CreateWalletRegisters, CreateBalanceRegisters
     DEF ActionOf, HandlerStep, HandleRegister, HandleLogin, HandleBalance, HandleDeposit,
         HandleWithdraw, HandleExchange
<1>2. CASE Crash
  <2>1. UNCHANGED <<users, wallets, rows, req, step, resp>>
    BY <1>2 DEF Crash, tables, locals
  <2>2. \A r \in Requests : pc'[r] \in {pc[r], "dead"}
    BY <1>2 DEF Crash
  <2> QED BY <2>1, <2>2 DEF RegInv, Inserted, Sole, Registering
<1>3. CASE UNCHANGED vars
  BY <1>3 DEF vars, tables, locals, RegInv, Inserted, Sole, Registering
<1> QED BY <1>1, <1>2, <1>3 DEF Next, AllEnded, ActionOf

\* RegisteredIsComplete: 201 is answered to at most one of the requests that race
\* for a name, and only when user, wallet and every balance are there.
THEOREM RegistrationsComplete == Spec => []RegisteredIsComplete
<1>1. IInv /\ RegInv => RegisteredIsComplete
  <2> SUFFICES ASSUME IInv, RegInv, NEW r \in Requests, resp[r] = 201
               PROVE  /\ req[r].user \in users \cap wallets
                      /\ {req[r].user} \X Currencies \subseteq rows
                      /\ \A s \in Requests \ {r} :
                           resp[s] = 201 => req[s].user # req[r].user
    BY DEF RegisteredIsComplete
  <2>1. req[r].user \in users \cap wallets
    BY DEF RegInv, Inserted, Registering
  <2>2. \A i \in 1..Len(supportedCurrencies) : <<req[r].user, supportedCurrencies[i]>> \in rows
    BY DEF RegInv, Inserted
  <2>3. {req[r].user} \X Currencies \subseteq rows
    BY <2>2 DEF Currencies
  <2>4. \A s \in Requests \ {r} : resp[s] = 201 => req[s].user # req[r].user
    BY DEF RegInv, Sole, Registering
  <2> QED BY <2>1, <2>3, <2>4
<1> QED BY <1>1, Invariance, InitRegistration, NextRegistration, PTL DEF Spec
=============================================================================
