------------------------------- MODULE Money -------------------------------
(***************************************************************************)
(* Arithmetic of gw-currency-wallet.  A balance is a NUMERIC(18,2) column, *)
(* so it is kept here in whole cents.  The amount of an HTTP request is a  *)
(* float64 that nobody rounds before it reaches SQL; it is kept in mills   *)
(* (tenths of a cent), which is enough to tell a multiple of a cent from   *)
(* an amount below, at and above half a cent.  A rate is kept in           *)
(* hundredths.  Binary floating-point error is not modelled.               *)
(***************************************************************************)
EXTENDS Integers

\* Mills in one cent.
Mill == 10

\* The assignment of a computed numeric to a NUMERIC(18,2) column: round half
\* away from zero (the arguments here are never negative) to whole cents.
ToNumeric(mills) == (mills + Mill \div 2) \div Mill

\* SET amount = amount + $1, where $1 is the unrounded request amount.
AddTo(cents, mills) == ToNumeric(Mill * cents + mills)

\* SET amount = amount - $1.
TakeFrom(cents, mills) == ToNumeric(Mill * cents - mills)

\* The comparison amount >= $1 is made on the unrounded amount.
Covers(cents, mills) == Mill * cents >= mills

\* exchangedAmount := math.Round(req.Amount*rate*100) / 100, in cents: the
\* product of mills and hundredths is in thousandths of a cent.
ExchangedAmount(mills, rate) == (mills * rate + 500) \div 1000

\* What a client is owed for an amount: the cents a credit adds, and the cents
\* a debit takes.  They differ at exactly half a cent, which is rounded away
\* from zero in the new balance and so in the client's favour both times.
CreditCents(mills) == (mills + 5) \div 10
DebitCents(mills)  == (mills + 4) \div 10
=============================================================================
