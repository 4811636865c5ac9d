--------------------------- MODULE MCWalletLedger ---------------------------
(* Small instances of WalletLedger for TLC.                                *)
EXTENDS WalletLedger, TLC

CONSTANTS r1, r2, r3, r4

MCCurrencies == <<"USD", "RUB", "EUR">>

Q(op, user, cur, to, mills) ==
    [op |-> op, user |-> user, cur |-> cur, to |-> to, amount |-> mills,
     wellFormed |-> TRUE]

\* Requests of a user whose wallet exists compete for its rows: amounts that are
\* covered once but not twice, exchanges in both directions, amounts below,
\* at and above half a cent, an overflowing deposit, and requests that are
\* refused before they reach the database.  Another user registers, logs in and
\* deposits meanwhile.
LedgerWorkload ==
    { Q("deposit", "ann", "USD", "USD", 25),
      Q("deposit", "ann", "EUR", "USD", 60),
      Q("withdraw", "ann", "USD", "USD", 35),
      Q("exchange", "ann", "USD", "EUR", 30),
      Q("exchange", "ann", "EUR", "USD", 36),
      Q("exchange", "ann", "RUB", "USD", 4),
      Q("balance", "ann", "USD", "USD", 0),
      [Q("deposit", "ann", "USD", "USD", 0) EXCEPT !.wellFormed = FALSE],
      Q("exchange", "ann", "USD", "USD", 30),
      Q("register", "bob", "USD", "USD", 0),
      Q("login", "bob", "USD", "USD", 0),
      Q("deposit", "bob", "EUR", "EUR", 30) }

\* A user who registers, logs in and exchanges while the registration runs.
RegisterWorkload ==
    { Q("register", "bob", "USD", "USD", 0),
      Q("login", "bob", "USD", "USD", 0),
      Q("deposit", "bob", "USD", "USD", 30),
      Q("exchange", "bob", "USD", "EUR", 30) }

\* Requests whose row locks can form cycles of length two and three.
LiveWorkload ==
    { Q("withdraw", "ann", "USD", "USD", 35),
      Q("exchange", "ann", "USD", "EUR", 20),
      Q("exchange", "ann", "EUR", "RUB", 20),
      Q("exchange", "ann", "RUB", "USD", 20) }

LargeExchange == { Q("exchange", "ann", "USD", "EUR", 30) }

MCSymmetry == Permutations(Requests)
=============================================================================
