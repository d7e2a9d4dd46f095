------------------------------ MODULE Balances ------------------------------
(***************************************************************************)
(* Rows of the balances table and what reserving and releasing do to one:   *)
(* services/wallet-service/src/db.rs, handlers/wallet.rs and                *)
(* sql/0003_wallet.sql.                                                     *)
(*                                                                          *)
(* Money is counted in parts of the columns' last digit (1e-8): the columns *)
(* are NUMERIC(20,8) and hold whole units, but an amount is a Decimal and   *)
(* may be any fraction of one.                                              *)
(***************************************************************************)
EXTENDS Decimals

CONSTANTS Account,      \* pairs of a user and an asset
          Reference,    \* reference_id: the order a movement belongs to
          Amount,       \* amounts asked for, in parts
          Unit,         \* parts of a unit, the last digit of the columns
          F64Precision  \* an f64 keeps an amount to one part in so many

ASSUME AmountAssumption ==
  Amount \subseteq Nat /\ Unit \in Nat \ {0} /\ F64Precision \in Nat \ {0}

Kind == {"ORDER_RESERVE", "ORDER_RELEASE"}

Row == [total: Nat, available: Int, reserved: Int]

BalanceEvent == [reference: Reference, account: Account, kind: Kind, amount: Nat,
                 before_total: Int, after_total: Int]

\* String -> f64 -> Decimal, as the handlers parse an amount.
AsF64(amount) == Parsed(amount, F64Precision)

\* What a NUMERIC(20,8) column makes of a value: halves are rounded away from 0.
Numeric(value) == IF value >= 0 THEN Nearest(value, Unit) ELSE -Nearest(-value, Unit)

Whole(value) == Numeric(value) = value

\* The check between SELECT and UPDATE.
Sufficient(kind, row, amount) ==
  IF kind = "ORDER_RESERVE" THEN row.available >= amount ELSE row.reserved >= amount

\* Mutant: a release gives back without taking from what is reserved.
MovedOneSided(kind, row, amount) ==
  IF kind = "ORDER_RESERVE"
  THEN [row EXCEPT !.available = Numeric(@ - amount), !.reserved = Numeric(@ + amount)]
  ELSE [row EXCEPT !.available = Numeric(@ + amount)]

\* The UPDATE: available and reserved move apart, each rounded when stored; total
\* stays.
Moved(kind, row, amount) ==
  LET taken == IF kind = "ORDER_RESERVE" THEN amount ELSE -amount
  IN  [row EXCEPT !.available = Numeric(@ - taken),
                  !.reserved  = Numeric(@ + taken)]

\* The INSERT into balance_events, from the row as it was read; its columns round.
EventOf(reference, account, kind, row, amount) ==
  [reference |-> reference, account |-> account, kind |-> kind,
   amount |-> Numeric(amount), before_total |-> row.total,
   after_total |-> Numeric(IF kind = "ORDER_RESERVE" THEN row.total - amount
                                                     ELSE row.total + amount)]
=============================================================================
