------------------------------ MODULE Decimals ------------------------------
(***************************************************************************)
(* Decimals on their way into the database.  A number is counted in equal   *)
(* parts, fine enough for every digit that a request may have; a NUMERIC    *)
(* column holds the multiples of a number of parts, its last digit.         *)
(***************************************************************************)
EXTENDS Integers

\* How many steps a column with steps of that size makes of a value that is not
\* negative: the nearest number, the upper one if two are equally near.
Steps(value, step) == (value + step \div 2) \div step

\* What the column then holds.
Nearest(value, step) == step * Steps(value, step)

\* What String -> f64 -> Decimal may give: a number is kept to one part in
\* `precision'; one that is smaller than `precision' has no digits to lose.
Parsed(amount, precision) ==
  amount - amount \div precision .. amount + amount \div precision
=============================================================================
