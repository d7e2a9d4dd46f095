------------------------------- MODULE Ledger -------------------------------
(***************************************************************************)
(* The abstract wallet: every movement is one step, which finds enough      *)
(* money, moves it and writes its line in the history.                      *)
(***************************************************************************)
EXTENDS Balances

CONSTANT Opening      \* the total an account starts with, in parts

VARIABLES balances,   \* account -> row, for the accounts that have one
          balance_events

vars == <<balances, balance_events>>

Init ==
  /\ \E S \in SUBSET Account :
       balances = [a \in S |-> [total |-> Opening, available |-> Opening, reserved |-> 0]]
  /\ balance_events = {}

Move(reference, a, kind, amount) ==
  /\ a \in DOMAIN balances
  /\ \A e \in balance_events : e.reference # reference
  /\ Sufficient(kind, balances[a], amount)
  /\ balances' = [balances EXCEPT ![a] = Moved(kind, @, amount)]
  /\ balance_events' = balance_events \cup
                         {EventOf(reference, a, kind, balances[a], amount)}

Next ==
  \E reference \in Reference, a \in Account, kind \in Kind,
     amount \in UNION {AsF64(asked) : asked \in Amount} : Move(reference, a, kind, amount)

Spec == Init /\ [][Next]_vars
=============================================================================
