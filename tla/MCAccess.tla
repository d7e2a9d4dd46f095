------------------------------ MODULE MCAccess ------------------------------
(* Instances of Access for TLC. *)
EXTENDS Access, TLC

CONSTANTS alice, bob, long, short, first

Typed(address, plain) == [address |-> address, plain |-> plain]

\* Alice in two spellings, and with a password that is not hers, and Bob.
FewCredentials ==
  {<<Typed(alice, FALSE), long>>, <<Typed(alice, TRUE), short>>, <<Typed(bob, TRUE), long>>}

\* Bob has registered, with the first request, before the run begins.
BobRegistered ==
  LET bobs == [Unsent EXCEPT !.phase = "answered", !.kind = "register",
                             !.text = Typed(bob, TRUE), !.password = long,
                             !.user = first, !.answer = "Created"]
  IN  /\ now = 0
      /\ users = With(<<>>, first, [email |-> Typed(bob, TRUE), password_hash |-> long,
                                    status |-> "ACTIVE", since |-> 0, changed |-> FALSE])
      /\ keys = <<>>
      /\ tokens = With(<<>>, first, [sub |-> first, email |-> Typed(bob, TRUE), iat |-> 0,
                                     exp |-> jwt_expiration_secs, read |-> 0])
      /\ requests = [r \in Request |-> IF r = first THEN bobs ELSE Unsent]
      /\ changes = 0

SpecWithBob == BobRegistered /\ [][Next]_vars

\* The other requests are interchangeable.
AnyRequest == Permutations(Request \ {first})
=============================================================================
