------------------------------ MODULE MCTripStore ------------------------------
(* A small instance of TripStore for TLC.                                  *)
EXTENDS TripStore, TLC

Plain == [first |-> 1, second |-> 0, minimum |-> 1, budget |-> 3,
          callTimeout |-> 1, reservationTimeout |-> 1, eligibility |-> 3]
Tight == [Plain EXCEPT !.budget = 1]

TwoConfigs == {Plain, Tight}

\* Nothing distinguishes one trip or one user from another.
Symmetric == Permutations(Trip) \cup Permutations(User)
=============================================================================
