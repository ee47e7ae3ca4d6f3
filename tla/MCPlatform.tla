------------------------------ MODULE MCPlatform ------------------------------
(* Small instances of Platform for TLC.                                    *)
EXTENDS Platform, TLC

\* Every charger stands at the one station.
OneStation == [c \in Charger |-> CHOOSE s \in Station : TRUE]

\* Every charger stands at a station of its own.
OwnStation ==
  CHOOSE f \in [Charger -> Station] : \A c, d \in Charger : f[c] = f[d] => c = d

\* At one station nothing distinguishes a booking, user or charger from another.
Symmetric == Permutations(Booking) \cup Permutations(User) \cup Permutations(Charger)

\* Users do differ when only one of them reports faults.
SymmetricBookings == Permutations(Booking)

\* Chargers at stations of their own are exchanged together with these.
Exchanged ==
  [x \in Charger \cup Station |->
     IF x \in Charger THEN CHOOSE c \in Charger : c # x ELSE CHOOSE s \in Station : s # x]
SymmetricStations == Permutations(Booking) \cup Permutations(User) \cup {Exchanged}
=============================================================================
