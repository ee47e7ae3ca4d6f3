---------------------------- MODULE ChargerCustody ----------------------------
(***************************************************************************)
(* What the platform promises about a charger, whatever tables it keeps:   *)
(* at any time exactly one thing is true of it.  It is free, out of        *)
(* service, or claimed by one user, who was called, reserved it or charges *)
(* on it; and no user claims two.  A claim passes from user to user only   *)
(* between two calls, and only a reservation turns into a charge.          *)
(***************************************************************************)
CONSTANTS Charger, User, None

VARIABLE claims             \* the set of claims on each charger

Of(phase, u) == [phase |-> phase, user |-> u]
Free == Of("free", None)
Out  == Of("out", None)

Claim == {Free, Out} \cup {Of(phase, u) : phase \in {"called", "reserved", "charging"}, u \in User}

Follows(x, y) ==
  \/ y = x
  \/ x = Free /\ y.phase \in {"out", "called", "reserved"}
  \/ x = Out /\ y = Free
  \/ x.phase = "called" /\ (y = Free \/ y.phase = "called" \/ y = Of("reserved", x.user))
  \/ x.phase = "reserved" /\ (y = Free \/ y = Of("charging", x.user))
  \/ x.phase = "charging" /\ y = Free

OneClaim == claims \in [Charger -> {{x} : x \in Claim}]

OneChargerPerUser ==
  \A c, d \in Charger : \A x \in claims[c], y \in claims[d] :
    x.user # None /\ x.user = y.user => c = d

Init == claims = [c \in Charger |-> {Free}]

\* One transaction may move several chargers.
Move ==
  /\ OneClaim'
  /\ OneChargerPerUser'
  /\ \A c \in Charger : \A x \in claims[c], y \in claims'[c] : Follows(x, y)

Spec == Init /\ [][Move]_claims
=============================================================================
