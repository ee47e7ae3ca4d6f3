---------------------------- MODULE TripStoreProofs ----------------------------
(***************************************************************************)
(* The invariants of TripStore hold for any finite set of trips and any    *)
(* users, stations, capacities, configurations and durations.              *)
(***************************************************************************)
EXTENDS TripStore, FiniteSetTheorems, WellFoundedInduction, TLAPS

\* What has to hold of statuses st, deadlines dl, turns tn up to q, background
\* bg released at rel, and the instant at, for the invariant to hold of them.
StationsSound(st, bg, rel, at) ==
  \A s \in Station : FreeOf(st, bg, s) >= 0 /\ (bg[s] > 0 => rel[s] > at)
TripsSound(st, dl, tn, q, at) ==
  /\ \A t \in Trip : /\ st[t] \in Active => site[t] \in Station
                     /\ tn[t] <= q
                     /\ st[t] \in {"EN_ROUTE", "QUEUED"} => rewardEnds[t] > at
                     /\ st[t] \in Allocated => dl[t] > at
  /\ \A t, v \in Trip : /\ st[t] = "QUEUED" /\ st[v] = "QUEUED" /\ tn[t] = tn[v] => t = v
                        /\ st[t] \in Active /\ st[v] \in Active /\ owner[t] = owner[v] => t = v

\* The invariant says that the state is sound.
LEMMA IInvIsSound ==
  TypeOK => (IInv <=> /\ Passing
                      /\ TripsSound(status, ends, turn, queueSequence, clock)
                      /\ StationsSound(status, background, release, clock))
BY DEF IInv, TypeOK, TripsSound, StationsSound, Placed, TurnsDistinct, NothingLate, OneTripPerUser,
   NeverOverbooked, Timed, DueAt, Active, Allocated

\* A set of numbers that is not empty has a least one.
LEMMA LeastNumber ==
  ASSUME NEW D \in SUBSET Nat, D # {}
  PROVE  \E d \in D : \A e \in D : d <= e
<1>1. PICK d \in D : \A e \in D : ~(<<e, d>> \in OpToRel(<, Nat))
  BY NatLessThanWellFounded, WFMin
<1>2. ASSUME NEW e \in D
      PROVE  d <= e
  <2>1. ~(e < d)
    BY <1>1 DEF OpToRel
  <2>2. e \in Int /\ d \in Int
    OBVIOUS
  <2>. QED
    BY <2>1, <2>2
<1>. QED
  BY <1>2

\* Of the waiting, those with fewer than k before them are at most k.
LEMMA FirstOnes ==
  ASSUME NEW W, IsFiniteSet(W), NEW q \in Nat, NEW tn, \A t \in W : tn[t] \in 0..q,
         \A t, v \in W : tn[t] = tn[v] => t = v,
         NEW k \in Nat,
         NEW C, C = {t \in W : Cardinality({u \in W : tn[u] < tn[t]}) < k}
  PROVE  Cardinality(C) <= k
<1>1. CASE C = {}
  <2>1. Cardinality(C) = 0
    BY <1>1, FS_EmptySet
  <2>. QED
    BY <2>1
<1>2. CASE C # {}
  <2>. DEFINE D == {q - tn[t] : t \in C}
  <2>0. \A t \in C : t \in W /\ tn[t] \in 0..q
    OBVIOUS
  <2>1. D \in SUBSET Nat /\ D # {}
    <3>1. \A t \in C : q - tn[t] \in Nat
      BY <2>0
    <3>2. \A d \in D : d \in Nat
      BY <3>1
    <3>3. PICK t \in C : TRUE
      BY <1>2
    <3>4. q - tn[t] \in D
      OBVIOUS
    <3>. HIDE DEF D
    <3>. QED
      BY <3>2, <3>4
  <2>2. PICK d \in D : \A e \in D : d <= e
    <3>. HIDE DEF D
    <3>. QED
      BY <2>1, LeastNumber
  <2>3. PICK m \in C : d = q - tn[m]
    OBVIOUS
  <2>4. \A t \in C : tn[t] <= tn[m]
    <3>. SUFFICES ASSUME NEW t \in C PROVE tn[t] <= tn[m]
      OBVIOUS
    <3>1. q - tn[m] <= q - tn[t]
      BY <2>2, <2>3
    <3>. QED
      BY <3>1
  <2>. DEFINE B == {u \in W : tn[u] < tn[m]}
  <2>5. IsFiniteSet(C) /\ IsFiniteSet(B) /\ IsFiniteSet(C \ {m})
    BY FS_Subset
  <2>6. C \ {m} \subseteq B
    <3>. SUFFICES ASSUME NEW t \in C, t # m PROVE tn[t] < tn[m]
      BY <2>0
    <3>1. tn[t] <= tn[m] /\ tn[t] # tn[m] /\ tn[t] \in Int /\ tn[m] \in Int
      BY <2>0, <2>4
    <3>. QED
      BY <3>1
  <2>7. Cardinality(C \ {m}) <= Cardinality(B)
    BY <2>5, <2>6, FS_Subset
  <2>8. Cardinality(C \ {m}) = Cardinality(C) - 1
    BY <2>5, FS_RemoveElement
  <2>9. Cardinality(B) < k
    OBVIOUS
  <2>. QED
    BY <2>5, <2>7, <2>8, <2>9, FS_CardinalityType
<1>. QED
  BY <1>1, <1>2

\* Every status is what it was, or that of a call for someone who waited.
LEMMA CalledOrLeft ==
  ASSUME TypeOK, NEW st \in [Trip -> Status], NEW bg, NEW tn, NEW dl \in [Trip -> Nat], NEW at \in Nat,
         NEW new, new = Called(st, bg, tn), NEW after, after = Deadlines(st, bg, tn, dl, at)
  PROVE  /\ new \in [Trip -> Status]
         /\ after \in [Trip -> Nat]
         /\ \A t \in Trip :
              \/ /\ t \in Callable(st, bg, tn)
                 /\ st[t] = "QUEUED" /\ new[t] = "CALLED" /\ after[t] > at
              \/ /\ t \notin Callable(st, bg, tn)
                 /\ new[t] = st[t]
                 /\ st[t] \in Allocated => after[t] = dl[t]
<1>1. config.callTimeout \in Nat \ {0}
  BY TripAssumption DEF TripAssumption, TypeOK, Config
<1>2. "CALLED" \in Status
  BY DEF Status, Active, Allocated
<1>. QED
  BY <1>1, <1>2 DEF Called, Deadlines, Callable, Marked

\* Those who wait at a station and are called.
Chosen(st, bg, tn, s) ==
  {t \in Waiting(st, s) : Cardinality({u \in Waiting(st, s) : tn[u] < tn[t]}) < FreeOf(st, bg, s)}

\* Those called at a station take one free charger each.
LEMMA DispatchCounts ==
  ASSUME TypeOK, NEW st \in [Trip -> Status], NEW bg \in [Station -> Nat], NEW tn, NEW s \in Station,
         NEW new, \A t \in Trip : \/ t \in Callable(st, bg, tn) /\ new[t] = "CALLED"
                                  \/ t \notin Callable(st, bg, tn) /\ new[t] = st[t]
  PROVE  /\ FreeOf(st, bg, s) \in Int /\ Cardinality(Chosen(st, bg, tn, s)) \in Nat
         /\ FreeOf(new, bg, s) = FreeOf(st, bg, s) - Cardinality(Chosen(st, bg, tn, s))
         /\ IsFiniteSet(Waiting(st, s))
         /\ \A t \in At(s) : t \in Callable(st, bg, tn) <=> t \in Chosen(st, bg, tn, s)
<1>. DEFINE W == Waiting(st, s)
            C == {t \in W : Cardinality({u \in W : tn[u] < tn[t]}) < FreeOf(st, bg, s)}
            Before == {t \in At(s) : st[t] \in Allocated}
            After == {t \in At(s) : new[t] \in Allocated}
<1>1. IsFiniteSet(W) /\ IsFiniteSet(Before) /\ IsFiniteSet(C)
  BY TripAssumption, FS_Subset DEF TripAssumption, Waiting, At
<1>2. Cardinality(Before) \in Nat /\ Cardinality(C) \in Nat
  BY <1>1, FS_CardinalityType
<1>3. capacity[s] \in Nat /\ bg[s] \in Nat
  BY TripAssumption DEF TypeOK, TripAssumption
<1>4. FreeOf(st, bg, s) = capacity[s] - bg[s] - Cardinality(Before)
  BY DEF FreeOf, Taken
<1>5. \A t \in At(s) : t \in Callable(st, bg, tn) <=> t \in C
  <2>. SUFFICES ASSUME NEW t \in At(s) PROVE t \in Callable(st, bg, tn) <=> t \in C
    OBVIOUS
  <2>1. t \in Trip /\ site[t] = s
    BY DEF At
  <2>2. Ahead(st, tn, t) = {u \in W : tn[u] < tn[t]}
    BY <2>1 DEF Ahead
  <2>. QED
    BY <2>1, <2>2 DEF Callable, Waiting
<1>6. After = Before \cup C
  <2>1. \A t \in C : t \in At(s)
    BY DEF Waiting
  <2>2. At(s) \subseteq Trip
    BY DEF At
  <2>. QED
    BY <1>5, <2>1, <2>2 DEF Allocated, Callable
<1>7. Cardinality(Before \cap C) = 0
  <2>1. Before \cap C = {}
    BY DEF Allocated, Waiting
  <2>. QED
    BY <2>1, FS_EmptySet
<1>8. Cardinality(After) = Cardinality(Before) + Cardinality(C)
  <2>. HIDE DEF Before, After
  <2>1. Cardinality(Before \cup C) = Cardinality(Before) + Cardinality(C) - Cardinality(Before \cap C)
    BY <1>1, FS_Union
  <2>2. Cardinality(Before \cup C) = Cardinality(Before) + Cardinality(C)
    BY <1>2, <1>7, <2>1
  <2>. QED
    BY <1>6, <2>2
<1>9. FreeOf(new, bg, s) = capacity[s] - bg[s] - Cardinality(After)
  BY DEF FreeOf, Taken
<1>10. C = Chosen(st, bg, tn, s)
  BY DEF Chosen
<1>. HIDE DEF C, Before, After
<1>. QED
  BY <1>1, <1>2, <1>3, <1>4, <1>5, <1>8, <1>9, <1>10

\* Calling as many as there are free chargers takes no more than there are.
LEMMA DispatchFits ==
  ASSUME TypeOK, NEW st \in [Trip -> Status], NEW bg \in [Station -> Nat],
         NEW tn \in [Trip -> Nat], NEW q \in Nat, \A t \in Trip : tn[t] <= q,
         \A t, v \in Trip : st[t] = "QUEUED" /\ st[v] = "QUEUED" /\ tn[t] = tn[v] => t = v,
         NEW s \in Station, FreeOf(st, bg, s) >= 0,
         NEW new, \A t \in Trip : \/ t \in Callable(st, bg, tn) /\ new[t] = "CALLED"
                                  \/ t \notin Callable(st, bg, tn) /\ new[t] = st[t]
  PROVE  FreeOf(new, bg, s) >= 0
<1>. DEFINE W == Waiting(st, s)
            k == FreeOf(st, bg, s)
            C == {t \in W : Cardinality({u \in W : tn[u] < tn[t]}) < k}
<1>0. C = Chosen(st, bg, tn, s)
  BY DEF Chosen
<1>1. /\ k \in Int /\ Cardinality(C) \in Nat
      /\ FreeOf(new, bg, s) = k - Cardinality(C)
      /\ IsFiniteSet(W)
  <2>. HIDE DEF C
  <2>. QED
    BY <1>0, DispatchCounts
<1>2. \A t \in W : tn[t] \in 0..q
  BY DEF Waiting, At
<1>3. \A t, v \in W : tn[t] = tn[v] => t = v
  BY DEF Waiting, At
<1>4. C = {t \in W : Cardinality({u \in W : tn[u] < tn[t]}) < k}
  OBVIOUS
<1>5. k \in Nat
  BY <1>1
<1>. HIDE DEF W, C, k
<1>6. Cardinality(C) <= k
  BY <1>1, <1>2, <1>3, <1>4, <1>5, FirstOnes
<1>. QED
  BY <1>1, <1>5, <1>6

\* And it leaves no charger free before someone who goes on waiting.
LEMMA DispatchFills ==
  ASSUME TypeOK, NEW st \in [Trip -> Status], NEW bg \in [Station -> Nat], NEW tn \in [Trip -> Nat],
         NEW s \in Station,
         NEW new, \A t \in Trip : \/ t \in Callable(st, bg, tn) /\ new[t] = "CALLED"
                                  \/ t \notin Callable(st, bg, tn) /\ new[t] = st[t],
         NEW w \in At(s), new[w] = "QUEUED"
  PROVE  FreeOf(new, bg, s) <= 0
<1>. DEFINE W == Waiting(st, s)
            k == FreeOf(st, bg, s)
            C == {t \in W : Cardinality({u \in W : tn[u] < tn[t]}) < k}
<1>0. C = Chosen(st, bg, tn, s)
  BY DEF Chosen
<1>1. /\ k \in Int /\ Cardinality(C) \in Nat
      /\ FreeOf(new, bg, s) = k - Cardinality(C)
      /\ IsFiniteSet(W)
      /\ \A t \in At(s) : t \in Callable(st, bg, tn) <=> t \in C
  <2>. HIDE DEF C
  <2>. QED
    BY <1>0, DispatchCounts
<1>2. w \in W \ C
  <2>1. w \in Trip /\ w \notin Callable(st, bg, tn) /\ st[w] = "QUEUED"
    BY DEF At
  <2>. QED
    BY <1>1, <2>1 DEF Waiting
<1>3. W \subseteq Trip
  BY DEF Waiting, At
<1>4. PICK m \in W \ C : \A t \in W \ C : tn[m] <= tn[t]
  <2>. DEFINE D == {tn[t] : t \in W \ C}
  <2>1. D \in SUBSET Nat /\ D # {}
    BY <1>2, <1>3
  <2>2. PICK d \in D : \A e \in D : d <= e
    <3>. HIDE DEF D
    <3>. QED
      BY <2>1, LeastNumber
  <2>3. PICK m \in W \ C : d = tn[m]
    BY <2>2
  <2>4. \A t \in W \ C : tn[m] <= tn[t]
    BY <2>2, <2>3
  <2>. QED
    BY <2>4
<1>5. {u \in W : tn[u] < tn[m]} \subseteq C
  <2>. SUFFICES ASSUME NEW u \in W, tn[u] < tn[m], u \notin C PROVE FALSE
    OBVIOUS
  <2>1. tn[m] <= tn[u] /\ tn[m] \in Int /\ tn[u] \in Int
    BY <1>3, <1>4
  <2>. QED
    BY <2>1
<1>6. IsFiniteSet(C)
  BY <1>1, FS_Subset
<1>7. /\ Cardinality({u \in W : tn[u] < tn[m]}) <= Cardinality(C)
      /\ Cardinality({u \in W : tn[u] < tn[m]}) \in Nat
  BY <1>5, <1>6, FS_Subset, FS_CardinalityType
<1>8. ~(Cardinality({u \in W : tn[u] < tn[m]}) < k)
  BY <1>4
<1>. HIDE DEF W, C, k
<1>. QED
  BY <1>1, <1>7, <1>8

\* Who is called past someone who goes on waiting came before.
LEMMA DispatchOrder ==
  ASSUME TypeOK, NEW st \in [Trip -> Status], NEW bg \in [Station -> Nat], NEW tn \in [Trip -> Nat],
         \A t, v \in Trip : st[t] = "QUEUED" /\ st[v] = "QUEUED" /\ tn[t] = tn[v] => t = v,
         NEW t \in Trip, t \in Callable(st, bg, tn),
         NEW v \in Trip, v \notin Callable(st, bg, tn), st[v] = "QUEUED",
         site[t] = site[v], site[t] \in Station
  PROVE  tn[t] < tn[v]
<1>. SUFFICES ASSUME ~(tn[t] < tn[v]) PROVE FALSE
  OBVIOUS
<1>1. st[t] = "QUEUED" /\ t # v
  BY DEF Callable
<1>2. tn[v] < tn[t]
  <2>1. tn[t] # tn[v] /\ tn[t] \in Int /\ tn[v] \in Int
    BY <1>1
  <2>. QED
    BY <2>1
<1>3. Ahead(st, tn, v) \subseteq Ahead(st, tn, t)
  <2>. SUFFICES ASSUME NEW u \in Waiting(st, site[v]), tn[u] < tn[v] PROVE tn[u] < tn[t]
    BY DEF Ahead
  <2>1. tn[u] \in Int /\ tn[v] \in Int /\ tn[t] \in Int
    BY DEF Waiting, At
  <2>. QED
    BY <1>2, <2>1
<1>4. IsFiniteSet(Ahead(st, tn, t))
  BY TripAssumption, FS_Subset DEF TripAssumption, Ahead, Waiting, At
<1>5. /\ Cardinality(Ahead(st, tn, v)) <= Cardinality(Ahead(st, tn, t))
      /\ Cardinality(Ahead(st, tn, v)) \in Nat /\ Cardinality(Ahead(st, tn, t)) \in Nat
  BY <1>3, <1>4, FS_Subset, FS_CardinalityType
<1>6. FreeOf(st, bg, site[t]) \in Int
  <2>1. IsFiniteSet({u \in At(site[t]) : st[u] \in Allocated})
    BY TripAssumption, FS_Subset DEF TripAssumption, At
  <2>2. Taken(st, site[t]) \in Nat
    BY <2>1, FS_CardinalityType DEF Taken
  <2>. QED
    BY <2>2, TripAssumption DEF FreeOf, TypeOK, TripAssumption
<1>. QED
  BY <1>5, <1>6 DEF Callable

\* Looking at the queues keeps a state sound.
LEMMA DispatchKeeps ==
  ASSUME TypeOK, NEW st \in [Trip -> Status], NEW bg \in [Station -> Nat], NEW rel,
         NEW tn \in [Trip -> Nat], NEW q \in Nat, NEW dl \in [Trip -> Nat], NEW at \in Nat,
         TripsSound(st, dl, tn, q, at), StationsSound(st, bg, rel, at),
         NEW new, new = Called(st, bg, tn), NEW after, after = Deadlines(st, bg, tn, dl, at)
  PROVE  /\ new \in [Trip -> Status]
         /\ after \in [Trip -> Nat]
         /\ TripsSound(new, after, tn, q, at)
         /\ StationsSound(new, bg, rel, at)
<1>1. /\ new \in [Trip -> Status]
      /\ after \in [Trip -> Nat]
      /\ \A t \in Trip :
           \/ /\ t \in Callable(st, bg, tn)
              /\ st[t] = "QUEUED" /\ new[t] = "CALLED" /\ after[t] > at
           \/ /\ t \notin Callable(st, bg, tn)
              /\ new[t] = st[t]
              /\ st[t] \in Allocated => after[t] = dl[t]
  BY CalledOrLeft
<1>2. TripsSound(new, after, tn, q, at)
  BY <1>1 DEF TripsSound, Active, Allocated
<1>3. ASSUME NEW s \in Station
      PROVE  FreeOf(new, bg, s) >= 0
  <2>1. /\ \A t \in Trip : tn[t] <= q
        /\ \A t, v \in Trip : st[t] = "QUEUED" /\ st[v] = "QUEUED" /\ tn[t] = tn[v] => t = v
    BY DEF TripsSound
  <2>2. FreeOf(st, bg, s) >= 0
    BY DEF StationsSound
  <2>3. \A t \in Trip : \/ t \in Callable(st, bg, tn) /\ new[t] = "CALLED"
                        \/ t \notin Callable(st, bg, tn) /\ new[t] = st[t]
    BY <1>1
  <2>. QED
    BY <2>1, <2>2, <2>3, DispatchFits
<1>. QED
  BY <1>1, <1>2, <1>3 DEF StationsSound

\* A step that looks at the queues of a sound state reaches a sound state.
LEMMA DispatchStep ==
  ASSUME TypeOK, NEW st \in [Trip -> Status], NEW bg \in [Station -> Nat], NEW rel,
         NEW tn \in [Trip -> Nat], NEW q \in Nat, NEW dl \in [Trip -> Nat], NEW at \in Nat,
         TripsSound(st, dl, tn, q, at), StationsSound(st, bg, rel, at),
         status' = Called(st, bg, tn), ends' = Deadlines(st, bg, tn, dl, at),
         turn' = tn, queueSequence' = q, background' = bg, release' = rel, clock' = at,
         UNCHANGED <<offerVars, planVars, capacity>>
  PROVE  /\ status' \in [Trip -> Status]
         /\ ends' \in [Trip -> Nat]
         /\ TripsSound(status, ends, turn, queueSequence, clock)'
         /\ StationsSound(status, background, release, clock)'
<1>1. /\ status' \in [Trip -> Status]
      /\ ends' \in [Trip -> Nat]
      /\ TripsSound(status', ends', tn, q, at)
      /\ StationsSound(status', bg, rel, at)
  BY DispatchKeeps
<1>2. TripsSound(status, ends, turn, queueSequence, clock)'
  BY <1>1 DEF TripsSound, offerVars, planVars
<1>3. StationsSound(status, background, release, clock)'
  BY <1>1 DEF StationsSound, FreeOf, Taken, At, planVars
<1>. QED
  BY <1>1, <1>2, <1>3

\* One trip in another status takes one charger more at most, and none more
\* unless it takes one it did not have.
LEMMA TakenBy ==
  ASSUME TypeOK, NEW t \in Trip, NEW to \in Status, NEW s \in Station,
         NEW st, st = [status EXCEPT ![t] = to]
  PROVE  /\ FreeOf(st, background, s) \in Int
         /\ FreeOf(status, background, s) \in Int
         /\ FreeOf(st, background, s) >= FreeOf(status, background, s) - 1
         /\ to \notin Allocated \/ status[t] \in Allocated \/ site[t] # s =>
              FreeOf(st, background, s) >= FreeOf(status, background, s)
<1>. DEFINE Before == {v \in At(s) : status[v] \in Allocated}
            After == {v \in At(s) : st[v] \in Allocated}
<1>1. IsFiniteSet(Before) /\ IsFiniteSet(After)
  BY TripAssumption, FS_Subset DEF TripAssumption, At
<1>2. Cardinality(Before) \in Nat /\ Cardinality(After) \in Nat
  BY <1>1, FS_CardinalityType
<1>3. \A v \in At(s) : v # t => st[v] = status[v]
  BY DEF TypeOK, At
<1>4. st[t] = to
  BY DEF TypeOK
<1>5. After \subseteq Before \cup {t}
  BY <1>3
<1>6. Cardinality(After) <= Cardinality(Before) + 1
  <2>1. IsFiniteSet(Before \cup {t}) /\ Cardinality(Before \cup {t}) \in {Cardinality(Before), Cardinality(Before) + 1}
    BY <1>1, FS_AddElement
  <2>2. Cardinality(After) <= Cardinality(Before \cup {t})
    BY <1>5, <2>1, FS_Subset
  <2>. QED
    BY <1>2, <2>1, <2>2
<1>7. ASSUME to \notin Allocated \/ status[t] \in Allocated \/ site[t] # s
      PROVE  Cardinality(After) <= Cardinality(Before)
  <2>1. After \subseteq Before
    BY <1>3, <1>4, <1>7 DEF At
  <2>. QED
    BY <1>1, <2>1, FS_Subset
<1>8. /\ FreeOf(st, background, s) = capacity[s] - background[s] - Cardinality(After)
      /\ FreeOf(status, background, s) = capacity[s] - background[s] - Cardinality(Before)
  BY DEF FreeOf, Taken
<1>9. capacity[s] \in Int /\ background[s] \in Int
  BY TripAssumption DEF TypeOK, TripAssumption
<1>. QED
  BY <1>2, <1>6, <1>7, <1>8, <1>9

\* What the trip of a user does leaves the state sound, if it takes a charger
\* only where one is free and waits under a turn of its own.
LEMMA ActKeeps ==
  ASSUME IInv, NEW t \in Trip, NEW to \in Status \ {"EN_ROUTE"}, NEW deadline \in Nat,
         NEW tn \in [Trip -> Nat], NEW q \in Nat,
         stage' = "idle",
         status' = Called([status EXCEPT ![t] = to], background, tn),
         ends' = Deadlines([status EXCEPT ![t] = to], background, tn, [ends EXCEPT ![t] = deadline], clock),
         turn' = tn, queueSequence' = q,
         UNCHANGED <<clock, until, config, stationVars, offerVars, planVars>>,
         to \in Active => status[t] \in Active,
         to \in Allocated => deadline > clock,
         to \in Allocated /\ status[t] \notin Allocated => FreeOf(status, background, site[t]) > 0,
         to = "QUEUED" => status[t] = "EN_ROUTE",
         \A v \in Trip : v # t => tn[v] = turn[v],
         \A v \in Trip : tn[v] <= q,
         to = "QUEUED" => \A v \in Trip : v # t => turn[v] # tn[t]
  PROVE  /\ status' \in [Trip -> Status]
         /\ ends' \in [Trip -> Nat]
         /\ TripsSound(status, ends, turn, queueSequence, clock)'
         /\ StationsSound(status, background, release, clock)'
<1>. DEFINE st == [status EXCEPT ![t] = to]
            dl == [ends EXCEPT ![t] = deadline]
<1>1. TypeOK /\ TripsSound(status, ends, turn, queueSequence, clock) /\ StationsSound(status, background, release, clock)
  BY IInvIsSound DEF IInv
<1>2. st \in [Trip -> Status] /\ dl \in [Trip -> Nat]
  BY <1>1 DEF TypeOK
<1>3. \A v \in Trip : /\ st[v] = IF v = t THEN to ELSE status[v]
                      /\ dl[v] = IF v = t THEN deadline ELSE ends[v]
  BY <1>1 DEF TypeOK
<1>. HIDE DEF dl
<1>4. TripsSound(st, dl, tn, q, clock)
  <2>. HIDE DEF st
  <2>1. ASSUME NEW v \in Trip
        PROVE  /\ st[v] \in Active => site[v] \in Station
               /\ tn[v] <= q
               /\ st[v] \in {"EN_ROUTE", "QUEUED"} => rewardEnds[v] > clock
               /\ st[v] \in Allocated => dl[v] > clock
    BY <1>1, <1>3 DEF TripsSound
  <2>2. ASSUME NEW u \in Trip, NEW v \in Trip, st[u] = "QUEUED", st[v] = "QUEUED", tn[u] = tn[v]
        PROVE  u = v
    BY <1>1, <1>3, <2>2 DEF TripsSound
  <2>3. ASSUME NEW u \in Trip, NEW v \in Trip, st[u] \in Active, st[v] \in Active, owner[u] = owner[v]
        PROVE  u = v
    BY <1>1, <1>3, <2>3 DEF TripsSound
  <2>. QED
    BY <2>1, <2>2, <2>3 DEF TripsSound
<1>5. StationsSound(st, background, release, clock)
  <2>1. ASSUME NEW s \in Station
        PROVE  FreeOf(st, background, s) >= 0
    <3>1. /\ FreeOf(st, background, s) \in Int
          /\ FreeOf(status, background, s) \in Int
          /\ FreeOf(st, background, s) >= FreeOf(status, background, s) - 1
          /\ to \notin Allocated \/ status[t] \in Allocated \/ site[t] # s =>
               FreeOf(st, background, s) >= FreeOf(status, background, s)
      BY <1>1, TakenBy
    <3>2. FreeOf(status, background, s) >= 0
      BY <1>1 DEF StationsSound
    <3>. QED
      BY <3>1, <3>2
  <2>. QED
    BY <1>1, <2>1 DEF StationsSound
<1>6. status' = Called(st, background, tn) /\ ends' = Deadlines(st, background, tn, dl, clock)
  BY DEF dl
<1>7. /\ background \in [Station -> Nat] /\ clock \in Nat
      /\ background' = background /\ release' = release /\ clock' = clock
      /\ UNCHANGED <<offerVars, planVars, capacity>>
  BY <1>1 DEF TypeOK, stationVars
<1>. HIDE DEF st
<1>. QED
  BY <1>1, <1>2, <1>4, <1>5, <1>6, <1>7, DispatchStep

\* A sound state of the right type satisfies the invariant.
LEMMA SoundNext ==
  ASSUME TypeOK', Passing', TripsSound(status, ends, turn, queueSequence, clock)',
         StationsSound(status, background, release, clock)'
  PROVE  IInv'
BY DEF IInv, TypeOK, Passing, TripsSound, StationsSound, Placed, TurnsDistinct, NothingLate, OneTripPerUser,
   NeverOverbooked, Timed, DueAt, Active, Allocated

\* The invariant holds initially.
LEMMA InitIInv == Init => IInv
<1>. SUFFICES ASSUME Init PROVE IInv
  OBVIOUS
<1>1. TypeOK
  <2>1. \A c \in Configs : c \in Config /\ Frozen(c) \in Terms
    BY TripAssumption DEF TripAssumption, Config, Frozen, Terms
  <2>2. background \in [Station -> Nat] /\ release \in [Station -> Nat]
    BY TripAssumption DEF TripAssumption, Init
  <2>. QED
    BY <2>1, <2>2 DEF Init, TypeOK, Status
<1>2. TripsSound(status, ends, turn, queueSequence, clock)
  BY DEF Init, TripsSound, Active, Allocated
<1>4. Passing
  BY DEF Init, Passing
<1>3. ASSUME NEW s \in Station
      PROVE  FreeOf(status, background, s) >= 0 /\ (background[s] > 0 => release[s] > clock)
  <2>1. {t \in At(s) : status[t] \in Allocated} = {}
    BY DEF Init, At, Allocated
  <2>2. Taken(status, s) = 0
    BY <2>1, FS_EmptySet DEF Taken
  <2>3. capacity[s] \in Int /\ background[s] \in Int /\ background[s] <= capacity[s]
    BY TripAssumption DEF TripAssumption, Init
  <2>4. FreeOf(status, background, s) >= 0
    BY <2>2, <2>3 DEF FreeOf
  <2>5. background[s] > 0 => release[s] > clock
    BY TripAssumption DEF TripAssumption, Init
  <2>. QED
    BY <2>4, <2>5
<1>. QED
  BY <1>1, <1>2, <1>3, <1>4, IInvIsSound DEF StationsSound

\* What catching up does.
LEMMA BeginKeeps ==
  ASSUME IInv, NEW now \in 0..MaxTime, Begin(now)
  PROVE  IInv'
<1>1. TypeOK /\ TripsSound(status, ends, turn, queueSequence, clock) /\ StationsSound(status, background, release, clock)
  BY IInvIsSound DEF IInv
<1>2. /\ status' \in [Trip -> Status]
      /\ ends' \in [Trip -> Nat]
      /\ TripsSound(status, ends, turn, queueSequence, clock)'
      /\ StationsSound(status, background, release, clock)'
  BY <1>1, DispatchStep DEF Begin, Dispatch, TypeOK, stationVars, queueVars
<1>3. TypeOK'
  BY <1>1, <1>2, TripAssumption
  DEF Begin, TypeOK, TripAssumption, stationVars, offerVars, planVars, chargeVars, ledgerVars, queueVars
<1>4. Passing'
  BY DEF IInv, TypeOK, Passing, Begin, chargeVars
<1>. QED
  BY <1>2, <1>3, <1>4, SoundNext

LEMMA SettleKeeps ==
  ASSUME IInv, Settle
  PROVE  IInv'
<1>1. TypeOK'
  BY DEF Settle, IInv, TypeOK, stationVars, offerVars, planVars, chargeVars, ledgerVars, queueVars
<1>2. Instants = {} /\ clock' = until /\ TypeOK
  BY DEF Settle, IInv
<1>3. \A t \in Trip : status[t] \in Timed => DueAt(t) > until
  <2>. SUFFICES ASSUME NEW t \in Trip, status[t] \in Timed PROVE DueAt(t) > until
    OBVIOUS
  <2>1. t \notin DueTrips(until)
    BY <1>2 DEF Instants
  <2>2. DueAt(t) \in Nat /\ until \in Nat
    BY <1>2 DEF DueAt, TypeOK
  <2>. QED
    BY <2>1, <2>2 DEF DueTrips
<1>4. \A s \in Station : background[s] > 0 => release[s] > until
  <2>. SUFFICES ASSUME NEW s \in Station, background[s] > 0 PROVE release[s] > until
    OBVIOUS
  <2>1. s \notin DueStations(until)
    BY <1>2 DEF Instants
  <2>. QED
    BY <1>2, <2>1 DEF DueStations, TypeOK
<1>6. Passing'
  BY <1>2 DEF IInv, TypeOK, Passing, Settle, chargeVars
<1>5. NothingLate'
  BY <1>2, <1>3, <1>4 DEF NothingLate, DueAt, Settle, stationVars, planVars
<1>. QED
  BY <1>1, <1>5, <1>6
  DEF IInv, Settle, Placed, TurnsDistinct, OneTripPerUser, NeverOverbooked, FreeOf, Taken, At,
      stationVars, offerVars, planVars, queueVars

\* At the earliest instant nothing else is late; what was due then is done.
LEMMA BatchKeeps ==
  ASSUME IInv, Batch
  PROVE  IInv'
<1>1. /\ TypeOK /\ Passing /\ NothingLate
      /\ TripsSound(status, ends, turn, queueSequence, clock) /\ StationsSound(status, background, release, clock)
  BY IInvIsSound DEF IInv
<1>2. PICK at \in Instants :
        /\ \A i \in Instants : at <= i
        /\ clock' = at
        /\ LET full == {t \in DueTrips(at) : status[t] = "CHARGING"}
               st == [t \in Trip |-> IF t \in full THEN "PENDING_PAYMENT"
                                     ELSE IF t \in DueTrips(at) THEN "EXPIRED" ELSE status[t]]
           IN /\ background' = [s \in Station |-> IF s \in DueStations(at) THEN 0 ELSE background[s]]
              /\ release' = [s \in Station |-> IF s \in DueStations(at) THEN 0 ELSE release[s]]
              /\ served' = [t \in Trip |-> IF t \in full THEN at - start[t] ELSE served[t]]
              /\ start' = [t \in Trip |-> IF t \in full THEN 0 ELSE start[t]]
              /\ Dispatch(st, background', turn, ends, at)
  BY DEF Batch
<1>. DEFINE full == {t \in DueTrips(at) : status[t] = "CHARGING"}
            st == [t \in Trip |-> IF t \in full THEN "PENDING_PAYMENT"
                                  ELSE IF t \in DueTrips(at) THEN "EXPIRED" ELSE status[t]]
            bg == [s \in Station |-> IF s \in DueStations(at) THEN 0 ELSE background[s]]
            rel == [s \in Station |-> IF s \in DueStations(at) THEN 0 ELSE release[s]]
<1>3. /\ clock' = at
      /\ background' = bg /\ release' = rel
      /\ served' = [t \in Trip |-> IF t \in full THEN at - start[t] ELSE served[t]]
      /\ start' = [t \in Trip |-> IF t \in full THEN 0 ELSE start[t]]
      /\ status' = Called(st, bg, turn) /\ ends' = Deadlines(st, bg, turn, ends, at)
  BY <1>2 DEF Dispatch
<1>4. at \in Nat /\ at > clock /\ at <= until
  <2>1. CASE \E t \in DueTrips(until) : at = DueAt(t)
    BY <1>1, <2>1 DEF DueTrips, NothingLate, DueAt, TypeOK
  <2>2. CASE \E s \in DueStations(until) : at = release[s]
    BY <1>1, <2>2 DEF DueStations, NothingLate, TypeOK
  <2>. QED
    BY <2>1, <2>2 DEF Instants
<1>5. st \in [Trip -> Status] /\ bg \in [Station -> Nat] /\ rel \in [Station -> Nat]
  BY <1>1 DEF TypeOK, Status, Active
<1>6. \A t \in Trip : \/ st[t] = status[t] /\ (status[t] \in Timed => DueAt(t) > at)
                      \/ st[t] = "PENDING_PAYMENT" /\ status[t] = "CHARGING"
                      \/ st[t] = "EXPIRED"
  <2>1. \A t \in Trip : status[t] \in Timed /\ t \notin DueTrips(at) => DueAt(t) > at
    BY <1>1, <1>4 DEF DueTrips, DueAt, TypeOK
  <2>. QED
    BY <2>1
<1>7. TripsSound(st, ends, turn, queueSequence, at)
  <2>. HIDE DEF st
  <2>. QED
    BY <1>1, <1>6 DEF TripsSound, Timed, DueAt, Active, Allocated
<1>8. ASSUME NEW s \in Station
      PROVE  FreeOf(st, bg, s) >= 0 /\ (bg[s] > 0 => rel[s] > at)
  <2>. DEFINE Before == {t \in At(s) : status[t] \in Allocated}
              After == {t \in At(s) : st[t] \in Allocated}
  <2>1. After \subseteq Before
    <3>. HIDE DEF st
    <3>. QED
      BY <1>6 DEF At, Allocated
  <2>2. IsFiniteSet(Before)
    BY TripAssumption, FS_Subset DEF TripAssumption, At
  <2>3. Cardinality(After) <= Cardinality(Before) /\ Cardinality(After) \in Nat /\ Cardinality(Before) \in Nat
    BY <2>1, <2>2, FS_Subset, FS_CardinalityType
  <2>4. /\ FreeOf(st, bg, s) = capacity[s] - bg[s] - Cardinality(After)
        /\ FreeOf(status, background, s) = capacity[s] - background[s] - Cardinality(Before)
    BY DEF FreeOf, Taken
  <2>5. bg[s] <= background[s] /\ bg[s] \in Int /\ background[s] \in Int /\ capacity[s] \in Int
    BY <1>1, TripAssumption DEF TypeOK, TripAssumption
  <2>6. FreeOf(status, background, s) >= 0
    BY <1>1 DEF StationsSound
  <2>7. bg[s] > 0 => rel[s] > at
    BY <1>1, <1>4 DEF DueStations, TypeOK
  <2>. HIDE DEF st, bg, rel, Before, After
  <2>. QED
    BY <2>3, <2>4, <2>5, <2>6, <2>7
<1>9. StationsSound(st, bg, rel, at)
  BY <1>8 DEF StationsSound
<1>10. /\ status' \in [Trip -> Status]
       /\ ends' \in [Trip -> Nat]
       /\ TripsSound(status, ends, turn, queueSequence, clock)'
       /\ StationsSound(status, background, release, clock)'
  <2>1. /\ turn' = turn /\ queueSequence' = queueSequence
        /\ UNCHANGED <<offerVars, planVars, capacity>>
    BY DEF Batch, queueVars
  <2>2. turn \in [Trip -> Nat] /\ queueSequence \in Nat /\ ends \in [Trip -> Nat]
    BY <1>1 DEF TypeOK
  <2>. HIDE DEF st, bg, rel
  <2>. QED
    BY <1>1, <1>3, <1>4, <1>5, <1>7, <1>9, <2>1, <2>2, DispatchStep
<1>11. start' \in [Trip -> Nat] /\ served' \in [Trip -> Nat] /\ \A t \in Trip : start'[t] <= at
  BY <1>1, <1>3, <1>4 DEF TypeOK, Passing
<1>12. TypeOK'
  <2>. HIDE DEF st, bg, rel, full
  <2>. QED
    BY <1>1, <1>3, <1>4, <1>5, <1>10, <1>11 DEF TypeOK, Batch, offerVars, planVars, ledgerVars, queueVars
<1>13. Passing'
  BY <1>3, <1>4, <1>11 DEF Passing, Batch
<1>. QED
  BY <1>10, <1>12, <1>13, SoundNext

\* Commands that leave the queues alone.
LEMMA OfferKeeps ==
  ASSUME IInv, NEW u \in User, NEW t \in Trip, NEW life \in OfferLife, Offer(u, t, life)
  PROVE  IInv'
<1>1. /\ TypeOK /\ Passing
      /\ TripsSound(status, ends, turn, queueSequence, clock) /\ StationsSound(status, background, release, clock)
  BY IInvIsSound DEF IInv
<1>2. clock + life \in Nat /\ Frozen(config) \in Terms /\ "OFFERED" \in Status
  BY <1>1, TripAssumption DEF TripAssumption, TypeOK, Config, Frozen, Terms, Status
<1>3. TypeOK'
  BY <1>1, <1>2 DEF TypeOK, Offer, stationVars, planVars, chargeVars, ledgerVars, queueVars
<1>4. Passing'
  BY <1>1 DEF Passing, Offer, chargeVars
<1>5. \A v \in Trip : /\ status'[v] = IF v = t THEN "OFFERED" ELSE status[v]
                      /\ v # t => ends'[v] = ends[v] /\ owner'[v] = owner[v]
  BY <1>1 DEF TypeOK, Offer
<1>6. TripsSound(status, ends, turn, queueSequence, clock)'
  BY <1>1, <1>5 DEF TripsSound, Offer, planVars, queueVars, Active, Allocated
<1>7. ASSUME NEW s \in Station
      PROVE  (FreeOf(status, background, s) >= 0)' /\ (background[s] > 0 => release[s] > clock)'
  <2>1. FreeOf(status', background, s) >= FreeOf(status, background, s)
        /\ FreeOf(status', background, s) \in Int /\ FreeOf(status, background, s) \in Int
    BY <1>1, <1>2, TakenBy DEF Offer, Allocated
  <2>2. FreeOf(status, background, s)' = FreeOf(status', background, s)
    BY DEF FreeOf, Taken, At, Offer, stationVars, planVars
  <2>. QED
    BY <1>1, <2>1, <2>2 DEF StationsSound, Offer, stationVars
<1>. QED
  BY <1>3, <1>4, <1>6, <1>7, SoundNext DEF StationsSound

LEMMA SelectKeeps ==
  ASSUME IInv, NEW u \in User, NEW t \in Trip, NEW s \in Station, NEW eta \in Eta, Select(u, t, s, eta)
  PROVE  IInv'
<1>1. /\ TypeOK /\ Passing
      /\ TripsSound(status, ends, turn, queueSequence, clock) /\ StationsSound(status, background, release, clock)
  BY IInvIsSound DEF IInv
<1>2. /\ clock + eta \in Nat /\ "EN_ROUTE" \in Status
      /\ terms[t].first \in Nat /\ terms[t].second \in Nat /\ terms[t].eligibility \in Nat \ {0}
  BY <1>1, TripAssumption DEF TripAssumption, TypeOK, Terms, Status, Active
<1>3. PICK points \in Nat : reward' = [reward EXCEPT ![t] = points]
  <2>1. PICK prize \in {0, terms[t].first, terms[t].second}, halves \in {1, 2, 4} :
          reward' = [reward EXCEPT ![t] = Halved(prize * halves)]
    BY DEF Select
  <2>2. prize \in Nat
    BY <1>2
  <2>3. prize * halves \in Nat
    BY <2>2
  <2>4. \A n \in Nat : Halved(n) \in Nat
    BY DEF Halved
  <2>. QED
    BY <2>1, <2>3, <2>4
<1>4. TypeOK'
  <2>1. reward' \in [Trip -> Nat]
    BY <1>1, <1>2, <1>3 DEF TypeOK
  <2>2. rewardEnds' \in [Trip -> Nat] /\ ends' \in [Trip -> Nat]
    BY <1>1, <1>2 DEF TypeOK, Select
  <2>. QED
    BY <1>1, <1>2, <2>1, <2>2 DEF TypeOK, Select, stationVars, offerVars, chargeVars, ledgerVars, queueVars
<1>5. Passing'
  BY <1>1 DEF Passing, Select, chargeVars
<1>6. \A v \in Trip : /\ status'[v] = IF v = t THEN "EN_ROUTE" ELSE status[v]
                      /\ v # t => ends'[v] = ends[v] /\ rewardEnds'[v] = rewardEnds[v] /\ site'[v] = site[v]
  BY <1>1 DEF TypeOK, Select
<1>7. site'[t] = s /\ rewardEnds'[t] > clock
  BY <1>1, <1>2 DEF TypeOK, Select
<1>8. \A v \in Trip : owner[v] = owner[t] => status[v] \notin Active
  BY DEF Select, ActiveTrips
<1>9. TripsSound(status, ends, turn, queueSequence, clock)'
  <2>1. owner' = owner /\ turn' = turn /\ queueSequence' = queueSequence /\ clock' = clock
    BY DEF Select, offerVars, queueVars
  <2>2. \A v \in Trip : /\ status'[v] \in Active => site'[v] \in Station
                        /\ turn[v] <= queueSequence
                        /\ status'[v] \in {"EN_ROUTE", "QUEUED"} => rewardEnds'[v] > clock
                        /\ status'[v] \in Allocated => ends'[v] > clock
    BY <1>1, <1>6, <1>7 DEF TripsSound, Allocated
  <2>3. \A w, v \in Trip : status'[w] = "QUEUED" /\ status'[v] = "QUEUED" /\ turn[w] = turn[v] => w = v
    BY <1>1, <1>6 DEF TripsSound
  <2>4. \A w, v \in Trip : status'[w] \in Active /\ status'[v] \in Active /\ owner[w] = owner[v] => w = v
    BY <1>1, <1>6, <1>8 DEF TripsSound
  <2>. QED
    BY <2>1, <2>2, <2>3, <2>4 DEF TripsSound
<1>10. ASSUME NEW z \in Station
       PROVE  (FreeOf(status, background, z) >= 0)' /\ (background[z] > 0 => release[z] > clock)'
  <2>1. {v \in At(z)' : status'[v] \in Allocated} = {v \in At(z) : status[v] \in Allocated}
    <3>1. status[t] = "OFFERED"
      BY DEF Select
    <3>. QED
      BY <1>6, <3>1 DEF At, Allocated
  <2>2. FreeOf(status, background, z)' = FreeOf(status, background, z)
    BY <2>1 DEF FreeOf, Taken, Select, stationVars
  <2>. QED
    BY <1>1, <2>2 DEF StationsSound, Select, stationVars
<1>. QED
  BY <1>4, <1>5, <1>9, <1>10, SoundNext DEF StationsSound

LEMMA ManageKeeps ==
  ASSUME IInv, Answer \/ (\E c \in Configs : Configure(c)) \/ UNCHANGED vars
  PROVE  IInv'
BY DEF IInv, TypeOK, Passing, Placed, TurnsDistinct, NothingLate, DueAt, OneTripPerUser, NeverOverbooked, FreeOf, Taken, At,
       Answer, Configure, vars, stationVars, offerVars, planVars, chargeVars, ledgerVars, queueVars

LEMMA ReloadKeeps ==
  ASSUME IInv, NEW s \in Station, NEW n \in 1..MaxCapacity, Reload(s, n)
  PROVE  IInv'
<1>1. /\ TypeOK /\ Passing
      /\ TripsSound(status, ends, turn, queueSequence, clock) /\ StationsSound(status, background, release, clock)
  BY IInvIsSound DEF IInv
<1>2. TypeOK' /\ Passing' /\ TripsSound(status, ends, turn, queueSequence, clock)'
  BY <1>1 DEF TypeOK, Passing, TripsSound, Reload, offerVars, planVars, chargeVars, ledgerVars, queueVars
<1>3. ASSUME NEW z \in Station
      PROVE  (FreeOf(status, background, z) >= 0)' /\ (background[z] > 0 => release[z] > clock)'
  <2>1. Taken(status, z)' = Taken(status, z)
    BY DEF Taken, At, Reload, planVars
  <2>2. Taken(status, s) \in Nat
    <3>1. IsFiniteSet({t \in At(s) : status[t] \in Allocated})
      BY TripAssumption, FS_Subset DEF TripAssumption, At
    <3>. QED
      BY <3>1, FS_CardinalityType DEF Taken
  <2>3. n \in Int /\ background[s] \in Int
    BY <1>1, TripAssumption DEF TypeOK, TripAssumption
  <2>4. z = s => FreeOf(status, background, z)' = n - background[s] - Taken(status, s)
    BY <1>1, <2>1 DEF FreeOf, Reload, TypeOK
  <2>5. z # s => FreeOf(status, background, z)' = FreeOf(status, background, z)
    BY <1>1, <2>1 DEF FreeOf, Reload, TypeOK
  <2>6. n >= background[s] + Taken(status, s)
    BY DEF Reload
  <2>7. (FreeOf(status, background, z) >= 0)'
    BY <1>1, <2>2, <2>3, <2>4, <2>5, <2>6 DEF StationsSound
  <2>. QED
    BY <1>1, <2>7 DEF StationsSound, Reload
<1>. QED
  BY <1>2, <1>3, SoundNext DEF StationsSound

LEMMA BackgroundKeeps ==
  ASSUME IInv, NEW s \in Station, NEW n \in 0..MaxCapacity, NEW delay \in Delay, SetBackground(s, n, delay)
  PROVE  IInv'
<1>1. /\ TypeOK /\ Passing
      /\ TripsSound(status, ends, turn, queueSequence, clock) /\ StationsSound(status, background, release, clock)
  BY IInvIsSound DEF IInv
<1>. DEFINE bg == [background EXCEPT ![s] = n]
            rel == [release EXCEPT ![s] = IF n > 0 THEN clock + delay ELSE 0]
<1>2. n \in Nat /\ delay \in Nat \ {0}
  BY TripAssumption DEF TripAssumption
<1>3. bg \in [Station -> Nat] /\ rel \in [Station -> Nat]
  BY <1>1, <1>2 DEF TypeOK
<1>4. ASSUME NEW z \in Station
      PROVE  FreeOf(status, bg, z) >= 0 /\ (bg[z] > 0 => rel[z] > clock)
  <2>1. Taken(status, s) \in Nat
    <3>1. IsFiniteSet({t \in At(s) : status[t] \in Allocated})
      BY TripAssumption, FS_Subset DEF TripAssumption, At
    <3>. QED
      BY <3>1, FS_CardinalityType DEF Taken
  <2>2. z = s => FreeOf(status, bg, z) = capacity[s] - n - Taken(status, s)
    BY <1>1 DEF FreeOf, TypeOK
  <2>3. z # s => FreeOf(status, bg, z) = FreeOf(status, background, z)
    BY <1>1 DEF FreeOf, TypeOK
  <2>4. n <= capacity[s] - Taken(status, s) /\ capacity[s] \in Int
    BY <1>1, TripAssumption DEF SetBackground, TypeOK, TripAssumption
  <2>5. FreeOf(status, bg, z) >= 0
    <3>. HIDE DEF bg
    <3>. QED
      BY <1>1, <1>2, <2>1, <2>2, <2>3, <2>4 DEF StationsSound
  <2>6. bg[z] > 0 => rel[z] > clock
    BY <1>1, <1>2 DEF StationsSound, TypeOK
  <2>. QED
    BY <2>5, <2>6
<1>5. StationsSound(status, bg, rel, clock)
  BY <1>4 DEF StationsSound
<1>6. /\ background' = bg /\ release' = rel
      /\ status' = Called(status, bg, turn) /\ ends' = Deadlines(status, bg, turn, ends, clock)
      /\ turn' = turn /\ queueSequence' = queueSequence /\ clock' = clock
      /\ UNCHANGED <<offerVars, planVars, capacity>>
  BY DEF SetBackground, Dispatch, queueVars
<1>7. /\ status \in [Trip -> Status] /\ turn \in [Trip -> Nat] /\ queueSequence \in Nat
      /\ ends \in [Trip -> Nat] /\ clock \in Nat
  BY <1>1 DEF TypeOK
<1>. HIDE DEF bg, rel
<1>8. /\ status' \in [Trip -> Status]
      /\ ends' \in [Trip -> Nat]
      /\ TripsSound(status, ends, turn, queueSequence, clock)'
      /\ StationsSound(status, background, release, clock)'
  BY <1>1, <1>3, <1>5, <1>6, <1>7, DispatchStep
<1>9. TypeOK' /\ Passing'
  BY <1>1, <1>3, <1>6, <1>8 DEF TypeOK, Passing, SetBackground, offerVars, planVars, chargeVars, ledgerVars, queueVars
<1>. QED
  BY <1>8, <1>9, SoundNext

\* The steps of a trip.
LEMMA ArriveKeeps ==
  ASSUME IInv, NEW t \in Trip, Arrive(t)
  PROVE  IInv'
<1>1. /\ TypeOK /\ Passing
      /\ TripsSound(status, ends, turn, queueSequence, clock) /\ StationsSound(status, background, release, clock)
  BY IInvIsSound DEF IInv
<1>2. config.reservationTimeout \in Nat \ {0} /\ clock \in Nat
  BY <1>1, TripAssumption DEF TripAssumption, TypeOK, Config
<1>3. "RESERVED" \in Status \ {"EN_ROUTE"} /\ "QUEUED" \in Status \ {"EN_ROUTE"}
  BY DEF Status, Active, Allocated
<1>4. CASE /\ FreeOf(status, background, site[t]) > 0
           /\ Act(t, "EN_ROUTE", "RESERVED", clock + config.reservationTimeout, turn)
           /\ UNCHANGED <<chargeVars, ledgerVars, queueVars>>
  <2>1. clock + config.reservationTimeout \in Nat /\ clock + config.reservationTimeout > clock
    BY <1>2
  <2>2. /\ turn \in [Trip -> Nat] /\ queueSequence \in Nat
        /\ \A v \in Trip : turn[v] <= queueSequence
    BY <1>1 DEF TypeOK, TripsSound
  <2>3. /\ status' \in [Trip -> Status]
        /\ ends' \in [Trip -> Nat]
        /\ TripsSound(status, ends, turn, queueSequence, clock)'
        /\ StationsSound(status, background, release, clock)'
    BY <1>3, <1>4, <2>1, <2>2, ActKeeps DEF Act, Dispatch, queueVars, Active, Allocated
  <2>4. TypeOK' /\ Passing'
    BY <1>1, <1>4, <2>3 DEF TypeOK, Passing, Act, stationVars, offerVars, planVars, chargeVars, ledgerVars, queueVars
  <2>. QED
    BY <2>3, <2>4, SoundNext
<1>5. CASE /\ queueSequence' = NextTurn
           /\ turn' = [turn EXCEPT ![t] = NextTurn]
           /\ Act(t, "EN_ROUTE", "QUEUED", 0, turn')
           /\ UNCHANGED <<chargeVars, ledgerVars>>
  <2>. DEFINE tn == [turn EXCEPT ![t] = NextTurn]
  <2>1. NextTurn \in Nat /\ NextTurn > queueSequence /\ tn \in [Trip -> Nat]
    BY <1>1 DEF TypeOK, NextTurn
  <2>2. /\ \A v \in Trip : v # t => tn[v] = turn[v] /\ turn[v] # tn[t]
        /\ \A v \in Trip : tn[v] <= NextTurn
    BY <1>1, <2>1 DEF TypeOK, TripsSound
  <2>3. turn' = tn /\ queueSequence' = NextTurn
    BY <1>5
  <2>. HIDE DEF tn
  <2>4. /\ status[t] = "EN_ROUTE" /\ stage' = "idle"
        /\ status' = Called([status EXCEPT ![t] = "QUEUED"], background, tn)
        /\ ends' = Deadlines([status EXCEPT ![t] = "QUEUED"], background, tn, [ends EXCEPT ![t] = 0], clock)
        /\ UNCHANGED <<clock, until, config, stationVars, offerVars, planVars>>
    BY <1>5, <2>3 DEF Act, Dispatch
  <2>5. /\ status' \in [Trip -> Status]
        /\ ends' \in [Trip -> Nat]
        /\ TripsSound(status, ends, turn, queueSequence, clock)'
        /\ StationsSound(status, background, release, clock)'
    <3>1. "EN_ROUTE" \in Active /\ "QUEUED" \notin Allocated
      BY DEF Active, Allocated
    <3>. QED
      BY <1>3, <2>1, <2>2, <2>3, <2>4, <3>1, ActKeeps
  <2>6. TypeOK' /\ Passing'
    BY <1>1, <1>5, <2>1, <2>3, <2>4, <2>5
    DEF TypeOK, Passing, stationVars, offerVars, planVars, chargeVars, ledgerVars
  <2>. QED
    BY <2>5, <2>6, SoundNext
<1>. QED
  BY <1>4, <1>5 DEF Arrive

\* A step that takes no charger and joins no queue.
LEMMA PlainActKeeps ==
  ASSUME IInv, NEW t \in Trip, NEW from \in Status, NEW to \in Status \ {"EN_ROUTE", "QUEUED"}, NEW deadline \in Nat,
         status[t] = from, stage' = "idle",
         status' = Called([status EXCEPT ![t] = to], background, turn),
         ends' = Deadlines([status EXCEPT ![t] = to], background, turn, [ends EXCEPT ![t] = deadline], clock),
         UNCHANGED <<clock, until, config, stationVars, offerVars, planVars>>,
         turn' = turn, queueSequence' = queueSequence,
         to \in Active => from \in Active,
         to \in Allocated => deadline > clock,
         to \in Allocated => from \in Allocated,
         start' \in [Trip -> Nat], served' \in [Trip -> Nat], award' \in [Trip -> Nat], paidAt' \in [Trip -> Nat],
         \A v \in Trip : start'[v] <= clock
  PROVE  IInv'
<1>1. /\ TypeOK /\ Passing
      /\ TripsSound(status, ends, turn, queueSequence, clock) /\ StationsSound(status, background, release, clock)
  BY IInvIsSound DEF IInv
<1>2. /\ turn \in [Trip -> Nat] /\ queueSequence \in Nat
      /\ \A v \in Trip : turn[v] <= queueSequence
  BY <1>1 DEF TypeOK, TripsSound
<1>3. /\ status' \in [Trip -> Status]
      /\ ends' \in [Trip -> Nat]
      /\ TripsSound(status, ends, turn, queueSequence, clock)'
      /\ StationsSound(status, background, release, clock)'
  BY <1>2, ActKeeps
<1>4. TypeOK' /\ Passing'
  BY <1>1, <1>3 DEF TypeOK, Passing, stationVars, offerVars, planVars
<1>. QED
  BY <1>3, <1>4, SoundNext

LEMMA StepsKeep ==
  ASSUME IInv, NEW t \in Trip,
         Confirm(t) \/ (\E charge \in Charge : Start(t, charge)) \/ Stop(t) \/ Cancel(t) \/ Pay(t)
  PROVE  IInv'
<1>1. TypeOK /\ Passing
  BY DEF IInv
<1>2. /\ clock \in Nat /\ config.reservationTimeout \in Nat \ {0}
      /\ start \in [Trip -> Nat] /\ served \in [Trip -> Nat] /\ award \in [Trip -> Nat] /\ paidAt \in [Trip -> Nat]
      /\ \A v \in Trip : start[v] <= clock
  BY <1>1, TripAssumption DEF TripAssumption, TypeOK, Config, Passing
<1>3. CASE Confirm(t)
  <2>1. clock + config.reservationTimeout \in Nat /\ clock + config.reservationTimeout > clock
    BY <1>2
  <2>2. "CALLED" \in Status /\ "RESERVED" \in Status \ {"EN_ROUTE", "QUEUED"}
    BY DEF Status, Active, Allocated
  <2>. QED
    BY <1>2, <1>3, <2>1, <2>2, PlainActKeeps DEF Confirm, Act, Dispatch, queueVars, chargeVars, ledgerVars, Active, Allocated
<1>4. ASSUME NEW charge \in Charge, Start(t, charge)
      PROVE  IInv'
  <2>1. clock + charge \in Nat /\ clock + charge > clock
    BY <1>2, TripAssumption DEF TripAssumption
  <2>2. "RESERVED" \in Status /\ "CHARGING" \in Status \ {"EN_ROUTE", "QUEUED"}
    BY DEF Status, Active, Allocated
  <2>3. start' \in [Trip -> Nat] /\ \A v \in Trip : start'[v] <= clock
    BY <1>2, <1>4 DEF Start
  <2>. QED
    BY <1>2, <1>4, <2>1, <2>2, <2>3, PlainActKeeps DEF Start, Act, Dispatch, queueVars, ledgerVars, Active, Allocated
<1>5. CASE Stop(t)
  <2>1. "CHARGING" \in Status /\ "PENDING_PAYMENT" \in Status \ {"EN_ROUTE", "QUEUED"}
    BY DEF Status, Active, Allocated
  <2>2. start' \in [Trip -> Nat] /\ served' \in [Trip -> Nat] /\ \A v \in Trip : start'[v] <= clock
    BY <1>2, <1>5 DEF Stop
  <2>. QED
    BY <1>2, <1>5, <2>1, <2>2, PlainActKeeps DEF Stop, Act, Dispatch, queueVars, ledgerVars, Active, Allocated
<1>6. CASE Cancel(t)
  <2>1. PICK from \in {"EN_ROUTE", "QUEUED", "CALLED", "RESERVED"} : Act(t, from, "CANCELLED", 0, turn)
    BY <1>6 DEF Cancel
  <2>2. from \in Status /\ "CANCELLED" \in Status \ {"EN_ROUTE", "QUEUED"} /\ "CANCELLED" \notin Active
    BY DEF Status, Active, Allocated
  <2>. QED
    BY <1>2, <1>6, <2>1, <2>2, PlainActKeeps DEF Cancel, Act, Dispatch, queueVars, chargeVars, ledgerVars, Active
<1>7. CASE Pay(t)
  <2>1. "PENDING_PAYMENT" \in Status /\ "COMPLETED" \in Status \ {"EN_ROUTE", "QUEUED"} /\ "COMPLETED" \notin Active
    BY DEF Status, Active, Allocated
  <2>2. award' \in [Trip -> Nat] /\ paidAt' \in [Trip -> Nat]
    <3>1. PICK points \in 0..reward[t] : /\ award' = [award EXCEPT ![t] = points]
                                         /\ paidAt' = [paidAt EXCEPT ![t] = IF points > 0 THEN clock ELSE 0]
      BY <1>7 DEF Pay
    <3>. QED
      BY <1>2, <3>1
  <2>. QED
    BY <1>2, <1>7, <2>1, <2>2, PlainActKeeps DEF Pay, Act, Dispatch, queueVars, chargeVars, Active
<1>. QED
  BY <1>3, <1>4, <1>5, <1>6, <1>7

\* Every step keeps the invariant.
LEMMA NextKeeps ==
  ASSUME IInv, [Next]_vars
  PROVE  IInv'
BY BeginKeeps, BatchKeeps, SettleKeeps, OfferKeeps, SelectKeeps, ArriveKeeps, StepsKeep, BackgroundKeeps,
   ReloadKeeps, ManageKeeps
DEF Next, Catch, Travel, Manage

\* The inductive invariant of the trips holds in every reachable state: what is
\* late, overbooked, doubly under way or out of turn is none of it ever there.
THEOREM TripInvariant == Spec => []IInv
<1>1. Init => IInv
  BY InitIInv
<1>2. IInv /\ [Next]_vars => IInv'
  BY NextKeeps
<1>. QED
  BY <1>1, <1>2, PTL DEF Spec

\* However far the clock jumps, nothing is left whose time has come.
THEOREM NeverLate == Spec => []NothingLate
<1>1. IInv => NothingLate
  BY DEF IInv
<1>. QED
  BY <1>1, TripInvariant, PTL

\* No station, of any capacity, ever has more cars than chargers.
THEOREM CapacityKept == Spec => []NeverOverbooked
<1>1. IInv => NeverOverbooked
  BY DEF IInv
<1>. QED
  BY <1>1, TripInvariant, PTL

\* However many offers a user holds, one trip at most is under way.
THEOREM OneTrip == Spec => []OneTripPerUser
<1>1. IInv => OneTripPerUser
  BY DEF IInv
<1>. QED
  BY <1>1, TripInvariant, PTL

\* What FirstInFirstOut says of two trips.
Fair(t, v) ==
  /\ status[v] = "QUEUED" /\ status'[v] = "QUEUED" /\ site[t] = site[v]
  /\ status[t] \notin Allocated /\ status'[t] \in Allocated
  => status[t] = "QUEUED" /\ turn[t] < turn[v]

\* Looking at the queues gives chargers to those before the ones who go on waiting.
LEMMA LooksFair ==
  ASSUME TypeOK, NEW st, NEW bg, NEW tn, status' = Called(st, bg, tn),
         st \in [Trip -> Status], bg \in [Station -> Nat], tn \in [Trip -> Nat],
         \A t, v \in Trip : st[t] = "QUEUED" /\ st[v] = "QUEUED" /\ tn[t] = tn[v] => t = v,
         \A t \in Trip : st[t] = "QUEUED" => site[t] \in Station,
         NEW t \in Trip, NEW v \in Trip,
         status'[v] = "QUEUED", site[t] = site[v], status'[t] \in Allocated
  PROVE  /\ st[v] = "QUEUED"
         /\ st[t] \in Allocated \/ (st[t] = "QUEUED" /\ tn[t] < tn[v])
<1>1. st[v] = "QUEUED" /\ v \notin Callable(st, bg, tn)
  BY DEF Called
<1>2. CASE t \in Callable(st, bg, tn)
  <2>1. st[t] = "QUEUED"
    BY <1>2 DEF Callable
  <2>. QED
    BY <1>1, <1>2, <2>1, DispatchOrder
<1>3. CASE t \notin Callable(st, bg, tn)
  BY <1>1, <1>3 DEF Called
<1>. QED
  BY <1>1, <1>2, <1>3

\* The steps of a trip are fair: its owner's car gets to a charger from a call
\* or a reservation, or where no one waits; a newcomer is the last.
LEMMA ActFair ==
  ASSUME IInv, NEW c \in Trip, NEW to \in Status, NEW tn \in [Trip -> Nat],
         status' = Called([status EXCEPT ![c] = to], background, tn),
         \A x \in Trip : x # c => tn[x] = turn[x],
         to = "QUEUED" => (\A x \in Trip : tn[x] <= tn[c]) /\ (\A x \in Trip : x # c => turn[x] # tn[c]) /\ site[c] \in Station,
         to = "QUEUED" => status[c] = "EN_ROUTE",
         to \in Allocated => status[c] \in Allocated \/ Waiting(status, site[c]) = {},
         NEW t \in Trip, NEW v \in Trip
  PROVE  Fair(t, v)
<1>. SUFFICES ASSUME status[v] = "QUEUED", status'[v] = "QUEUED", site[t] = site[v],
                     status[t] \notin Allocated, status'[t] \in Allocated
              PROVE  status[t] = "QUEUED" /\ turn[t] < turn[v]
  BY DEF Fair
<1>. DEFINE st == [status EXCEPT ![c] = to]
<1>1. TypeOK /\ TripsSound(status, ends, turn, queueSequence, clock)
  BY IInvIsSound DEF IInv
<1>2. st \in [Trip -> Status] /\ \A x \in Trip : st[x] = IF x = c THEN to ELSE status[x]
  BY <1>1 DEF TypeOK
<1>3. background \in [Station -> Nat]
  BY <1>1 DEF TypeOK
<1>. HIDE DEF st
<1>4. \A x, y \in Trip : st[x] = "QUEUED" /\ st[y] = "QUEUED" /\ tn[x] = tn[y] => x = y
  BY <1>1, <1>2 DEF TripsSound
<1>5. \A x \in Trip : st[x] = "QUEUED" => site[x] \in Station
  BY <1>1, <1>2 DEF TripsSound, Active
<1>6. status' = Called(st, background, tn)
  BY DEF st
<1>7. /\ st[v] = "QUEUED"
      /\ st[t] \in Allocated \/ (st[t] = "QUEUED" /\ tn[t] < tn[v])
  BY <1>1, <1>2, <1>3, <1>4, <1>5, <1>6, LooksFair
<1>8. CASE t = c
  <2>1. CASE to \in Allocated
    BY <1>2, <1>8, <2>1 DEF Waiting, At
  <2>2. CASE to = "QUEUED" /\ tn[t] < tn[v]
    <3>1. tn[v] <= tn[t] /\ tn[v] \in Int /\ tn[t] \in Int
      BY <1>8, <2>2
    <3>. QED
      BY <2>2, <3>1
  <2>. QED
    BY <1>2, <1>7, <1>8, <2>1, <2>2
<1>9. CASE t # c /\ v # c
  BY <1>2, <1>7, <1>9
<1>10. v # c
  BY <1>2, <1>7
<1>. QED
  BY <1>8, <1>9, <1>10

\* Every step is fair.
LEMMA StepFair ==
  ASSUME IInv, [Next]_vars, NEW t \in Trip, NEW v \in Trip
  PROVE  Fair(t, v)
<1>1. /\ TypeOK /\ TripsSound(status, ends, turn, queueSequence, clock)
      /\ status \in [Trip -> Status] /\ turn \in [Trip -> Nat] /\ background \in [Station -> Nat]
  BY IInvIsSound DEF IInv, TypeOK
<1>2. /\ \A x, y \in Trip : status[x] = "QUEUED" /\ status[y] = "QUEUED" /\ turn[x] = turn[y] => x = y
      /\ \A x \in Trip : status[x] = "QUEUED" => site[x] \in Station
  BY <1>1 DEF TripsSound, Active
<1>3. CASE \E now \in 0..MaxTime : Begin(now)
  <2>1. status' = Called(status, background, turn)
    BY <1>3 DEF Begin, Dispatch
  <2>. QED
    BY <1>1, <1>2, <2>1, LooksFair DEF Fair
<1>4. CASE Batch
  <2>0. PICK at \in Instants :
          LET full == {x \in DueTrips(at) : status[x] = "CHARGING"}
              st == [x \in Trip |-> IF x \in full THEN "PENDING_PAYMENT"
                                    ELSE IF x \in DueTrips(at) THEN "EXPIRED" ELSE status[x]]
          IN /\ background' = [s \in Station |-> IF s \in DueStations(at) THEN 0 ELSE background[s]]
             /\ Dispatch(st, background', turn, ends, at)
    BY <1>4 DEF Batch
  <2>. DEFINE full == {x \in DueTrips(at) : status[x] = "CHARGING"}
              st == [x \in Trip |-> IF x \in full THEN "PENDING_PAYMENT"
                                    ELSE IF x \in DueTrips(at) THEN "EXPIRED" ELSE status[x]]
  <2>1. /\ background' = [s \in Station |-> IF s \in DueStations(at) THEN 0 ELSE background[s]]
        /\ status' = Called(st, background', turn)
    BY <2>0 DEF Dispatch
  <2>2. \A x \in Trip : st[x] = status[x] \/ st[x] \in {"PENDING_PAYMENT", "EXPIRED"}
    OBVIOUS
  <2>3. st \in [Trip -> Status]
    BY <1>1 DEF Status, Active
  <2>4. background' \in [Station -> Nat]
    BY <1>1, <2>1
  <2>. HIDE DEF st
  <2>5. /\ \A x, y \in Trip : st[x] = "QUEUED" /\ st[y] = "QUEUED" /\ turn[x] = turn[y] => x = y
        /\ \A x \in Trip : st[x] = "QUEUED" => site[x] \in Station
    BY <1>2, <2>2
  <2>6. status'[v] = "QUEUED" /\ site[t] = site[v] /\ status'[t] \in Allocated =>
          st[t] \in Allocated \/ (st[t] = "QUEUED" /\ turn[t] < turn[v])
    BY <1>1, <2>1, <2>3, <2>4, <2>5, LooksFair
  <2>. QED
    BY <2>2, <2>6 DEF Fair, Allocated
<1>5. ASSUME NEW u \in User, NEW c \in Trip, (\E life \in OfferLife : Offer(u, c, life)) \/ (\E s \in Station, eta \in Eta : Select(u, c, s, eta))
      PROVE  Fair(t, v)
  BY <1>1, <1>5 DEF Offer, Select, Fair, Allocated
<1>6. ASSUME NEW s \in Station, NEW n \in 0..MaxCapacity, NEW delay \in Delay, SetBackground(s, n, delay)
      PROVE  Fair(t, v)
  <2>1. status' = Called(status, background', turn)
    BY <1>6 DEF SetBackground, Dispatch
  <2>2. background' \in [Station -> Nat]
    BY <1>1, <1>6 DEF SetBackground
  <2>. QED
    BY <1>1, <1>2, <2>1, <2>2, LooksFair DEF Fair
<1>7. ASSUME NEW c \in Trip, Arrive(c)
      PROVE  Fair(t, v)
  <2>1. CASE Waiting(status, site[c]) = {} /\ Act(c, "EN_ROUTE", "RESERVED", clock + config.reservationTimeout, turn)
    <3>1. "RESERVED" \in Status
      BY DEF Status, Active, Allocated
    <3>. QED
      BY <1>1, <2>1, <3>1, ActFair DEF Act, Dispatch
  <2>2. CASE /\ turn' = [turn EXCEPT ![c] = NextTurn]
             /\ Act(c, "EN_ROUTE", "QUEUED", 0, turn')
    <3>1. /\ NextTurn \in Nat /\ turn' \in [Trip -> Nat]
          /\ \A x \in Trip : x # c => turn'[x] = turn[x]
      BY <1>1, <2>2 DEF NextTurn, TypeOK
    <3>2. /\ \A x \in Trip : turn'[x] <= turn'[c]
          /\ \A x \in Trip : x # c => turn[x] # turn'[c]
      BY <1>1, <2>2 DEF NextTurn, TypeOK, TripsSound
    <3>3. "QUEUED" \in Status /\ status[c] = "EN_ROUTE" /\ site[c] \in Station
      BY <1>1, <2>2 DEF Status, Active, TripsSound, Act
    <3>4. status' = Called([status EXCEPT ![c] = "QUEUED"], background, turn')
      BY <2>2 DEF Act, Dispatch
    <3>5. "QUEUED" \notin Allocated
      BY DEF Allocated
    <3>. QED
      BY <3>1, <3>2, <3>3, <3>4, <3>5, ActFair
  <2>. QED
    BY <1>7, <2>1, <2>2 DEF Arrive
<1>8. ASSUME NEW c \in Trip, NEW from, NEW to \in Status \ {"QUEUED"}, NEW deadline, Act(c, from, to, deadline, turn),
             to \in Allocated => from \in Allocated
      PROVE  Fair(t, v)
  <2>1. /\ status' = Called([status EXCEPT ![c] = to], background, turn)
        /\ to \in Allocated => status[c] \in Allocated
    BY <1>8 DEF Act, Dispatch
  <2>. QED
    BY <1>1, <1>8, <2>1, ActFair
<1>9. ASSUME NEW c \in Trip,
             Confirm(c) \/ (\E charge \in Charge : Start(c, charge)) \/ Stop(c) \/ Cancel(c) \/ Pay(c)
      PROVE  Fair(t, v)
  <2>1. {"RESERVED", "CHARGING", "PENDING_PAYMENT", "CANCELLED", "COMPLETED"} \subseteq Status \ {"QUEUED"}
    BY DEF Status, Active, Allocated
  <2>2. /\ "CALLED" \in Allocated /\ "RESERVED" \in Allocated
        /\ "PENDING_PAYMENT" \notin Allocated /\ "CANCELLED" \notin Allocated /\ "COMPLETED" \notin Allocated
    BY DEF Allocated
  <2>. QED
    BY <1>8, <1>9, <2>1, <2>2 DEF Confirm, Start, Stop, Cancel, Pay
<1>10. CASE Settle \/ Answer \/ (\E s \in Station, n \in 1..MaxCapacity : Reload(s, n))
            \/ (\E c \in Configs : Configure(c)) \/ UNCHANGED vars
  BY <1>10 DEF Settle, Answer, Reload, Configure, vars, Fair
<1>. QED
  BY <1>3, <1>4, <1>5, <1>6, <1>7, <1>9, <1>10 DEF Next, Catch, Travel, Manage

\* No one gets to a charger past someone who waits at the station.
THEOREM FirstComesFirst == Spec => FirstInFirstOut
<1>1. IInv /\ [Next]_vars =>
        [\A t, v \in Trip :
           /\ status[v] = "QUEUED" /\ status'[v] = "QUEUED" /\ site[t] = site[v]
           /\ status[t] \notin Allocated /\ status'[t] \in Allocated
           => status[t] = "QUEUED" /\ turn[t] < turn[v]]_vars
  BY StepFair DEF Fair
<1>. QED
  BY <1>1, TripInvariant, PTL DEF Spec, FirstInFirstOut

\* After a look at the queues no one waits at a station with a free charger.
LEMMA LooksFill ==
  ASSUME TypeOK, NEW st \in [Trip -> Status], NEW bg \in [Station -> Nat], NEW tn \in [Trip -> Nat],
         status' = Called(st, bg, tn), background' = bg, UNCHANGED <<capacity, planVars>>,
         \A t \in Trip : st[t] = "QUEUED" => site[t] \in Station,
         NEW w \in Trip, status'[w] = "QUEUED"
  PROVE  (FreeOf(status, background, site[w]) <= 0)'
<1>1. st[w] = "QUEUED" /\ w \in At(site[w]) /\ site[w] \in Station
  BY DEF Called, At
<1>2. \A t \in Trip : \/ t \in Callable(st, bg, tn) /\ status'[t] = "CALLED"
                      \/ t \notin Callable(st, bg, tn) /\ status'[t] = st[t]
  BY DEF Called
<1>3. FreeOf(status', bg, site[w]) <= 0
  BY <1>1, <1>2, DispatchFills
<1>. QED
  BY <1>3 DEF FreeOf, Taken, At, planVars

\* What a batch does to the trips, at the instant it happens.
LEMMA BatchDoes ==
  ASSUME IInv, Batch
  PROVE  \E at \in Instants, st \in [Trip -> Status], bg \in [Station -> Nat] :
           /\ clock' = at /\ background' = bg
           /\ \A t \in Trip : IF t \notin DueTrips(at) THEN st[t] = status[t]
                              ELSE IF status[t] = "CHARGING" THEN st[t] = "PENDING_PAYMENT" /\ served'[t] = at - start[t]
                              ELSE st[t] = "EXPIRED"
           /\ \A t \in DueTrips(at) : DueAt(t) = at
           /\ status' = Called(st, bg, turn) /\ ends' = Deadlines(st, bg, turn, ends, at)
<1>1. PICK at \in Instants :
        /\ \A i \in Instants : at <= i
        /\ clock' = at
        /\ LET full == {t \in DueTrips(at) : status[t] = "CHARGING"}
               st == [t \in Trip |-> IF t \in full THEN "PENDING_PAYMENT"
                                     ELSE IF t \in DueTrips(at) THEN "EXPIRED" ELSE status[t]]
           IN /\ background' = [s \in Station |-> IF s \in DueStations(at) THEN 0 ELSE background[s]]
              /\ served' = [t \in Trip |-> IF t \in full THEN at - start[t] ELSE served[t]]
              /\ Dispatch(st, background', turn, ends, at)
  BY DEF Batch
<1>. DEFINE full == {t \in DueTrips(at) : status[t] = "CHARGING"}
            st == [t \in Trip |-> IF t \in full THEN "PENDING_PAYMENT"
                                  ELSE IF t \in DueTrips(at) THEN "EXPIRED" ELSE status[t]]
            bg == [s \in Station |-> IF s \in DueStations(at) THEN 0 ELSE background[s]]
<1>2. TypeOK
  BY DEF IInv
<1>3. at \in Nat /\ until \in Nat /\ at <= until
  <2>1. CASE \E t \in DueTrips(until) : at = DueAt(t)
    BY <1>2, <2>1 DEF DueTrips, DueAt, TypeOK
  <2>2. CASE \E s \in DueStations(until) : at = release[s]
    BY <1>2, <2>2 DEF DueStations, TypeOK
  <2>. QED
    BY <1>2, <2>1, <2>2 DEF Instants, TypeOK
<1>4. ASSUME NEW t \in DueTrips(at)
      PROVE  DueAt(t) = at
  <2>1. DueAt(t) \in Nat /\ DueAt(t) <= at
    BY <1>2 DEF DueTrips, DueAt, TypeOK
  <2>2. t \in DueTrips(until)
    BY <1>3, <2>1 DEF DueTrips
  <2>3. at <= DueAt(t)
    BY <1>1, <2>2 DEF Instants
  <2>. QED
    BY <1>3, <2>1, <2>3
<1>5. st \in [Trip -> Status] /\ bg \in [Station -> Nat]
  BY <1>2 DEF TypeOK, Status, Active
<1>6. /\ background' = bg
      /\ status' = Called(st, bg, turn) /\ ends' = Deadlines(st, bg, turn, ends, at)
  BY <1>1 DEF Dispatch
<1>7. \A t \in Trip : IF t \notin DueTrips(at) THEN st[t] = status[t]
                     ELSE IF status[t] = "CHARGING" THEN st[t] = "PENDING_PAYMENT" /\ served'[t] = at - start[t]
                     ELSE st[t] = "EXPIRED"
  BY <1>1
<1>. HIDE DEF st, bg
<1>. QED
  BY <1>1, <1>4, <1>5, <1>6, <1>7

\* The time to catch up with passes with no one waiting in vain.
LEMMA WaitsKept ==
  ASSUME IInv, NobodyWaitsInVain, [Next]_vars
  PROVE  NobodyWaitsInVain'
<1>1. /\ TypeOK
      /\ status \in [Trip -> Status] /\ turn \in [Trip -> Nat] /\ background \in [Station -> Nat]
      /\ \A t \in Trip : status[t] = "QUEUED" => site[t] \in Station
  BY DEF IInv, TypeOK, Placed, Active
<1>2. CASE \E now \in 0..MaxTime : Begin(now)
  <2>1. status' = Called(status, background, turn) /\ background' = background /\ UNCHANGED <<capacity, planVars>>
    BY <1>2 DEF Begin, Dispatch, stationVars
  <2>. QED
    BY <1>1, <2>1, LooksFill DEF NobodyWaitsInVain
<1>3. CASE Batch
  <2>1. PICK at \in Instants, st \in [Trip -> Status], bg \in [Station -> Nat] :
          /\ background' = bg
          /\ \A t \in Trip : st[t] = status[t] \/ st[t] \in {"PENDING_PAYMENT", "EXPIRED"}
          /\ status' = Called(st, bg, turn)
    BY <1>3, BatchDoes
  <2>2. UNCHANGED <<capacity, planVars>>
    BY <1>3 DEF Batch
  <2>3. \A t \in Trip : st[t] = "QUEUED" => site[t] \in Station
    BY <1>1, <2>1
  <2>. QED
    BY <1>1, <2>1, <2>2, <2>3, LooksFill DEF NobodyWaitsInVain
<1>4. CASE Settle
  BY <1>4 DEF Settle, NobodyWaitsInVain, FreeOf, Taken, At, stationVars, planVars
<1>5. CASE UNCHANGED vars
  BY <1>5 DEF vars, NobodyWaitsInVain, FreeOf, Taken, At, stationVars, planVars
<1>6. CASE Answer \/ Travel \/ Manage
  <2>1. stage' = "idle" \/ (\E s \in Station, n \in 1..MaxCapacity : Reload(s, n))
    BY <1>6 DEF Answer, Travel, Manage, Offer, Select, Arrive, Confirm, Start, Stop, Cancel, Pay, Act, SetBackground, Configure
  <2>2. stage' = "idle"
    BY <2>1 DEF Reload
  <2>. QED
    BY <2>2 DEF NobodyWaitsInVain
<1>. QED
  BY <1>2, <1>3, <1>4, <1>5, <1>6 DEF Next, Catch

\* Whatever freed a charger, the next in line has been called before a command is obeyed.
THEOREM NoVainWait == Spec => []NobodyWaitsInVain
<1>1. Init => NobodyWaitsInVain
  BY DEF Init, NobodyWaitsInVain
<1>2. IInv /\ NobodyWaitsInVain /\ [Next]_vars => NobodyWaitsInVain'
  BY WaitsKept
<1>. QED
  BY <1>1, <1>2, TripInvariant, PTL DEF Spec

\* Looking at the queues at an instant lets a call run from that instant.
LEMMA CallsInTime ==
  ASSUME NEW st \in [Trip -> Status], NEW bg, NEW tn, NEW dl, NEW at,
         status' = Called(st, bg, tn), ends' = Deadlines(st, bg, tn, dl, at), clock' = at,
         NEW t \in Trip, st[t] # "CALLED" \/ status[t] = "CALLED", Enters(t, "CALLED")
  PROVE  ends'[t] = clock' + config.callTimeout
<1>1. t \in Callable(st, bg, tn)
  BY DEF Called, Enters
<1>. QED
  BY <1>1 DEF Deadlines

\* What ends by itself ends at its instant.
LEMMA StepInTime ==
  ASSUME IInv, [Next]_vars, NEW t \in Trip
  PROVE  /\ Enters(t, "EXPIRED") => clock' = DueAt(t)
         /\ Enters(t, "PENDING_PAYMENT") /\ stage = "sync" => clock' = ends[t] /\ served'[t] = ends[t] - start[t]
         /\ Enters(t, "CALLED") => ends'[t] = clock' + config.callTimeout
<1>1. status \in [Trip -> Status] /\ "CALLED" \in Allocated
  BY DEF IInv, TypeOK, Allocated
<1>2. CASE \E now \in 0..MaxTime : Begin(now)
  <2>1. /\ stage # "sync" /\ clock' = clock
        /\ status' = Called(status, background, turn) /\ ends' = Deadlines(status, background, turn, ends, clock)
    BY <1>2 DEF Begin, Dispatch
  <2>2. ~Enters(t, "EXPIRED")
    BY <2>1 DEF Called, Enters
  <2>. QED
    BY <1>1, <2>1, <2>2, CallsInTime
<1>3. CASE Batch
  <2>1. PICK at \in Instants, st \in [Trip -> Status], bg \in [Station -> Nat] :
           /\ clock' = at
           /\ IF t \notin DueTrips(at) THEN st[t] = status[t]
              ELSE IF status[t] = "CHARGING" THEN st[t] = "PENDING_PAYMENT" /\ served'[t] = at - start[t]
              ELSE st[t] = "EXPIRED"
           /\ t \in DueTrips(at) => DueAt(t) = at
           /\ status' = Called(st, bg, turn) /\ ends' = Deadlines(st, bg, turn, ends, at)
    BY <1>3, BatchDoes
  <2>2. status'[t] = "CALLED" \/ status'[t] = st[t]
    BY <2>1 DEF Called
  <2>3. Enters(t, "EXPIRED") => clock' = DueAt(t)
    BY <2>1, <2>2 DEF Enters
  <2>4. Enters(t, "PENDING_PAYMENT") => clock' = ends[t] /\ served'[t] = ends[t] - start[t]
    BY <2>1, <2>2 DEF Enters, DueAt
  <2>5. Enters(t, "CALLED") => ends'[t] = clock' + config.callTimeout
    BY <2>1, CallsInTime
  <2>. QED
    BY <2>3, <2>4, <2>5
<1>4. ASSUME NEW c \in Trip, NEW from, NEW to \in Status \ {"EXPIRED", "CALLED"}, NEW deadline, NEW tn,
             Act(c, from, to, deadline, tn)
      PROVE  /\ stage # "sync" /\ ~Enters(t, "EXPIRED")
             /\ Enters(t, "CALLED") => ends'[t] = clock' + config.callTimeout
  <2>. DEFINE st == [status EXCEPT ![c] = to]
  <2>1. /\ st \in [Trip -> Status] /\ st[t] \in {status[t], to}
        /\ stage # "sync" /\ clock' = clock
        /\ status' = Called(st, background, tn) /\ ends' = Deadlines(st, background, tn, [ends EXCEPT ![c] = deadline], clock)
    BY <1>1, <1>4 DEF Act, Dispatch
  <2>. HIDE DEF st
  <2>2. ~Enters(t, "EXPIRED")
    BY <2>1 DEF Called, Enters
  <2>3. st[t] # "CALLED" \/ status[t] = "CALLED"
    BY <2>1
  <2>. QED
    BY <2>1, <2>2, <2>3, CallsInTime
<1>5. ASSUME NEW c \in Trip,
             Arrive(c) \/ Confirm(c) \/ (\E charge \in Charge : Start(c, charge)) \/ Stop(c) \/ Cancel(c) \/ Pay(c)
      PROVE  /\ stage # "sync" /\ ~Enters(t, "EXPIRED")
             /\ Enters(t, "CALLED") => ends'[t] = clock' + config.callTimeout
  <2>1. {"RESERVED", "QUEUED", "CHARGING", "PENDING_PAYMENT", "CANCELLED", "COMPLETED"} \subseteq Status \ {"EXPIRED", "CALLED"}
    BY DEF Status, Active, Allocated
  <2>. QED
    BY <1>4, <1>5, <2>1 DEF Arrive, Confirm, Start, Stop, Cancel, Pay
<1>6. ASSUME NEW u \in User, NEW c \in Trip, (\E life \in OfferLife : Offer(u, c, life)) \/ (\E s \in Station, eta \in Eta : Select(u, c, s, eta))
      PROVE  stage # "sync" /\ ~Enters(t, "EXPIRED") /\ ~Enters(t, "CALLED")
  BY <1>1, <1>6 DEF Offer, Select, Enters
<1>7. ASSUME NEW s \in Station, NEW n \in 0..MaxCapacity, NEW delay \in Delay, SetBackground(s, n, delay)
      PROVE  /\ stage # "sync" /\ ~Enters(t, "EXPIRED")
             /\ Enters(t, "CALLED") => ends'[t] = clock' + config.callTimeout
  <2>1. /\ stage # "sync" /\ clock' = clock
        /\ status' = Called(status, background', turn) /\ ends' = Deadlines(status, background', turn, ends, clock)
    BY <1>7 DEF SetBackground, Dispatch
  <2>2. ~Enters(t, "EXPIRED")
    BY <2>1 DEF Called, Enters
  <2>. QED
    BY <1>1, <2>1, <2>2, CallsInTime
<1>8. CASE Settle \/ Answer \/ (\E s \in Station, n \in 1..MaxCapacity : Reload(s, n))
            \/ (\E c \in Configs : Configure(c)) \/ UNCHANGED vars
  BY <1>8 DEF Settle, Answer, Reload, Configure, vars, Enters
<1>. QED
  BY <1>2, <1>3, <1>5, <1>6, <1>7, <1>8 DEF Next, Catch, Travel, Manage

\* However late it is noticed, what ends by itself counts from the instant it was due.
THEOREM DueInTime == Spec => EffectsInTime
<1>1. IInv /\ [Next]_vars =>
        [\A t \in Trip :
           /\ Enters(t, "EXPIRED") => clock' = DueAt(t)
           /\ Enters(t, "PENDING_PAYMENT") /\ stage = "sync" =>
                clock' = ends[t] /\ served'[t] = ends[t] - start[t]
           /\ Enters(t, "CALLED") => ends'[t] = clock' + config.callTimeout]_vars
  BY StepInTime
<1>. QED
  BY <1>1, TripInvariant, PTL DEF Spec, EffectsInTime

\* Some subset of a finite set, if any, has no smaller one of its kind within it.
LEMMA SmallestSet ==
  ASSUME NEW S, IsFiniteSet(S), NEW B \in SUBSET (SUBSET S), B # {}
  PROVE  \E U \in B : \A V \in B : V \subseteq U => V = U
<1>. DEFINE D == {Cardinality(U) : U \in B}
<1>1. \A U \in B : IsFiniteSet(U) /\ Cardinality(U) \in Nat
  BY FS_Subset, FS_CardinalityType
<1>2. PICK d \in D : \A e \in D : d <= e
  <2>1. D \in SUBSET Nat /\ D # {}
    BY <1>1
  <2>. HIDE DEF D
  <2>. QED
    BY <2>1, LeastNumber
<1>3. PICK U \in B : Cardinality(U) = d
  OBVIOUS
<1>4. ASSUME NEW V \in B, V \subseteq U
      PROVE  V = U
  <2>1. Cardinality(V) <= Cardinality(U) /\ (Cardinality(U) = Cardinality(V) => U = V)
    BY <1>1, <1>4, FS_Subset
  <2>2. Cardinality(U) <= Cardinality(V)
    BY <1>2, <1>3
  <2>. QED
    BY <1>1, <2>1, <2>2
<1>. QED
  BY <1>4

-----------------------------------------------------------------------------
(* The awards of a day: sums over finite sets.                             *)

\* What the sum of the numbers p over the set S unfolds to.
OneOf(s) == CHOOSE t \in s : TRUE
Sums(g, p, S) ==
  g = [s \in SUBSET S |-> IF s = {} THEN 0 ELSE p[OneOf(s)] + g[s \ {OneOf(s)}]]

Total(p, S) == MapThenSumSet(LAMBDA t : p[t], S)

\* The total is the value of what it unfolds to.
LEMMA TotalUnfolded ==
  ASSUME NEW S, NEW p
  PROVE  Total(p, S) = (CHOOSE g : Sums(g, p, S))[S]
  BY DEF Total, MapThenSumSet, MapThenFoldSet, Sums, OneOf

\* Two of them are the same within S; one depends on no order.
Same(g, h, S) == \A U \in SUBSET S : g[U] = h[U]
Additive(g, p, S) == \A U \in SUBSET S : g[U] \in Nat /\ \A t \in U : g[U] = p[t] + g[U \ {t}]

\* Where the numbers are the same the sums are.
LEMMA SumsAgree ==
  ASSUME NEW S, NEW T, IsFiniteSet(T), T \subseteq S, NEW p, NEW q, \A t \in T : p[t] = q[t],
         NEW g, NEW h, Sums(g, p, S), Sums(h, q, T)
  PROVE  Same(g, h, T)
<1>. DEFINE B == {U \in SUBSET T : g[U] # h[U]}
<1>. SUFFICES ASSUME B # {}
              PROVE  FALSE
  BY DEF Same
<1>1. PICK U \in B : \A V \in B : V \subseteq U => V = U
  <2>1. B \in SUBSET (SUBSET T)
    OBVIOUS
  <2>. HIDE DEF B
  <2>. QED
    BY <2>1, SmallestSet
<1>2. U \in SUBSET S /\ U \in SUBSET T
  OBVIOUS
<1>3. /\ g[U] = IF U = {} THEN 0 ELSE p[OneOf(U)] + g[U \ {OneOf(U)}]
      /\ h[U] = IF U = {} THEN 0 ELSE q[OneOf(U)] + h[U \ {OneOf(U)}]
  BY <1>2 DEF Sums
<1>4. CASE U = {}
  BY <1>3, <1>4
<1>5. CASE U # {}
  <2>1. OneOf(U) \in U
    BY <1>5 DEF OneOf
  <2>2. U \ {OneOf(U)} \notin B
    BY <2>1, <1>1
  <2>3. g[U \ {OneOf(U)}] = h[U \ {OneOf(U)}]
    BY <2>2
  <2>. QED
    BY <1>3, <1>5, <2>1, <2>3
<1>. QED
  BY <1>4, <1>5

\* Every finite set has its sums.
LEMMA SumsExist ==
  ASSUME NEW S, IsFiniteSet(S), NEW p
  PROVE  \E g : Sums(g, p, S)
<1>. DEFINE B == {U \in SUBSET S : ~\E g : Sums(g, p, U)}
<1>. SUFFICES ASSUME B # {}
              PROVE  FALSE
  OBVIOUS
<1>1. PICK U \in B : \A V \in B : V \subseteq U => V = U
  <2>1. B \in SUBSET (SUBSET S)
    OBVIOUS
  <2>. HIDE DEF B
  <2>. QED
    BY <2>1, SmallestSet
<1>. DEFINE Part(V) == CHOOSE g : Sums(g, p, V)
            Rest(V) == V \ {OneOf(V)}
            g == [V \in SUBSET U |-> IF V = {} THEN 0 ELSE p[OneOf(V)] + Part(Rest(V))[Rest(V)]]
<1>2. \A V \in SUBSET U : V # U => Sums(Part(V), p, V)
  <2>1. \A V \in SUBSET U : V # U => \E f : Sums(f, p, V)
    BY <1>1
  <2>. QED
    BY <2>1
<1>3. ASSUME NEW V \in SUBSET U, V # U
      PROVE  g[V] = Part(V)[V]
  <2>1. Sums(Part(V), p, V)
    BY <1>2, <1>3
  <2>2. CASE V = {}
    BY <2>1, <2>2 DEF Sums
  <2>3. CASE V # {}
    <3>1. OneOf(V) \in V
      BY <2>3 DEF OneOf
    <3>2. Sums(Part(Rest(V)), p, Rest(V)) /\ IsFiniteSet(Rest(V)) /\ Rest(V) \subseteq V
      BY <1>2, <3>1, FS_Subset
    <3>3. Part(V)[Rest(V)] = Part(Rest(V))[Rest(V)]
      <4>. HIDE DEF Part, Rest
      <4>1. Same(Part(V), Part(Rest(V)), Rest(V))
        BY <2>1, <3>2, SumsAgree
      <4>. QED
        BY <4>1 DEF Same
    <3>4. Part(V)[V] = p[OneOf(V)] + Part(V)[Rest(V)]
      BY <2>1, <2>3 DEF Sums
    <3>. QED
      BY <2>3, <3>3, <3>4
  <2>. QED
    BY <2>2, <2>3
<1>4. Sums(g, p, U)
  <2>1. ASSUME NEW V \in SUBSET U, V # {}
        PROVE  g[V] = p[OneOf(V)] + g[Rest(V)]
    <3>1. Rest(V) \in SUBSET U /\ Rest(V) # U
      BY <2>1 DEF OneOf
    <3>. QED
      BY <2>1, <3>1, <1>3
  <2>2. ASSUME NEW V \in SUBSET U
        PROVE  g[V] = IF V = {} THEN 0 ELSE p[OneOf(V)] + g[Rest(V)]
    <3>1. V = {} => g[V] = 0
      OBVIOUS
    <3>. HIDE DEF g
    <3>. QED
      BY <2>1, <3>1
  <2>3. g = [V \in SUBSET U |-> g[V]]
    OBVIOUS
  <2>. HIDE DEF g
  <2>. QED
    BY <2>2, <2>3 DEF Sums
<1>. QED
  BY <1>4

\* Sums of natural numbers: which one is taken off makes no difference.
LEMMA SumsSplit ==
  ASSUME NEW S, IsFiniteSet(S), NEW p \in [S -> Nat], NEW g, Sums(g, p, S)
  PROVE  Additive(g, p, S)
<1>. DEFINE Good(U) == g[U] \in Nat /\ \A t \in U : g[U] = p[t] + g[U \ {t}]
            B == {U \in SUBSET S : ~Good(U)}
<1>. SUFFICES ASSUME B # {}
              PROVE  FALSE
  BY DEF Additive
<1>1. PICK U \in B : \A V \in B : V \subseteq U => V = U
  <2>1. B \in SUBSET (SUBSET S)
    OBVIOUS
  <2>. HIDE DEF B
  <2>. QED
    BY <2>1, SmallestSet
<1>2. \A V \in SUBSET U : V # U => Good(V)
  BY <1>1
<1>3. g[U] = IF U = {} THEN 0 ELSE p[OneOf(U)] + g[U \ {OneOf(U)}]
  BY DEF Sums
<1>. DEFINE c == OneOf(U)
<1>4. CASE U = {}
  BY <1>3, <1>4
<1>5. CASE U # {}
  <2>1. c \in U
    BY <1>5 DEF OneOf
  <2>. HIDE DEF c
  <2>2. g[U] = p[c] + g[U \ {c}]
    BY <1>3, <1>5 DEF c
  <2>3. g[U] \in Nat
    <3>1. Good(U \ {c})
      BY <1>2, <2>1
    <3>. QED
      BY <2>1, <2>2, <3>1
  <2>4. ASSUME NEW t \in U
        PROVE  g[U] = p[t] + g[U \ {t}]
    <3>1. CASE t = c
      BY <2>2, <3>1
    <3>2. CASE t # c
      <4>1. Good(U \ {c}) /\ Good(U \ {t}) /\ Good((U \ {c}) \ {t})
        BY <1>2, <2>1
      <4>2. g[U \ {c}] = p[t] + g[(U \ {c}) \ {t}]
        BY <4>1, <3>2
      <4>3. g[U \ {t}] = p[c] + g[(U \ {c}) \ {t}]
        <5>1. (U \ {t}) \ {c} = (U \ {c}) \ {t}
          OBVIOUS
        <5>. QED
          BY <4>1, <3>2, <2>1, <5>1
      <4>4. \A a \in Nat, b \in Nat, n \in Nat : a + (b + n) = b + (a + n)
        OBVIOUS
      <4>5. p[t] \in Nat /\ p[c] \in Nat /\ g[(U \ {c}) \ {t}] \in Nat
        BY <2>1, <4>1
      <4>. HIDE DEF Good, B
      <4>6. p[c] + (p[t] + g[(U \ {c}) \ {t}]) = p[t] + (p[c] + g[(U \ {c}) \ {t}])
        BY <4>4, <4>5
      <4>. QED
        BY <2>2, <4>2, <4>3, <4>6, Zenon
    <3>. QED
      BY <3>1, <3>2
  <2>. QED
    BY <2>3, <2>4
<1>. QED
  BY <1>4, <1>5

\* The totals of all its subsets are among them.
LEMMA TotalIs ==
  ASSUME NEW S, IsFiniteSet(S), NEW p, NEW g, Sums(g, p, S)
  PROVE  \A U \in SUBSET S : \A q : (\A t \in U : p[t] = q[t]) => Total(q, U) = g[U]
<1>. SUFFICES ASSUME NEW U \in SUBSET S, NEW q, \A t \in U : p[t] = q[t]
              PROVE  Total(q, U) = g[U]
  OBVIOUS
<1>1. IsFiniteSet(U) /\ U \subseteq S
  BY FS_Subset
<1>2. PICK h : Sums(h, q, U) /\ Total(q, U) = h[U]
  <2>1. \E h : Sums(h, q, U)
    BY <1>1, SumsExist
  <2>. QED
    BY <2>1, TotalUnfolded
<1>3. Same(g, h, U)
  BY <1>1, <1>2, SumsAgree
<1>. QED
  BY <1>2, <1>3 DEF Same

\* A total is a natural number.
LEMMA TotalNat ==
  ASSUME NEW S, IsFiniteSet(S), NEW p \in [S -> Nat]
  PROVE  \A U \in SUBSET S : Total(p, U) \in Nat
<1>1. PICK g : Sums(g, p, S)
  BY SumsExist
<1>2. \A V \in SUBSET S : Total(p, V) = g[V]
  BY <1>1, TotalIs
<1>3. Additive(g, p, S)
  BY <1>1, SumsSplit
<1>. QED
  BY <1>2, <1>3 DEF Additive

\* One more adds its number.
LEMMA TotalSplit ==
  ASSUME NEW S, IsFiniteSet(S), NEW p \in [S -> Nat], NEW U \in SUBSET S, NEW t \in S, t \notin U
  PROVE  Total(p, U \cup {t}) = Total(p, U) + p[t]
<1>1. PICK g : Sums(g, p, S)
  BY SumsExist
<1>2. \A V \in SUBSET S : Total(p, V) = g[V]
  BY <1>1, TotalIs
<1>3. Additive(g, p, S)
  BY <1>1, SumsSplit
<1>4. /\ U \cup {t} \in SUBSET S
      /\ (U \cup {t}) \ {t} = U
      /\ t \in U \cup {t}
      /\ p[t] \in Nat
  OBVIOUS
<1>5. g[U] \in Nat /\ g[U \cup {t}] = p[t] + g[U]
  BY <1>3, <1>4 DEF Additive
<1>. QED
  BY <1>2, <1>4, <1>5

\* A total depends on the numbers of its own only.
LEMMA TotalSame ==
  ASSUME NEW S, IsFiniteSet(S), NEW p, NEW q, \A t \in S : p[t] = q[t]
  PROVE  Total(p, S) = Total(q, S)
<1>1. PICK g : Sums(g, p, S)
  BY SumsExist
<1>2. S \in SUBSET S /\ \A t \in S : p[t] = p[t]
  OBVIOUS
<1>. QED
  BY <1>1, <1>2, TotalIs

\* A payment that adds to a day's awards adds to those of today, and no more than the budget leaves.
LEMMA PayWithin ==
  ASSUME TypeOK, NEW t \in Trip, Pay(t), NEW d
  PROVE  Awarded(d, award', paidAt') > Awarded(d, award, paidAt) => Awarded(d, award', paidAt') <= config.budget
<1>. DEFINE On(points, at) == {u \in Trip : points[u] > 0 /\ Day(at[u]) = d}
            Others == On(award, paidAt) \ {t}
            n == Total(award, Others)
<1>1. PICK points \in 0..reward[t] :
        /\ points = IF ~Deserved(t) THEN 0 ELSE IF reward[t] < Remaining THEN reward[t] ELSE Remaining
        /\ award' = [award EXCEPT ![t] = points]
        /\ paidAt' = [paidAt EXCEPT ![t] = IF points > 0 THEN clock ELSE 0]
  BY DEF Pay
<1>2. /\ IsFiniteSet(Trip) /\ award \in [Trip -> Nat] /\ reward[t] \in Nat /\ points \in Nat
      /\ award' \in [Trip -> Nat] /\ config.budget \in Nat
  BY <1>1, TripAssumption DEF TypeOK, Config
<1>3. /\ Others \in SUBSET Trip /\ t \notin Others
      /\ On(award, paidAt) = IF award[t] > 0 /\ Day(paidAt[t]) = d THEN Others \cup {t} ELSE Others
  OBVIOUS
<1>4. On(award', paidAt') = IF points > 0 /\ Day(clock) = d THEN Others \cup {t} ELSE Others
  BY <1>1, <1>2 DEF TypeOK
<1>5. Awarded(d, award, paidAt) = Total(award, On(award, paidAt)) /\ Awarded(d, award', paidAt') = Total(award', On(award', paidAt'))
  BY DEF Awarded, Total
<1>. HIDE DEF On, Others
<1>6. Total(award', Others) = n
  <2>1. IsFiniteSet(Others) /\ \A u \in Others : award[u] = award'[u]
    BY <1>1, <1>2, <1>3, FS_Subset
  <2>. QED
    BY <2>1, TotalSame
<1>7. n \in Nat /\ Total(award, Others \cup {t}) = n + award[t]
  BY <1>2, <1>3, TotalNat, TotalSplit
<1>8. Total(award', Others \cup {t}) = n + points
  <2>1. Total(award', Others \cup {t}) = Total(award', Others) + award'[t]
    BY <1>2, <1>3, TotalSplit
  <2>. QED
    BY <1>1, <1>2, <1>6, <2>1
<1>. HIDE DEF n
<1>9. Awarded(d, award, paidAt) \in Nat /\ n <= Awarded(d, award, paidAt)
  <2>1. award[t] \in Nat
    BY <1>2
  <2>2. Awarded(d, award, paidAt) = n \/ Awarded(d, award, paidAt) = n + award[t]
    BY <1>3, <1>5, <1>7 DEF n
  <2>. QED
    BY <1>7, <2>1, <2>2
<1>10. CASE points > 0 /\ Day(clock) = d
  <2>1. Awarded(d, award', paidAt') = n + points
    BY <1>4, <1>5, <1>8, <1>10
  <2>2. points <= Remaining /\ Remaining > 0
    BY <1>1, <1>2, <1>9, <1>10 DEF Remaining
  <2>3. points <= config.budget - Awarded(d, award, paidAt)
    BY <1>2, <1>9, <1>10, <2>2 DEF Remaining
  <2>. QED
    BY <1>2, <1>7, <1>9, <2>1, <2>3
<1>11. CASE ~(points > 0 /\ Day(clock) = d)
  <2>1. Awarded(d, award', paidAt') = n
    BY <1>4, <1>5, <1>6, <1>11
  <2>. QED
    BY <1>7, <1>9, <2>1
<1>. QED
  BY <1>10, <1>11

\* Nothing else awards anything.
LEMMA StepWithin ==
  ASSUME IInv, [Next]_vars, NEW d
  PROVE  Awarded(d, award', paidAt') > Awarded(d, award, paidAt) => Awarded(d, award', paidAt') <= config.budget
<1>1. CASE \E t \in Trip : Pay(t)
  BY <1>1, PayWithin DEF IInv
<1>2. CASE UNCHANGED ledgerVars
  <2>1. Awarded(d, award', paidAt') = Awarded(d, award, paidAt)
    BY <1>2 DEF ledgerVars
  <2>2. Awarded(d, award, paidAt) = Total(award, {t \in Trip : award[t] > 0 /\ Day(paidAt[t]) = d})
    BY DEF Awarded, Total
  <2>3. Awarded(d, award, paidAt) \in Nat
    BY <2>2, TotalNat, TripAssumption DEF IInv, TypeOK
  <2>. QED
    BY <2>1, <2>3
<1>3. UNCHANGED ledgerVars \/ \E t \in Trip : Pay(t)
  BY DEF Next, Catch, Travel, Manage, Begin, Batch, Settle, Answer, Offer, Select, Arrive, Confirm, Start, Stop,
         Cancel, SetBackground, Configure, Reload, vars, ledgerVars
<1>. QED
  BY <1>1, <1>2, <1>3

\* Whatever is paid in which order and however the configuration changes, an
\* award never takes its day over the budget that is in force.
THEOREM BudgetIsKept == Spec => BudgetKept
<1>1. IInv /\ [Next]_vars =>
        [\A d \in 0..Day(MaxTime) :
           Awarded(d, award', paidAt') > Awarded(d, award, paidAt) => Awarded(d, award', paidAt') <= config.budget]_vars
  BY StepWithin
<1>. QED
  BY <1>1, TripInvariant, PTL DEF Spec, BudgetKept
=============================================================================
