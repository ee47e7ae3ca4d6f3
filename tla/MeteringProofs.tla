---------------------------- MODULE MeteringProofs ----------------------------
(***************************************************************************)
(* What the fees are, what the binary search for a budget finds, and that  *)
(* a meter stays within its target, uses it up and can always be read, for *)
(* any tariffs, targets and bounds; the last two where everything fits.    *)
(***************************************************************************)
EXTENDS Metering, WellFoundedInduction, TLAPS

LEMMA ConstantTypes ==
  /\ Maximum \in Nat /\ Word \in Nat /\ 1000 * Maximum + 1000 <= Word
  /\ MaxStart \in Nat /\ MaxTime \in Nat /\ MaxSlips \in Nat
  /\ \A f \in Tariff : f.power \in Nat \ {0} /\ f.price \in Nat
  /\ \A t \in Target \cup {NoTarget} : t.value \in Nat
<1>1. {Maximum, Word, MaxStart, MaxTime, MaxSlips} \subseteq Nat /\ 1000 * Maximum + 1000 <= Word
  BY MeteringAssumption DEF MeteringAssumption
<1>2. Maximum \in Nat /\ Word \in Nat /\ MaxStart \in Nat /\ MaxTime \in Nat /\ MaxSlips \in Nat
  BY <1>1
<1>3. ASSUME NEW f \in Tariff
      PROVE  f.power \in Nat \ {0} /\ f.price \in Nat
  <2>1. f \in [power : Nat \ {0}, price : 0..Maximum]
    BY MeteringAssumption DEF MeteringAssumption
  <2>. QED
    BY <2>1, <1>2
<1>4. ASSUME NEW t \in Target
      PROVE  t.value \in Nat
  BY MeteringAssumption DEF MeteringAssumption
<1>. QED
  BY <1>1, <1>2, <1>3, <1>4 DEF NoTarget

-----------------------------------------------------------------------------
(* Arithmetic.                                                             *)

\* A set of numbers that is not empty has a least one.
LEMMA LeastNumber ==
  ASSUME NEW D \in SUBSET Nat, D # {}
  PROVE  \E d \in D : \A e \in D : d <= e
<1>1. PICK d \in D : \A e \in D : ~(<<e, d>> \in OpToRel(<, Nat))
  BY NatLessThanWellFounded, WFMin
<1>2. ASSUME NEW e \in D
      PROVE  d <= e
  <2>1. ~(e < d)
    BY <1>1 DEF OpToRel
  <2>2. e \in Int /\ d \in Int
    OBVIOUS
  <2>. QED
    BY <2>1, <2>2
<1>. QED
  BY <1>2

\* Products with a natural number are monotone.
LEMMA ProductMonotone ==
  ASSUME NEW a \in Nat, NEW b \in Nat, NEW d \in Nat, a <= b
  PROVE  d * a <= d * b
<1>. DEFINE c == b - a
<1>1. c \in Nat /\ b = a + c
  OBVIOUS
<1>. HIDE DEF c
<1>2. d * b = d * a + d * c /\ d * c \in Nat
  BY <1>1
<1>. DEFINE x == d * a
            y == d * c
<1>3. x \in Int /\ y \in Nat
  BY <1>2
<1>. QED
  BY <1>2, <1>3

\* A quotient lies between two multiples of the divisor.
LEMMA QuotientBounds ==
  ASSUME NEW x \in Nat, NEW d \in Nat \ {0}
  PROVE  /\ x \div d \in Nat
         /\ d * (x \div d) <= x
         /\ x < d * (x \div d) + d
         /\ x % d = x - d * (x \div d)
OBVIOUS

\* And is the only number that does.
LEMMA QuotientIs ==
  ASSUME NEW x \in Nat, NEW d \in Nat \ {0}, NEW m \in Nat, d * m <= x, x < d * m + d
  PROVE  x \div d = m
<1>. DEFINE n == x \div d
<1>1. n \in Nat /\ d * n <= x /\ x < d * n + d
  BY QuotientBounds
<1>. HIDE DEF n
<1>2. d * (n + 1) = d * n + d /\ d * (m + 1) = d * m + d
  BY <1>1
<1>3. ASSUME n < m PROVE FALSE
  <2>1. d * (n + 1) <= d * m
    BY <1>1, <1>3, ProductMonotone
  <2>. QED
    BY <2>1, <1>1, <1>2
<1>4. ASSUME m < n PROVE FALSE
  <2>1. d * (m + 1) <= d * n
    BY <1>1, <1>4, ProductMonotone
  <2>. QED
    BY <2>1, <1>1, <1>2
<1>5. n = m
  BY <1>1, <1>3, <1>4
<1>. QED
  BY <1>5 DEF n

\* A larger number has no smaller quotient.
LEMMA QuotientMonotone ==
  ASSUME NEW x \in Nat, NEW y \in Nat, NEW d \in Nat \ {0}, x <= y
  PROVE  x \div d <= y \div d
<1>. DEFINE m == x \div d
            n == y \div d
<1>1. m \in Nat /\ n \in Nat /\ d * m <= x /\ y < d * n + d
  BY QuotientBounds
<1>. HIDE DEF m, n
<1>2. ASSUME n < m PROVE FALSE
  <2>1. d * (n + 1) <= d * m
    BY <1>1, <1>2, ProductMonotone
  <2>2. d * (n + 1) = d * n + d /\ d * m \in Nat /\ d * n \in Nat
    BY <1>1
  <2>. QED
    BY <1>1, <2>1, <2>2
<1>3. m <= n
  BY <1>1, <1>2
<1>. QED
  BY <1>3 DEF m, n

\* mulDiv, whose products are small, is the floor of the quotient of the full
\* product, cut off at the largest safe integer.
THEOREM MulDivIsFloor ==
  ASSUME NEW a \in Nat, NEW b \in Nat \ {0}, NEW d \in Nat \ {0}
  PROVE  MulDiv(a, b, d) = Least(Maximum, (a * b) \div d)
<1>. DEFINE q == a \div d
            r == a % d
            s == (r * b) \div d
            most == Maximum \div b
<1>1. q \in Nat /\ r \in Nat /\ a = d * q + r
  BY QuotientBounds
<1>. HIDE DEF q, r
<1>2. r * b \in Nat
  BY <1>1
<1>3. s \in Nat /\ d * s <= r * b /\ r * b < d * s + d
  BY <1>2, QuotientBounds
<1>. HIDE DEF s
<1>4. q * b \in Nat /\ a * b \in Nat /\ a * b = d * (q * b) + r * b
  BY <1>1
<1>5. d * (q * b + s) = d * (q * b) + d * s /\ q * b + s \in Nat
  BY <1>3, <1>4
<1>6. (a * b) \div d = q * b + s
  <2>. DEFINE x == a * b
              m == q * b + s
  <2>1. x \in Nat /\ m \in Nat /\ d * m <= x /\ x < d * m + d
    BY <1>2, <1>3, <1>4, <1>5
  <2>. HIDE DEF x, m
  <2>2. x \div d = m
    BY <2>1, QuotientIs
  <2>. QED
    BY <2>2 DEF x, m
<1>7. Maximum \in Nat
  BY MeteringAssumption DEF MeteringAssumption
<1>8. most \in Nat /\ Maximum < b * most + b
  BY <1>7, QuotientBounds
<1>. HIDE DEF most
<1>9. ASSUME q > most PROVE Maximum < q * b + s
  <2>1. b * (most + 1) <= b * q
    BY <1>1, <1>8, <1>9, ProductMonotone
  <2>2. b * (most + 1) = b * most + b /\ b * q = q * b
    BY <1>1, <1>8
  <2>. QED
    BY <2>1, <2>2, <1>3, <1>4, <1>7, <1>8
<1>10. MulDiv(a, b, d) = IF q > most THEN Maximum ELSE Least(Maximum, q * b + s)
  BY DEF MulDiv, q, r, s, most
<1>. QED
  BY <1>3, <1>4, <1>6, <1>7, <1>9, <1>10 DEF Least

-----------------------------------------------------------------------------
(* Fees.                                                                   *)

\* The exact price in cents, rounded half up.
Cents(wh, price) == (wh * price + 500) \div 1000

LEMMA CentsNat ==
  ASSUME NEW wh \in Nat, NEW price \in Nat
  PROVE  Cents(wh, price) \in Nat
<1>1. wh * price \in Nat
  OBVIOUS
<1>. QED
  BY <1>1 DEF Cents

\* calculateEnergyFeeCents, which never multiplies more than 999 Wh, computes it.
LEMMA FeeIs ==
  ASSUME NEW wh \in Nat, NEW price \in Nat
  PROVE  Fee(wh, price) = IF wh <= Maximum /\ Cents(wh, price) <= Maximum THEN Cents(wh, price) ELSE Failed
<1>. DEFINE k == wh \div 1000
            r == wh % 1000
            p == k * price
            q == r * price
<1>1. k \in Nat /\ r \in Nat /\ wh = 1000 * k + r
  OBVIOUS
<1>2. wh \in 0..Maximum <=> wh <= Maximum
  BY ConstantTypes
<1>3. Fee(wh, price) = IF wh <= Maximum /\ p + (q + 500) \div 1000 <= Maximum THEN p + (q + 500) \div 1000 ELSE Failed
  BY <1>2 DEF Fee
<1>. HIDE DEF k, r
<1>4. p \in Nat /\ q \in Nat /\ wh * price = 1000 * p + q
  BY <1>1
<1>. HIDE DEF p, q
<1>5. Cents(wh, price) = p + (q + 500) \div 1000
  BY <1>4 DEF Cents
<1>. QED
  BY <1>3, <1>5

\* More energy costs no less.
LEMMA CentsMonotone ==
  ASSUME NEW v \in Nat, NEW w \in Nat, v <= w, NEW price \in Nat
  PROVE  Cents(v, price) <= Cents(w, price)
<1>1. price * v <= price * w /\ price * v = v * price /\ price * w = w * price
  BY ProductMonotone
<1>2. v * price \in Nat /\ w * price \in Nat
  OBVIOUS
<1>3. v * price + 500 \in Nat /\ w * price + 500 \in Nat /\ v * price + 500 <= w * price + 500
  BY <1>1, <1>2
<1>. QED
  BY <1>3, QuotientMonotone DEF Cents

\* Fee rounds half up: it is within half a cent of the exact price.
THEOREM FeeRoundsHalfUp ==
  ASSUME NEW wh \in 0..Maximum, NEW price \in Nat, Fee(wh, price) # Failed
  PROVE  /\ 1000 * Fee(wh, price) <= wh * price + 500
         /\ wh * price + 500 < 1000 * (Fee(wh, price) + 1)
<1>. DEFINE x == wh * price + 500
<1>1. wh \in Nat /\ x \in Nat
  <2>1. wh \in Nat /\ wh * price \in Nat
    OBVIOUS
  <2>. QED
    BY <2>1
<1>2. Fee(wh, price) = x \div 1000
  BY <1>1, FeeIs DEF Cents
<1>. HIDE DEF x
<1>3. 1000 * Fee(wh, price) <= x /\ x < 1000 * (Fee(wh, price) + 1)
  BY <1>1, <1>2
<1>. QED
  BY <1>3 DEF x

\* The two implementations of the fee agree: an order without a target, which
\* BillingService bills, passes the check of recordTelemetry and stopCharging,
\* which compute the amount with calculateEnergyFeeCents.
THEOREM FeesAgree ==
  ASSUME NEW power \in Nat, NEW seconds \in Nat, NEW price \in Nat,
         Billed(power, seconds, price).ok
  PROVE  Billed(power, seconds, price).amount = Fee(Billed(power, seconds, price).energy, price)
<1>. DEFINE b == Billed(power, seconds, price)
            wh == (power * seconds) \div 3600
<1>1. power * seconds \in Nat
  OBVIOUS
<1>2. wh \in Nat
  BY <1>1
<1>3. b.energy = wh /\ b.amount = Cents(wh, price) /\ wh <= Maximum /\ b.amount <= Maximum
  BY DEF Billed, Cents
<1>. HIDE DEF wh, b
<1>4. b.amount = Fee(b.energy, price)
  BY <1>2, <1>3, FeeIs
<1>. QED
  BY <1>4 DEF b

-----------------------------------------------------------------------------
(* The binary search.                                                      *)

\* Energy that leaves something of the budget.
Cheap(wh, budget, price) == Fee(wh, price) \in 0..(budget - 1)

LEMMA CheapBelow ==
  ASSUME NEW budget \in Nat, NEW price \in Nat, NEW w \in Nat, Cheap(w, budget, price), NEW v \in 0..w
  PROVE  Cheap(v, budget, price)
<1>1. v \in Nat /\ v <= w
  OBVIOUS
<1>2. Cents(v, price) \in Nat /\ Cents(w, price) \in Nat /\ Cents(v, price) <= Cents(w, price)
  BY <1>1, CentsNat, CentsMonotone
<1>3. w <= Maximum /\ Cents(w, price) <= Maximum /\ Cents(w, price) <= budget - 1
  BY <1>2, FeeIs DEF Cheap, Failed
<1>4. Fee(v, price) = Cents(v, price)
  BY <1>1, <1>2, <1>3, ConstantTypes, FeeIs
<1>. QED
  BY <1>2, <1>3, <1>4 DEF Cheap

\* The first energy of a range that is not cheap, or the last of the range.
Turning(w, low, high, budget, price) ==
  /\ w \in low..high
  /\ w = high \/ ~Cheap(w, budget, price)
  /\ \A v \in low..(w - 1) : Cheap(v, budget, price)

LEMMA TurningExists ==
  ASSUME NEW low \in Nat, NEW high \in Nat, low <= high, NEW budget, NEW price
  PROVE  \E w : Turning(w, low, high, budget, price)
<1>. DEFINE D == {w \in low..high : w = high \/ ~Cheap(w, budget, price)}
<1>1. D \in SUBSET Nat /\ high \in D
  OBVIOUS
<1>2. PICK w \in D : \A v \in D : w <= v
  <2>. HIDE DEF D
  <2>. QED
    BY <1>1, LeastNumber
<1>3. ASSUME NEW v \in low..(w - 1)
      PROVE  Cheap(v, budget, price)
  <2>1. v \notin D
    BY <1>2
  <2>. QED
    BY <2>1
<1>. QED
  BY <1>2, <1>3 DEF Turning

LEMMA TurningUnique ==
  ASSUME NEW low \in Nat, NEW high \in Nat, NEW budget, NEW price, NEW v, NEW w,
         Turning(v, low, high, budget, price), Turning(w, low, high, budget, price)
  PROVE  v = w
<1>1. v \in low..high /\ w \in low..high
  BY DEF Turning
<1>2. ~(v < w) /\ ~(w < v)
  BY <1>1 DEF Turning
<1>. QED
  BY <1>1, <1>2

LEMMA MiddleBetween ==
  ASSUME NEW low \in Nat, NEW high \in Nat
  PROVE  LET middle == low + (high - low) \div 2
         IN  /\ low < high => middle \in low..(high - 1)
             /\ high < low => middle \in high..(low - 1)
  OBVIOUS

\* Either half of the range that the search goes on with has its turning point.
LEMMA TurningHalf ==
  ASSUME NEW low \in Nat, NEW high \in Nat, NEW m \in low..(high - 1), NEW budget \in Nat, NEW price \in Nat, NEW w
  PROVE  /\ Cheap(m, budget, price) /\ Turning(w, m + 1, high, budget, price) => Turning(w, low, high, budget, price)
         /\ ~Cheap(m, budget, price) /\ Turning(w, low, m, budget, price) => Turning(w, low, high, budget, price)
<1>1. ASSUME Cheap(m, budget, price), Turning(w, m + 1, high, budget, price)
      PROVE  Turning(w, low, high, budget, price)
  <2>1. w \in (m + 1)..high /\ m \in Nat
    BY <1>1 DEF Turning
  <2>2. ASSUME NEW v \in low..(w - 1)
        PROVE  Cheap(v, budget, price)
    <3>1. CASE v <= m
      BY <1>1, <2>1, <3>1, CheapBelow
    <3>2. CASE v > m
      BY <1>1, <2>1, <3>2 DEF Turning
    <3>. QED
      BY <2>1, <3>1, <3>2
  <2>. QED
    BY <1>1, <2>1, <2>2 DEF Turning
<1>2. ASSUME ~Cheap(m, budget, price), Turning(w, low, m, budget, price)
      PROVE  Turning(w, low, high, budget, price)
  BY <1>2 DEF Turning
<1>. QED
  BY <1>1, <1>2

\* What the search of a range comes to; f is the search itself.
Ranges == (0..Maximum) \X (0..Maximum)
Step(f, range, budget, price) ==
  LET low == range[1]
      high == range[2]
      middle == low + (high - low) \div 2
  IN  CASE low = high -> Affordable(low, budget, price)
        [] low < high /\ Fee(middle, price) \in 0..(budget - 1) -> f[<<middle + 1, high>>]
        [] OTHER -> f[<<low, middle>>]
Searches(f, budget, price) == f = [range \in Ranges |-> Step(f, range, budget, price)]

LEMMA BudgetUnfolded ==
  ASSUME NEW budget, NEW price
  PROVE  BudgetWh(budget, price) = (CHOOSE f : Searches(f, budget, price))[<<0, Maximum>>]
  BY DEF BudgetWh, Searches, Step, Ranges

LEMMA SearchStep ==
  ASSUME NEW f, NEW budget, NEW price, Searches(f, budget, price), NEW low \in 0..Maximum, NEW high \in 0..Maximum
  PROVE  f[<<low, high>>] = Step(f, <<low, high>>, budget, price)
  BY DEF Searches, Ranges

\* However it halves, the search of a range finds its turning point.
LEMMA SearchFinds ==
  ASSUME NEW f, NEW budget \in Nat, NEW price \in Nat, Searches(f, budget, price),
         NEW a \in 0..Maximum, NEW b \in 0..Maximum, a <= b
  PROVE  \E w : Turning(w, a, b, budget, price) /\ f[<<a, b>>] = Affordable(w, budget, price)
<1>. DEFINE Found(low, high) == \E w : Turning(w, low, high, budget, price) /\ f[<<low, high>>] = Affordable(w, budget, price)
            D == {n \in Nat : \E low, high \in 0..Maximum : low <= high /\ n = high - low /\ ~Found(low, high)}
<1>. SUFFICES ASSUME D # {}
              PROVE  FALSE
  <2>1. b - a \in Nat
    OBVIOUS
  <2>2. ~Found(a, b) => b - a \in D
    <3>. HIDE DEF Found
    <3>. QED
      BY <2>1
  <2>. QED
    BY <2>2
<1>1. PICK n \in D : \A k \in D : n <= k
  <2>1. D \in SUBSET Nat
    OBVIOUS
  <2>. HIDE DEF D
  <2>. QED
    BY <2>1, LeastNumber
<1>. HIDE DEF Found
<1>2. PICK low \in 0..Maximum, high \in 0..Maximum : low <= high /\ n = high - low /\ ~Found(low, high)
  BY <1>1
<1>3. ASSUME NEW c \in 0..Maximum, NEW d \in 0..Maximum, c <= d, d - c < n
      PROVE  Found(c, d)
  <2>1. d - c \in Nat
    BY <1>3
  <2>2. d - c \notin D
    <3>. HIDE DEF D
    <3>. QED
      BY <1>1, <1>2, <1>3, <2>1
  <2>. QED
    BY <1>3, <2>1, <2>2
<1>. HIDE DEF D
<1>. DEFINE m == low + (high - low) \div 2
<1>. USE DEF Found
<1>4. f[<<low, high>>] = CASE low = high -> Affordable(low, budget, price)
                           [] low < high /\ Cheap(m, budget, price) -> f[<<m + 1, high>>]
                           [] OTHER -> f[<<low, m>>]
  BY SearchStep DEF Step, Cheap
<1>5. CASE low = high
  <2>1. Turning(low, low, high, budget, price)
    BY <1>5 DEF Turning
  <2>. QED
    BY <1>2, <1>4, <1>5, <2>1
<1>6. CASE low < high
  <2>1. m \in low..(high - 1)
    BY <1>6, MiddleBetween
  <2>. HIDE DEF m
  <2>2. CASE Cheap(m, budget, price)
    <3>1. Found(m + 1, high)
      BY <1>2, <1>3, <2>1, ConstantTypes
    <3>. QED
      BY <1>2, <1>4, <1>6, <2>1, <2>2, <3>1, TurningHalf
  <2>3. CASE ~Cheap(m, budget, price)
    <3>1. Found(low, m)
      BY <1>2, <1>3, <2>1, ConstantTypes
    <3>2. f[<<low, high>>] = f[<<low, m>>]
      BY <1>4, <1>6, <2>3
    <3>. QED
      BY <1>2, <2>1, <2>3, <3>1, <3>2, TurningHalf
  <2>. QED
    BY <2>2, <2>3
<1>. QED
  BY <1>2, <1>5, <1>6

\* There is such a search.
LEMMA SearchExists ==
  ASSUME NEW budget \in Nat, NEW price \in Nat
  PROVE  \E f : Searches(f, budget, price)
<1>. DEFINE Point(low, high) == CHOOSE w : Turning(w, low, high, budget, price)
            Value(low, high) == IF low <= high THEN Affordable(Point(low, high), budget, price) ELSE 0
            f == [range \in Ranges |-> Value(range[1], range[2])]
<1>1. ASSUME NEW low \in 0..Maximum, NEW high \in 0..Maximum
      PROVE  f[<<low, high>>] = Value(low, high)
  BY DEF Ranges
<1>2. ASSUME NEW low \in Nat, NEW high \in Nat, NEW w, Turning(w, low, high, budget, price)
      PROVE  Point(low, high) = w
  <2>1. Turning(Point(low, high), low, high, budget, price)
    BY <1>2
  <2>. HIDE DEF Point
  <2>. QED
    BY <1>2, <2>1, TurningUnique
<1>3. ASSUME NEW low \in Nat, NEW high \in Nat, low <= high
      PROVE  Turning(Point(low, high), low, high, budget, price)
  BY <1>3, TurningExists
<1>4. ASSUME NEW low \in 0..Maximum, NEW high \in 0..Maximum
      PROVE  Value(low, high) = Step(f, <<low, high>>, budget, price)
  <2>. DEFINE m == low + (high - low) \div 2
  <2>0. low \in Nat /\ high \in Nat
    OBVIOUS
  <2>1. Step(f, <<low, high>>, budget, price) =
          CASE low = high -> Affordable(low, budget, price)
            [] low < high /\ Cheap(m, budget, price) -> f[<<m + 1, high>>]
            [] OTHER -> f[<<low, m>>]
    BY DEF Step, Cheap
  <2>. HIDE DEF f, Point
  <2>2. CASE low = high
    <3>1. Turning(low, low, high, budget, price)
      BY <2>2 DEF Turning
    <3>2. Point(low, high) = low
      BY <2>0, <3>1, <1>2
    <3>. QED
      BY <2>1, <2>2, <3>2
  <2>3. CASE low < high
    <3>1. m \in low..(high - 1) /\ m \in 0..Maximum /\ m + 1 \in 0..Maximum
      BY <2>0, <2>3, MiddleBetween, ConstantTypes
    <3>. HIDE DEF m
    <3>2. CASE Cheap(m, budget, price)
      <4>1. Point(low, high) = Point(m + 1, high)
        <5>1. Turning(Point(m + 1, high), m + 1, high, budget, price)
          BY <2>0, <3>1, <1>3
        <5>2. Turning(Point(m + 1, high), low, high, budget, price)
          BY <2>0, <3>1, <3>2, <5>1, TurningHalf
        <5>. QED
          BY <2>0, <5>2, <1>2
      <4>2. Step(f, <<low, high>>, budget, price) = f[<<m + 1, high>>]
        BY <2>1, <2>3, <3>2
      <4>3. f[<<m + 1, high>>] = Value(m + 1, high)
        BY <3>1, <1>1
      <4>. QED
        BY <2>0, <2>3, <3>1, <4>1, <4>2, <4>3
    <3>3. CASE ~Cheap(m, budget, price)
      <4>1. Point(low, high) = Point(low, m)
        <5>1. Turning(Point(low, m), low, m, budget, price)
          BY <2>0, <3>1, <1>3
        <5>2. Turning(Point(low, m), low, high, budget, price)
          BY <2>0, <3>1, <3>3, <5>1, TurningHalf
        <5>. QED
          BY <2>0, <5>2, <1>2
      <4>2. Step(f, <<low, high>>, budget, price) = f[<<low, m>>]
        BY <2>0, <2>1, <2>3, <3>3
      <4>3. f[<<low, m>>] = Value(low, m)
        BY <3>1, <1>1
      <4>. QED
        BY <2>0, <2>3, <3>1, <4>1, <4>2, <4>3
    <3>. QED
      BY <3>2, <3>3
  <2>4. CASE high < low
    <3>1. m \in high..(low - 1) /\ m \in 0..Maximum
      BY <2>0, <2>4, MiddleBetween, ConstantTypes
    <3>. HIDE DEF m
    <3>2. Step(f, <<low, high>>, budget, price) = f[<<low, m>>]
      BY <2>0, <2>1, <2>4
    <3>3. f[<<low, m>>] = Value(low, m)
      BY <3>1, <1>1
    <3>. QED
      BY <2>0, <2>4, <3>1, <3>2, <3>3
  <2>. QED
    BY <2>0, <2>2, <2>3, <2>4
<1>5. \A range \in Ranges : f[range] = Step(f, range, budget, price)
  <2> SUFFICES ASSUME NEW range \in Ranges PROVE f[range] = Step(f, range, budget, price)
    OBVIOUS
  <2>1. range = <<range[1], range[2]>> /\ range[1] \in 0..Maximum /\ range[2] \in 0..Maximum
    BY DEF Ranges
  <2>. HIDE DEF f, Value
  <2>. QED
    BY <2>1, <1>1, <1>4
<1>6. f = [range \in Ranges |-> f[range]]
  OBVIOUS
<1>. HIDE DEF f
<1>7. Searches(f, budget, price)
  BY <1>5, <1>6 DEF Searches
<1>. QED
  BY <1>7

\* firstBudgetWh finds energy that the budget pays for, and as much of it as
\* there is: the next Wh costs more, unless nothing is left anyway.
THEOREM BudgetIsSpent ==
  ASSUME NEW budget \in Nat \ {0}, NEW price \in Nat
  PROVE  LET wh == BudgetWh(budget, price)
         IN  /\ wh \in 0..Maximum
             /\ Fee(wh, price) \in 0..budget
             /\ wh = Maximum \/ Fee(wh, price) = budget \/ Fee(wh + 1, price) \notin 0..budget
<1>. DEFINE wh == BudgetWh(budget, price)
<1>1. PICK w : Turning(w, 0, Maximum, budget, price) /\ wh = Affordable(w, budget, price)
  <2>. DEFINE f == CHOOSE f : Searches(f, budget, price)
  <2>1. Searches(f, budget, price) /\ wh = f[<<0, Maximum>>]
    BY SearchExists, BudgetUnfolded
  <2>. HIDE DEF f, wh
  <2>. QED
    BY <2>1, SearchFinds, ConstantTypes
<1>. HIDE DEF wh
<1>2. w \in 0..Maximum
  BY <1>1 DEF Turning
<1>3. CASE Fee(w, price) \in 0..budget
  <2>1. wh = w
    BY <1>1, <1>3 DEF Affordable
  <2>2. w = Maximum \/ Fee(w, price) = budget
    BY <1>1, <1>3 DEF Turning, Cheap
  <2>. QED
    BY <1>2, <1>3, <2>1, <2>2 DEF wh
<1>4. CASE Fee(w, price) \notin 0..budget /\ w # 0
  <2>1. wh = w - 1
    BY <1>1, <1>4 DEF Affordable
  <2>2. wh \in 0..Maximum /\ wh + 1 = w
    BY <1>2, <1>4, <2>1, ConstantTypes
  <2>3. Cheap(wh, budget, price)
    BY <1>1, <1>2, <1>4, <2>1 DEF Turning
  <2>4. Fee(wh, price) \in 0..budget
    BY <2>3 DEF Cheap
  <2>. QED
    BY <1>4, <2>2, <2>4 DEF wh
<1>5. CASE Fee(w, price) \notin 0..budget /\ w = 0
  <2>1. Cents(0, price) = 0
    <3>1. 0 * price = 0
      OBVIOUS
    <3>. QED
      BY <3>1 DEF Cents
  <2>2. Fee(0, price) = 0
    BY <2>1, FeeIs, ConstantTypes
  <2>. QED
    BY <1>5, <2>2
<1>. QED
  BY <1>3, <1>4, <1>5

-----------------------------------------------------------------------------
(* Samples.                                                                *)

Most(power) == (power * MaxTime) \div 3600
Flowed(power, seconds) == MulDiv(seconds, power, 3600)

\* Until the clock ends no more flows than can be counted, and ever more does.
LEMMA FlowFits ==
  ASSUME Fits, NEW f \in Tariff, NEW seconds \in 0..MaxTime
  PROVE  /\ Flowed(f.power, seconds) = (seconds * f.power) \div 3600
         /\ Flowed(f.power, seconds) \in 0..Most(f.power)
         /\ Most(f.power) \in Nat /\ Most(f.power) < Maximum
<1>1. f.power \in Nat \ {0} /\ seconds \in Nat /\ seconds <= MaxTime /\ MaxTime \in Nat
  BY ConstantTypes
<1>2. f.power * MaxTime \in Nat /\ seconds * f.power \in Nat /\ seconds * f.power <= f.power * MaxTime
  <2>1. f.power * seconds <= f.power * MaxTime
    BY <1>1, ProductMonotone
  <2>2. seconds * f.power = f.power * seconds
    BY <1>1
  <2>. QED
    BY <1>1, <2>1, <2>2
<1>3. Most(f.power) \in Nat /\ (seconds * f.power) \div 3600 \in Nat /\ (seconds * f.power) \div 3600 <= Most(f.power)
  <2>. DEFINE x == seconds * f.power
              y == f.power * MaxTime
  <2>1. x \in Nat /\ y \in Nat /\ x <= y
    BY <1>2
  <2>. HIDE DEF x, y
  <2>2. y \div 3600 \in Nat /\ x \div 3600 \in Nat /\ x \div 3600 <= y \div 3600
    BY <2>1, QuotientMonotone
  <2>. QED
    BY <2>2 DEF x, y, Most
<1>4. Most(f.power) < Maximum
  BY DEF Fits, Most
<1>5. Flowed(f.power, seconds) = Least(Maximum, (seconds * f.power) \div 3600)
  BY <1>1, MulDivIsFloor DEF Flowed
<1>. QED
  BY <1>3, <1>4, <1>5, ConstantTypes DEF Least

LEMMA FlowGrows ==
  ASSUME Fits, NEW f \in Tariff, NEW b \in 0..MaxTime, NEW a \in 0..b
  PROVE  Flowed(f.power, a) <= Flowed(f.power, b)
<1>1. f.power \in Nat \ {0} /\ a \in 0..MaxTime /\ a \in Nat /\ b \in Nat /\ a <= b
  BY ConstantTypes
<1>2. a * f.power \in Nat /\ b * f.power \in Nat /\ a * f.power <= b * f.power
  <2>1. f.power * a <= f.power * b
    BY <1>1, ProductMonotone
  <2>2. a * f.power = f.power * a /\ b * f.power = f.power * b
    BY <1>1
  <2>. QED
    BY <1>1, <2>1, <2>2
<1>. QED
  BY <1>1, <1>2, QuotientMonotone, FlowFits

\* And it can be billed, with a Wh more.
LEMMA FlowIsBilled ==
  ASSUME Fits, NEW f \in Tariff, NEW wh \in 0..(Most(f.power) + 1)
  PROVE  Fee(wh, f.price) = Cents(wh, f.price) /\ Fee(wh, f.price) \in 0..Maximum
<1>1. f.price \in Nat /\ Maximum \in Nat /\ MaxTime \in Nat
  BY ConstantTypes
<1>2. Most(f.power) \in Nat /\ Most(f.power) < Maximum
  BY <1>1, FlowFits
<1>3. Fee(Most(f.power) + 1, f.price) # Failed
  BY DEF Fits, Most
<1>4. Cents(Most(f.power) + 1, f.price) <= Maximum
  BY <1>1, <1>2, <1>3, FeeIs
<1>5. wh \in Nat /\ Most(f.power) + 1 \in Nat /\ wh <= Most(f.power) + 1
  BY <1>2
<1>6. Cents(wh, f.price) \in Nat /\ Cents(wh, f.price) <= Cents(Most(f.power) + 1, f.price)
      /\ Cents(Most(f.power) + 1, f.price) \in Nat
  BY <1>1, <1>5, CentsNat, CentsMonotone
<1>7. Fee(wh, f.price) = Cents(wh, f.price)
  BY <1>1, <1>2, <1>4, <1>5, <1>6, FeeIs
<1>. QED
  BY <1>1, <1>4, <1>6, <1>7

\* The seconds that energy is said to take are no fewer than those after which
\* it has not flowed yet.
LEMMA SecondsSuffice ==
  ASSUME NEW wh \in Nat, NEW power \in Nat \ {0}
  PROVE  /\ SecondsFor(wh, power) \in Nat
         /\ \A seconds \in 0..Maximum : (seconds * power) \div 3600 < wh => seconds <= SecondsFor(wh, power)
<1>. DEFINE n == MulDiv(wh, 3600, power)
            q == (wh * 3600) \div power
<1>1. n = Least(Maximum, q)
  BY MulDivIsFloor
<1>2. q \in Nat /\ power * q <= wh * 3600 /\ wh * 3600 < power * q + power
  <2>. DEFINE x == wh * 3600
  <2>1. x \in Nat
    OBVIOUS
  <2>. HIDE DEF x
  <2>2. x \div power \in Nat /\ power * (x \div power) <= x /\ x < power * (x \div power) + power
    BY <2>1, QuotientBounds
  <2>. QED
    BY <2>2 DEF x
<1>3. n \in Nat /\ (n = Maximum \/ n = q)
  BY <1>1, <1>2, ConstantTypes DEF Least
<1>4. SecondsFor(wh, power) \in Nat /\ n <= SecondsFor(wh, power)
  BY <1>3 DEF SecondsFor
<1>. HIDE DEF n, q
<1>5. ASSUME NEW seconds \in 0..Maximum, (seconds * power) \div 3600 < wh
      PROVE  seconds <= q
  <2>1. seconds \in Nat /\ seconds * power \in Nat /\ power * q \in Nat
    BY <1>2
  <2>2. seconds * power < wh * 3600
    <3>. DEFINE x == seconds * power
                m == x \div 3600
    <3>1. x \in Nat
      BY <2>1
    <3>2. m \in Nat /\ x < 3600 * m + 3600 /\ m < wh
      BY <1>5, <3>1, QuotientBounds
    <3>. HIDE DEF x, m
    <3>3. x < wh * 3600
      BY <3>1, <3>2
    <3>. QED
      BY <3>3 DEF x
  <2>3. ASSUME q < seconds
        PROVE  FALSE
    <3>1. power * (q + 1) <= power * seconds
      BY <1>2, <2>1, <2>3, ProductMonotone
    <3>2. power * (q + 1) = power * q + power /\ power * seconds = seconds * power
      BY <1>2, <2>1
    <3>. QED
      BY <1>2, <2>1, <2>2, <3>1, <3>2
  <2>. QED
    BY <1>2, <2>1, <2>3
<1>6. ASSUME NEW seconds \in 0..Maximum, (seconds * power) \div 3600 < wh
      PROVE  seconds <= SecondsFor(wh, power)
  BY <1>3, <1>4, <1>5, <1>6
<1>. QED
  BY <1>4, <1>6

\* The meter of BillingService, when everything fits.
LEMMA BilledIs ==
  ASSUME Fits, NEW f \in Tariff, NEW seconds \in 0..MaxTime
  PROVE  LET s == Billed(f.power, seconds, f.price)
         IN  /\ s.ok
             /\ s.duration = seconds
             /\ s.energy = Flowed(f.power, seconds)
             /\ s.amount = Fee(s.energy, f.price)
<1>. DEFINE s == Billed(f.power, seconds, f.price)
            wh == Flowed(f.power, seconds)
<1>1. f.power \in Nat \ {0} /\ f.price \in Nat /\ seconds \in Nat /\ seconds <= MaxTime /\ MaxTime \in Nat
      /\ Maximum \in Nat /\ Word \in Nat /\ 1000 * Maximum + 1000 <= Word
  BY ConstantTypes
<1>2. seconds * f.power = f.power * seconds /\ f.power * seconds <= Word
  <2>1. f.power * seconds <= f.power * MaxTime
    BY <1>1, ProductMonotone
  <2>2. f.power * MaxTime <= Word
    BY DEF Fits
  <2>. QED
    BY <1>1, <2>1, <2>2
<1>3. wh = (f.power * seconds) \div 3600 /\ wh \in Nat /\ wh <= Maximum /\ wh \in 0..(Most(f.power) + 1)
  BY <1>1, <1>2, FlowFits
<1>4. Fee(wh, f.price) = Cents(wh, f.price) /\ Cents(wh, f.price) \in 0..Maximum
  BY <1>3, FlowIsBilled
<1>5. wh * f.price + 500 <= Word
  <2>. DEFINE x == wh * f.price + 500
  <2>. HIDE DEF wh
  <2>1. x \in Nat
    <3>1. wh * f.price \in Nat
      BY <1>1, <1>3
    <3>. QED
      BY <3>1
  <2>2. Cents(wh, f.price) = x \div 1000
    BY DEF Cents
  <2>. HIDE DEF x
  <2>3. x < 1000 * Cents(wh, f.price) + 1000
    BY <2>1, <2>2
  <2>4. x <= Word
    BY <1>1, <1>4, <2>1, <2>3
  <2>. QED
    BY <2>4 DEF x
<1>6. /\ s.ok <=> /\ f.power * seconds <= Word
                /\ wh <= Maximum
                /\ wh * f.price + 500 <= Word
                /\ Cents(wh, f.price) <= Maximum
      /\ s.duration = seconds /\ s.energy = wh /\ s.amount = Cents(wh, f.price)
  BY <1>3 DEF Billed, Cents
<1>. HIDE DEF wh, s
<1>7. s.ok /\ s.duration = seconds /\ s.energy = wh /\ s.amount = Fee(s.energy, f.price)
  BY <1>1, <1>2, <1>3, <1>4, <1>5, <1>6
<1>. QED
  BY <1>7 DEF s, wh

Limit(t, price) == IF t.type = "ENERGY" THEN t.value ELSE BudgetWh(t.value, price)

\* The meter of an order with a target, by the kind of target.
LEMMA TimedIs ==
  ASSUME NEW f \in Tariff, NEW t, t.type = "DURATION", NEW seconds
  PROVE  LET s == TargetSample(f.power, seconds, f.price, t)
         IN  /\ s.duration = Least(seconds, t.value)
             /\ s.energy = Flowed(f.power, s.duration)
             /\ s.amount = Fee(s.energy, f.price)
             /\ s.reached <=> seconds >= t.value
             /\ s.ok <=> seconds <= Maximum /\ s.amount # Failed
<1>. DEFINE s == TargetSample(f.power, seconds, f.price, t)
<1>1. s.duration = Least(seconds, t.value)
  BY DEF TargetSample, Capped
<1>2. s.energy = Flowed(f.power, s.duration)
  BY DEF TargetSample, Flowed
<1>3. s.amount = Fee(s.energy, f.price)
  BY DEF TargetSample
<1>4. s.reached <=> seconds >= t.value
  BY Zenon DEF TargetSample
<1>5. s.ok <=> seconds <= Maximum /\ s.amount # Failed
  BY DEF TargetSample
<1>. QED
  BY <1>1, <1>2, <1>3, <1>4, <1>5

LEMMA MeasuredIs ==
  ASSUME NEW f \in Tariff, NEW t, t.type # "DURATION", NEW seconds
  PROVE  LET s == TargetSample(f.power, seconds, f.price, t)
         IN  /\ s.reached <=> Flowed(f.power, seconds) >= Limit(t, f.price)
             /\ s.duration = IF s.reached THEN Least(seconds, SecondsFor(Limit(t, f.price), f.power)) ELSE seconds
             /\ s.energy = Least(Flowed(f.power, seconds), Limit(t, f.price))
             /\ s.amount = Fee(s.energy, f.price)
             /\ s.ok <=> /\ seconds <= Maximum
                         /\ t.type = "AMOUNT" => f.price > 0 /\ s.amount <= t.value
                         /\ s.amount # Failed
<1>. DEFINE s == TargetSample(f.power, seconds, f.price, t)
<1>1. s.reached <=> Flowed(f.power, seconds) >= Limit(t, f.price)
  BY Zenon DEF TargetSample, Flowed, Limit
<1>2. s.duration = IF Flowed(f.power, seconds) >= Limit(t, f.price)
                     THEN Least(seconds, SecondsFor(Limit(t, f.price), f.power)) ELSE seconds
  <2>1. CASE Flowed(f.power, seconds) >= Limit(t, f.price)
    BY <2>1, Zenon DEF TargetSample, Flowed, Limit
  <2>2. CASE ~(Flowed(f.power, seconds) >= Limit(t, f.price))
    BY <2>2, Zenon DEF TargetSample, Flowed, Limit
  <2>. QED
    BY <2>1, <2>2
<1>3. s.energy = Least(Flowed(f.power, seconds), Limit(t, f.price))
  BY DEF TargetSample, Capped, Flowed, Limit
<1>4. s.amount = Fee(s.energy, f.price)
  BY DEF TargetSample
<1>5. s.ok <=> /\ seconds <= Maximum
               /\ t.type = "AMOUNT" => f.price > 0 /\ s.amount <= t.value
               /\ s.amount # Failed
  BY DEF TargetSample
<1>. QED
  BY <1>1, <1>2, <1>3, <1>4, <1>5

LEMMA LimitIs ==
  ASSUME NEW f \in Tariff, NEW t \in Target
  PROVE  /\ Limit(t, f.price) \in Nat /\ t.value \in Nat \ {0} /\ t.type \in {"AMOUNT", "ENERGY", "DURATION"}
         /\ t.type = "AMOUNT" => LET wh == Limit(t, f.price)
                                 IN  /\ wh \in 0..Maximum /\ Fee(wh, f.price) \in 0..t.value
                                     /\ wh = Maximum \/ Fee(wh, f.price) = t.value \/ Fee(wh + 1, f.price) \notin 0..t.value
<1>1. t.value \in Nat \ {0} /\ t.type \in {"AMOUNT", "ENERGY", "DURATION"} /\ f.price \in Nat
  BY ConstantTypes, MeteringAssumption DEF MeteringAssumption
<1>. QED
  BY <1>1, BudgetIsSpent DEF Limit

\* What a sample with a target is, when everything fits.
LEMMA TargetSampleIs ==
  ASSUME Fits, NEW f \in Tariff, NEW t \in Target, t.type = "AMOUNT" => f.price > 0, NEW seconds \in 0..MaxTime
  PROVE  LET s == TargetSample(f.power, seconds, f.price, t)
         IN  /\ s.ok
             /\ s.duration \in 0..seconds
             /\ s.energy \in 0..Most(f.power)
             /\ s.amount = Fee(s.energy, f.price)
<1>. DEFINE s == TargetSample(f.power, seconds, f.price, t)
<1>1. f.power \in Nat \ {0} /\ f.price \in Nat /\ Maximum \in Nat /\ MaxTime \in Nat /\ seconds \in Nat /\ seconds <= Maximum
  BY ConstantTypes DEF Fits
<1>2. Most(f.power) \in Nat /\ Flowed(f.power, seconds) \in 0..Most(f.power)
  BY FlowFits
<1>3. Limit(t, f.price) \in Nat /\ t.value \in Nat /\ t.type \in {"AMOUNT", "ENERGY", "DURATION"}
  BY LimitIs
<1>4. CASE t.type = "DURATION"
  <2>1. s.duration = Least(seconds, t.value) /\ s.energy = Flowed(f.power, s.duration) /\ s.amount = Fee(s.energy, f.price)
        /\ (s.ok <=> seconds <= Maximum /\ s.amount # Failed)
    BY <1>4, TimedIs
  <2>. HIDE DEF s
  <2>2. s.duration \in 0..seconds /\ s.duration \in 0..MaxTime
    BY <1>1, <1>3, <2>1 DEF Least
  <2>3. s.energy \in 0..Most(f.power) /\ s.energy \in 0..(Most(f.power) + 1)
    BY <1>2, <2>1, <2>2, FlowFits
  <2>4. s.amount \in 0..Maximum
    BY <2>1, <2>3, FlowIsBilled
  <2>. QED
    BY <1>1, <2>1, <2>2, <2>3, <2>4 DEF s, Failed
<1>5. CASE t.type # "DURATION"
  <2>1. /\ s.duration = IF s.reached THEN Least(seconds, SecondsFor(Limit(t, f.price), f.power)) ELSE seconds
        /\ s.energy = Least(Flowed(f.power, seconds), Limit(t, f.price))
        /\ s.amount = Fee(s.energy, f.price)
        /\ (s.ok <=> seconds <= Maximum /\ (t.type = "AMOUNT" => f.price > 0 /\ s.amount <= t.value) /\ s.amount # Failed)
    BY <1>5, MeasuredIs
  <2>. HIDE DEF s
  <2>2. s.duration \in 0..seconds
    <3>1. SecondsFor(Limit(t, f.price), f.power) \in Nat
      BY <1>1, <1>3, SecondsSuffice
    <3>. QED
      BY <1>1, <2>1, <3>1 DEF Least
  <2>3. s.energy \in 0..Most(f.power) /\ s.energy \in 0..(Most(f.power) + 1) /\ s.energy \in 0..Limit(t, f.price)
    BY <1>2, <1>3, <2>1 DEF Least
  <2>4. s.amount \in 0..Maximum /\ s.amount = Cents(s.energy, f.price)
    BY <2>1, <2>3, FlowIsBilled
  <2>5. ASSUME t.type = "AMOUNT"
        PROVE  s.amount <= t.value
    <3>1. Limit(t, f.price) \in 0..Maximum /\ Fee(Limit(t, f.price), f.price) \in 0..t.value
      BY <2>5, LimitIs
    <3>2. Fee(Limit(t, f.price), f.price) = Cents(Limit(t, f.price), f.price)
      BY <1>1, <1>3, <3>1, FeeIs DEF Failed
    <3>3. Cents(s.energy, f.price) <= Cents(Limit(t, f.price), f.price)
      BY <1>1, <1>3, <2>3, CentsMonotone
    <3>. QED
      BY <1>3, <2>4, <3>1, <3>2, <3>3
  <2>. QED
    BY <1>1, <2>1, <2>2, <2>3, <2>4, <2>5 DEF s, Failed
<1>. QED
  BY <1>4, <1>5

\* A later sample is at least as large as an earlier one, also when the target
\* is reached between them.
LEMMA TargetSamplesGrow ==
  ASSUME Fits, NEW f \in Tariff, NEW t \in Target, NEW b \in 0..MaxTime, NEW a \in 0..b
  PROVE  /\ TargetSample(f.power, a, f.price, t).duration <= TargetSample(f.power, b, f.price, t).duration
         /\ TargetSample(f.power, a, f.price, t).energy <= TargetSample(f.power, b, f.price, t).energy
<1>. DEFINE r == TargetSample(f.power, a, f.price, t)
            s == TargetSample(f.power, b, f.price, t)
<1>1. /\ f.power \in Nat \ {0} /\ Maximum \in Nat /\ MaxTime \in Nat /\ MaxTime <= Maximum
      /\ a \in Nat /\ b \in Nat /\ a <= b /\ a \in 0..MaxTime
  BY ConstantTypes DEF Fits
<1>2. Limit(t, f.price) \in Nat /\ t.value \in Nat
  BY LimitIs
<1>3. CASE t.type = "DURATION"
  <2>1. /\ r.duration = Least(a, t.value) /\ r.energy = Flowed(f.power, r.duration)
        /\ s.duration = Least(b, t.value) /\ s.energy = Flowed(f.power, s.duration)
    BY <1>3, TimedIs
  <2>. HIDE DEF r, s
  <2>2. s.duration \in 0..MaxTime /\ r.duration \in 0..s.duration
    BY <1>1, <1>2, <2>1 DEF Least
  <2>3. r.energy <= s.energy
    BY <2>1, <2>2, FlowGrows
  <2>. QED
    BY <2>2, <2>3 DEF r, s
<1>4. CASE t.type # "DURATION"
  <2>. DEFINE limit == Limit(t, f.price)
              enough == SecondsFor(limit, f.power)
  <2>1. /\ r.reached <=> Flowed(f.power, a) >= limit
        /\ r.duration = IF r.reached THEN Least(a, enough) ELSE a
        /\ r.energy = Least(Flowed(f.power, a), limit)
        /\ s.reached <=> Flowed(f.power, b) >= limit
        /\ s.duration = IF s.reached THEN Least(b, enough) ELSE b
        /\ s.energy = Least(Flowed(f.power, b), limit)
    BY <1>4, MeasuredIs
  <2>2. enough \in Nat /\ (Flowed(f.power, a) < limit => a <= enough)
    <3>1. Flowed(f.power, a) = (a * f.power) \div 3600 /\ a \in 0..Maximum
      BY <1>1, FlowFits
    <3>. HIDE DEF limit
    <3>. QED
      BY <1>1, <1>2, <3>1, SecondsSuffice DEF limit
  <2>. HIDE DEF r, s, limit, enough
  <2>3. Flowed(f.power, a) \in Nat /\ Flowed(f.power, b) \in Nat /\ Flowed(f.power, a) <= Flowed(f.power, b) /\ limit \in Nat
    BY <1>1, <1>2, FlowFits, FlowGrows DEF limit
  <2>4. r.energy <= s.energy
    BY <2>1, <2>3 DEF Least
  <2>5. r.duration <= s.duration
    BY <1>1, <2>1, <2>2, <2>3 DEF Least
  <2>. QED
    BY <2>4, <2>5 DEF r, s
<1>. QED
  BY <1>3, <1>4

\* A sample that has reached the target has used it.
LEMMA TargetIsUsed ==
  ASSUME Fits, NEW f \in Tariff, NEW t \in Target, NEW seconds \in 0..MaxTime,
         TargetSample(f.power, seconds, f.price, t).reached
  PROVE  LET s == TargetSample(f.power, seconds, f.price, t)
         IN  /\ t.type = "ENERGY" => s.energy = t.value
             /\ t.type = "DURATION" => s.duration = t.value
             /\ t.type = "AMOUNT" => s.amount = t.value \/ Fee(s.energy + 1, f.price) > t.value
<1>. DEFINE s == TargetSample(f.power, seconds, f.price, t)
<1>1. t.value \in Nat /\ seconds \in Nat /\ Limit(t, f.price) \in Nat
  BY LimitIs
<1>2. CASE t.type = "DURATION"
  BY <1>1, <1>2, TimedIs DEF Least
<1>3. ASSUME t.type # "DURATION"
      PROVE  s.energy = Limit(t, f.price) /\ Limit(t, f.price) \in 0..Most(f.power) /\ s.amount = Fee(s.energy, f.price)
  <2>1. /\ s.energy = Least(Flowed(f.power, seconds), Limit(t, f.price)) /\ s.amount = Fee(s.energy, f.price)
        /\ Flowed(f.power, seconds) >= Limit(t, f.price)
    BY <1>3, MeasuredIs
  <2>. HIDE DEF s
  <2>. QED
    BY <1>1, <2>1, FlowFits DEF Least
<1>4. CASE t.type = "ENERGY"
  BY <1>3, <1>4 DEF Limit
<1>5. CASE t.type = "AMOUNT"
  <2>. DEFINE wh == Limit(t, f.price)
  <2>1. wh = Maximum \/ Fee(wh, f.price) = t.value \/ Fee(wh + 1, f.price) \notin 0..t.value
    BY <1>5, LimitIs
  <2>2. wh # Maximum /\ wh + 1 \in 0..(Most(f.power) + 1)
    BY <1>1, <1>3, <1>5, FlowFits
  <2>3. Fee(wh + 1, f.price) \in 0..Maximum
    BY <2>2, FlowIsBilled
  <2>. HIDE DEF wh, s
  <2>4. s.energy = wh /\ s.amount = Fee(wh, f.price)
    BY <1>3, <1>5 DEF wh
  <2>5. s.amount = t.value \/ Fee(s.energy + 1, f.price) > t.value
    BY <1>1, <2>1, <2>2, <2>3, <2>4, ConstantTypes
  <2>. QED
    BY <1>5, <2>5 DEF s
<1>. QED
  BY <1>2, <1>4, <1>5, LimitIs

-----------------------------------------------------------------------------
(* The meter.                                                              *)

\* A sample within the target.
SampleWithin(s) ==
  /\ target.type = "ENERGY" => s.energy <= target.value
  /\ target.type = "DURATION" => s.duration <= target.value
  /\ target.type = "AMOUNT" => s.amount <= target.value

LEMMA TargetType ==
  ASSUME TypeOK, target # NoTarget
  PROVE  target \in Target /\ target.value \in Nat /\ target.type \in {"AMOUNT", "ENERGY", "DURATION"}
<1>1. target \in Target
  BY DEF TypeOK
<1>2. target \in [type : {"AMOUNT", "ENERGY", "DURATION"}, value : Nat \ {0}]
  BY <1>1, MeteringAssumption DEF MeteringAssumption
<1>. QED
  BY <1>1, <1>2

LEMMA SamplesWithin ==
  ASSUME TypeOK
  PROVE  SampleNow.ok => SampleWithin(SampleNow)
<1>1. target = NoTarget => SampleWithin(SampleNow)
  BY DEF SampleWithin, NoTarget
<1>2. ASSUME target # NoTarget, SampleNow.ok
      PROVE  SampleWithin(SampleNow)
  <2>1. SampleNow = TargetSample(tariff.power, now - startedAt, tariff.price, target)
    BY <1>2 DEF SampleNow, SampleAt
  <2>2. target.value \in Nat /\ target.type \in {"AMOUNT", "ENERGY", "DURATION"}
    BY <1>2, TargetType
  <2>. DEFINE s == TargetSample(tariff.power, now - startedAt, tariff.price, target)
  <2>3. target.type = "ENERGY" => s.energy <= target.value
    BY <2>1, <2>2, <1>2 DEF TargetSample, Capped, Least
  <2>4. target.type = "DURATION" => s.duration <= target.value
    BY <2>1, <2>2, <1>2 DEF TargetSample, Capped, Least
  <2>5. target.type = "AMOUNT" => s.amount <= target.value
    BY <1>2, <2>1 DEF TargetSample
  <2>. QED
    BY <2>1, <2>3, <2>4, <2>5 DEF SampleWithin
<1>. QED
  BY <1>1, <1>2

LEMMA FeeOfNothing ==
  ASSUME NEW price \in Nat
  PROVE  Fee(0, price) = 0
<1>1. Cents(0, price) = 0
  <2>1. 0 * price = 0
    OBVIOUS
  <2>. QED
    BY <2>1 DEF Cents
<1>. QED
  BY <1>1, FeeIs, ConstantTypes

LEMMA TariffType ==
  ASSUME TypeOK
  PROVE  tariff \in Tariff /\ tariff.power \in Nat \ {0} /\ tariff.price \in Nat
<1>1. tariff \in Tariff
  BY DEF TypeOK
<1>. QED
  BY <1>1, ConstantTypes

LEMMA InitIInv == Init => IInv
<1> SUFFICES ASSUME Init PROVE IInv
  OBVIOUS
<1>1. TypeOK
  <2>1. Maximum \in Nat /\ MaxTime \in Nat /\ MaxSlips \in Nat
    BY ConstantTypes
  <2>2. 0 \in 0..MaxTime /\ 0 \in 0..MaxSlips /\ 0 \in 0..Maximum
    BY <2>1
  <2>. QED
    BY <2>2 DEF Init, TypeOK
<1>2. amount = Fee(energy, tariff.price)
  BY <1>1, TariffType, FeeOfNothing DEF Init
<1>3. target.type = "NONE" /\ target.value = 0
  BY DEF Init, NoTarget
<1>4. WithinTarget
  BY <1>3 DEF WithinTarget, Used
<1>5. Started
  <2>1. 0 <= 0
    OBVIOUS
  <2>. QED
    BY <2>1, Zenon DEF Init, Started
<1>6. Priced
  BY <1>3 DEF Priced
<1>7. duration = 0 /\ energy = 0 /\ status = "RESERVED" /\ reason = ""
  BY DEF Init
<1>. QED
  BY <1>1, <1>2, <1>4, <1>5, <1>6, <1>7 DEF IInv

LEMMA StartKeeps ==
  ASSUME IInv, NEW t \in Target \cup {NoTarget}, Start(t)
  PROVE  IInv'
<1>1. TypeOK /\ status = "RESERVED" /\ duration = 0 /\ energy = 0 /\ amount = Fee(0, tariff.price) /\ reason = ""
  BY Zenon DEF IInv, Start
<1>2. t.value \in Nat /\ tariff.price \in Nat /\ amount = 0
  <2>1. tariff.price \in Nat /\ t.value \in Nat
    BY <1>1, TariffType, ConstantTypes, Zenon
  <2>. QED
    BY <1>1, <2>1, FeeOfNothing, Zenon
<1>3. TypeOK'
  BY <1>1 DEF Start, TypeOK
<1>4. WithinTarget'
  <2>1. Used' = 0
    BY <1>1, <1>2 DEF Start, Used
  <2>2. target' = t /\ 0 <= t.value
    BY <1>2 DEF Start
  <2>. QED
    BY <2>1, <2>2, Zenon DEF WithinTarget
<1>5. Metered'
  BY <1>1 DEF Start, Metered
<1>6. (amount = Fee(energy, tariff.price))'
  BY Zenon DEF Start, IInv
<1>7. Started'
  <2>1. now \in 0..MaxTime /\ MaxTime \in Nat
    BY <1>1, ConstantTypes DEF TypeOK
  <2>2. now <= now
    BY <2>1
  <2>. QED
    BY <2>2, Zenon DEF Start, Started
<1>8. Priced'
  <2>1. \A p \in Nat : p = 0 \/ p > 0
    OBVIOUS
  <2>2. tariff.price = 0 \/ tariff.price > 0
    BY <1>2, <2>1, Zenon
  <2>. QED
    BY <2>2, Zenon DEF Start, Priced
<1>9. /\ (status = "RESERVED" => duration = 0 /\ energy = 0)'
      /\ (status # "WAITING_PAYMENT" => reason = "")'
  BY <1>1 DEF Start
<1>. QED
  BY <1>3, <1>4, <1>5, <1>6, <1>7, <1>8, <1>9 DEF IInv

LEMMA SampledKeeps ==
  ASSUME IInv, NEW manual \in BOOLEAN, status = "CHARGING", Sampled(SampleNow, manual)
  PROVE  IInv'
<1>1. TypeOK'
  BY DEF IInv, Sampled, Storable, TypeOK, TargetReason
<1>2. WithinTarget'
  <2>1. SampleWithin(SampleNow)
    BY SamplesWithin DEF IInv, Sampled, Storable
  <2>. QED
    BY <2>1 DEF IInv, Sampled, SampleWithin, WithinTarget, Used, TypeOK
<1>3. (amount = Fee(energy, tariff.price))'
  BY DEF Sampled, Storable
<1>4. Started'
  BY Zenon DEF Sampled, Storable, Started
<1>5. Metered'
  BY DEF Sampled, Metered, SampleNow, SampleAt
<1>6. Priced'
  BY Zenon DEF IInv, Sampled, Priced
<1>7. /\ (status = "RESERVED" => duration = 0 /\ energy = 0)'
      /\ (status # "WAITING_PAYMENT" => reason = "")'
  BY DEF IInv, Sampled
<1>. QED
  BY <1>1, <1>2, <1>3, <1>4, <1>5, <1>6, <1>7 DEF IInv

LEMMA RestKeeps ==
  ASSUME IInv, Tick \/ SetBack \/ UNCHANGED vars
  PROVE  IInv'
<1>1. UNCHANGED <<tariff, target, status, startedAt, capturedAt, duration, energy, amount, reason>>
  BY DEF Tick, SetBack, vars, meterVars
<1>2. now' \in 0..MaxTime /\ slips' \in 0..MaxSlips
  <2>1. now \in 0..MaxTime /\ slips \in 0..MaxSlips /\ MaxTime \in Nat /\ MaxSlips \in Nat
    BY ConstantTypes DEF IInv, TypeOK
  <2>2. now < MaxTime => now + 1 \in 0..MaxTime
    BY <2>1
  <2>3. slips < MaxSlips => slips + 1 \in 0..MaxSlips
    BY <2>1
  <2>4. 0..now \subseteq 0..MaxTime
    BY <2>1
  <2>. QED
    BY <2>1, <2>2, <2>3, <2>4, Zenon DEF Tick, SetBack, vars
<1>3. TypeOK'
  BY <1>1, <1>2 DEF IInv, TypeOK
<1>4. WithinTarget' /\ Started' /\ Priced' /\ (Metered <=> Metered')
  BY <1>1 DEF IInv, WithinTarget, Used, Started, Priced, Metered, SampleAt
<1>. QED
  BY <1>1, <1>3, <1>4 DEF IInv

\* What a step is: a start, a sample, or a change of the clock.
LEMMA Steps ==
  ASSUME [Next]_vars
  PROVE  \/ \E t \in Target \cup {NoTarget} : Start(t)
         \/ status = "CHARGING" /\ \E manual \in BOOLEAN : Sampled(SampleNow, manual)
         \/ Tick \/ SetBack \/ UNCHANGED vars
BY DEF Next, Poll, Pass, Stop

\* The meter's invariant: the stored amount is the fee of the stored energy,
\* neither exceeds the target, and the meter shows the sample it was last read with.
THEOREM MeterInvariant == Spec => []IInv
<1>1. IInv /\ [Next]_vars => IInv'
  BY Steps, StartKeeps, SampledKeeps, RestKeeps
<1>. QED
  BY <1>1, InitIInv, PTL DEF Spec

\* However late and however rarely an order is sampled, it never exceeds its
\* energy, its time or its budget.
THEOREM NeverBeyondTarget == Spec => []WithinTarget
<1>1. IInv => WithinTarget
  BY DEF IInv
<1>. QED
  BY <1>1, MeterInvariant, PTL

\* The samples of an order, when everything fits.
LEMMA SampleIs ==
  ASSUME Fits, IInv, NEW seconds \in 0..MaxTime
  PROVE  /\ SampleAt(seconds).ok
         /\ SampleAt(seconds).duration \in 0..Maximum
         /\ SampleAt(seconds).energy \in 0..Maximum
         /\ SampleAt(seconds).amount \in 0..Maximum
         /\ SampleAt(seconds).amount = Fee(SampleAt(seconds).energy, tariff.price)
<1>. DEFINE s == SampleAt(seconds)
<1>1. tariff \in Tariff /\ MaxTime <= Maximum /\ MaxTime \in Nat /\ Maximum \in Nat
  BY TariffType, ConstantTypes DEF IInv, Fits
<1>2. s.ok /\ s.duration \in 0..seconds /\ s.energy \in 0..Most(tariff.power) /\ s.amount = Fee(s.energy, tariff.price)
  <2>1. CASE target = NoTarget
    <3>1. s = Billed(tariff.power, seconds, tariff.price)
      BY <2>1 DEF SampleAt
    <3>2. Flowed(tariff.power, seconds) \in 0..Most(tariff.power) /\ seconds \in 0..seconds
      BY <1>1, FlowFits
    <3>. HIDE DEF s
    <3>. QED
      BY <1>1, <3>1, <3>2, BilledIs
  <2>2. CASE target # NoTarget
    <3>1. s = TargetSample(tariff.power, seconds, tariff.price, target)
      BY <2>2 DEF SampleAt
    <3>2. target \in Target /\ (target.type = "AMOUNT" => tariff.price > 0)
      BY <2>2, TargetType DEF IInv, Priced
    <3>. HIDE DEF s
    <3>. QED
      BY <1>1, <3>1, <3>2, TargetSampleIs
  <2>. QED
    BY <2>1, <2>2
<1>. HIDE DEF s
<1>3. Most(tariff.power) \in Nat /\ Most(tariff.power) < Maximum
  BY <1>1, FlowFits
<1>4. s.duration \in 0..Maximum /\ s.energy \in 0..Maximum /\ s.energy \in 0..(Most(tariff.power) + 1)
  BY <1>1, <1>2, <1>3
<1>5. s.amount \in 0..Maximum
  BY <1>1, <1>2, <1>4, FlowIsBilled
<1>. QED
  BY <1>2, <1>4, <1>5 DEF s

LEMMA SamplesGrow ==
  ASSUME Fits, IInv, NEW b \in 0..MaxTime, NEW a \in 0..b
  PROVE  SampleAt(a).duration <= SampleAt(b).duration /\ SampleAt(a).energy <= SampleAt(b).energy
<1>1. tariff \in Tariff /\ MaxTime \in Nat /\ a \in 0..MaxTime
  <2>1. tariff \in Tariff
    BY TariffType DEF IInv
  <2>2. MaxTime \in Nat
    BY ConstantTypes
  <2>. QED
    BY <2>1, <2>2
<1>2. CASE target = NoTarget
  <2>1. SampleAt(a) = Billed(tariff.power, a, tariff.price) /\ SampleAt(b) = Billed(tariff.power, b, tariff.price)
    BY <1>2 DEF SampleAt
  <2>2. a <= b /\ Flowed(tariff.power, a) <= Flowed(tariff.power, b)
    BY <1>1, FlowGrows
  <2>. QED
    BY <1>1, <2>1, <2>2, BilledIs
<1>3. CASE target # NoTarget
  <2>1. /\ SampleAt(a) = TargetSample(tariff.power, a, tariff.price, target)
        /\ SampleAt(b) = TargetSample(tariff.power, b, tariff.price, target)
    BY <1>3 DEF SampleAt
  <2>2. target \in Target
    BY <1>3, TargetType DEF IInv
  <2>. QED
    BY <1>1, <2>1, <2>2, TargetSamplesGrow
<1>. QED
  BY <1>2, <1>3

\* While nothing exceeds what can be counted and billed, the next sample can be
\* stored, at whatever moment from the last one on: its fee is the one the
\* repository computes again, and neither meter runs back.
THEOREM NeverBlocked == ASSUME Fits PROVE Spec => []MeterNeverBlocked
<1>1. IInv => MeterNeverBlocked
  <2> SUFFICES ASSUME IInv, status = "CHARGING", capturedAt <= now
               PROVE  Storable(SampleNow)
    BY DEF MeterNeverBlocked
  <2>. DEFINE a == capturedAt - startedAt
              b == now - startedAt
  <2>1. /\ startedAt \in 0..MaxTime /\ capturedAt \in 0..MaxTime /\ now \in 0..MaxTime
        /\ duration \in 0..Maximum /\ energy \in 0..Maximum /\ startedAt <= capturedAt
    BY Zenon DEF IInv, TypeOK, Started
  <2>2. b \in 0..MaxTime /\ a \in 0..b
    <3>1. MaxTime \in Nat
      BY ConstantTypes
    <3>. QED
      BY <2>1, <3>1
  <2>3. SampleNow = SampleAt(b) /\ Metered
    BY DEF SampleNow, IInv
  <2>. HIDE DEF a, b
  <2>4. /\ SampleAt(b).ok
        /\ {SampleAt(b).duration, SampleAt(b).energy, SampleAt(b).amount} \subseteq 0..Maximum
        /\ SampleAt(b).amount = Fee(SampleAt(b).energy, tariff.price)
    BY <2>2, SampleIs
  <2>5. duration <= SampleAt(b).duration /\ energy <= SampleAt(b).energy
    <3>1. CASE duration = 0 /\ energy = 0
      <4>1. 0 <= SampleAt(b).duration /\ 0 <= SampleAt(b).energy
        BY <2>4
      <4>. QED
        BY <3>1, <4>1, Zenon
    <3>2. CASE duration = SampleAt(a).duration /\ energy = SampleAt(a).energy
      BY <2>2, <3>2, SamplesGrow
    <3>. QED
      BY <2>3, <3>1, <3>2 DEF Metered, a
  <2>. QED
    BY <2>1, <2>3, <2>4, <2>5 DEF Storable
<1>. QED
  BY <1>1, MeterInvariant, PTL

\* An order that its target has stopped has used it up.
AllUsed == Used = target.value \/ (target.type = "AMOUNT" /\ Fee(energy + 1, tariff.price) > target.value)

LEMMA SampledUses ==
  ASSUME Fits, IInv, NEW manual \in BOOLEAN, status = "CHARGING", Sampled(SampleNow, manual)
  PROVE  (reason \notin {"", "MANUAL"} => AllUsed)'
<1>. DEFINE s == SampleNow
<1>1. /\ duration' = s.duration /\ energy' = s.energy /\ amount' = s.amount
      /\ UNCHANGED <<tariff, target>> /\ startedAt <= now
  BY DEF Sampled, Storable
<1>2. CASE s.reached
  <2>1. tariff \in Tariff /\ now - startedAt \in 0..MaxTime
    <3>1. MaxTime \in Nat
      BY ConstantTypes
    <3>2. tariff \in Tariff /\ now \in 0..MaxTime /\ startedAt \in 0..MaxTime
      BY DEF IInv, TypeOK
    <3>. QED
      BY <1>1, <3>1, <3>2
  <2>2. target # NoTarget
    BY <1>2 DEF SampleNow, SampleAt, Billed
  <2>3. target \in Target /\ target.type \in {"AMOUNT", "ENERGY", "DURATION"}
    BY <2>2, TargetType DEF IInv
  <2>4. s = TargetSample(tariff.power, now - startedAt, tariff.price, target)
    BY <2>2 DEF SampleNow, SampleAt
  <2>. HIDE DEF s
  <2>5. /\ target.type = "ENERGY" => s.energy = target.value
        /\ target.type = "DURATION" => s.duration = target.value
        /\ target.type = "AMOUNT" => s.amount = target.value \/ Fee(s.energy + 1, tariff.price) > target.value
    BY <1>2, <2>1, <2>3, <2>4, TargetIsUsed
  <2>. QED
    BY <1>1, <2>3, <2>5 DEF AllUsed, Used
<1>3. CASE ~s.reached
  BY <1>3 DEF Sampled, IInv
<1>. QED
  BY <1>2, <1>3

\* While nothing exceeds what can be counted and billed, an order that its
\* target has stopped got all of it, and for a budget all but less than the
\* next Wh would cost: the binary search loses nothing.
THEOREM TargetIsKept == ASSUME Fits PROVE Spec => []TargetKept
<1>. DEFINE Inv == reason \notin {"", "MANUAL"} => AllUsed
<1>1. Init => Inv
  BY DEF Init
<1>2. IInv /\ Inv /\ [Next]_vars => Inv'
  <2> SUFFICES ASSUME IInv, Inv, [Next]_vars PROVE Inv'
    OBVIOUS
  <2>1. CASE \E t \in Target \cup {NoTarget} : Start(t)
    BY <2>1 DEF Start, IInv
  <2>2. CASE status = "CHARGING" /\ \E manual \in BOOLEAN : Sampled(SampleNow, manual)
    BY <2>2, SampledUses
  <2>3. CASE Tick \/ SetBack \/ UNCHANGED vars
    BY <2>3 DEF Tick, SetBack, vars, meterVars, AllUsed, Used
  <2>. QED
    BY <2>1, <2>2, <2>3, Steps
<1>3. IInv /\ Inv => TargetKept
  BY DEF IInv, TargetKept, AllUsed
<1>. QED
  BY <1>1, <1>2, <1>3, MeterInvariant, PTL DEF Spec
=============================================================================
