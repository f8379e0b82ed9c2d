--------------------------- MODULE TimerWheelProofs ---------------------------
(***************************************************************************)
(* Theorems about the timers, for any sizes of the wheels and any number   *)
(* of them, of timers, ticks and crashes: a timer is on one list, the one  *)
(* its lst_offset names, comes down through the wheels in time for its     *)
(* tick, runs as often as asked, and never after del.                      *)
(***************************************************************************)
EXTENDS TimerWheel, SeqFacts

---------------------------------------------------------------------------
(* Division *)

\* A number is its quotient times the divisor, and its remainder.
LEMMA DivMod ==
  ASSUME NEW x \in Nat, NEW r \in Nat \ {0}
  PROVE  /\ x \div r \in Nat /\ x % r \in 0 .. r - 1
         /\ x = r * (x \div r) + (x % r)
OBVIOUS

\* Multiples are ordered as their factors are.
LEMMA MulMono ==
  ASSUME NEW a \in Nat, NEW b \in Nat, NEW r \in Nat, a <= b
  PROVE  r * a <= r * b
OBVIOUS

\* The next multiple is one divisor further.
LEMMA MulNext ==
  ASSUME NEW a \in Nat, NEW b \in Nat, NEW r \in Nat, a < b
  PROVE  r * a + r <= r * b
<1>1. a + 1 <= b /\ a + 1 \in Nat
  OBVIOUS
<1>2. r * (a + 1) <= r * b
  BY <1>1, MulMono
<1>3. r * (a + 1) = r * a + r
  OBVIOUS
<1>4. QED BY <1>2, <1>3

\* A number is determined by its remainder and by less than the divisor that it may lie in.
LEMMA ModSame ==
  ASSUME NEW a \in Nat, NEW b \in Nat, NEW m \in Nat \ {0}, a <= b, b < a + m, a % m = b % m
  PROVE  a = b
<1>1. PICK p \in Nat, q \in Nat, y \in 0 .. m - 1 : a = m * p + y /\ b = m * q + y
  <2>1. a \div m \in Nat /\ a % m \in 0 .. m - 1 /\ a = m * (a \div m) + (a % m)
    BY DivMod
  <2>2. b \div m \in Nat /\ b = m * (b \div m) + (b % m)
    BY DivMod
  <2>3. b = m * (b \div m) + (a % m)
    BY <2>2
  <2>4. QED BY <2>1, <2>2, <2>3, Zenon
<1>2. CASE p < q
  <2>1. m * p + m <= m * q
    BY <1>2, MulNext
  <2>2. QED BY <1>1, <2>1
<1>3. CASE q < p
  <2>1. m * q + m <= m * p
    BY <1>3, MulNext
  <2>2. QED BY <1>1, <2>1
<1>4. CASE p = q
  BY <1>1, <1>4
<1>5. QED BY <1>2, <1>3, <1>4

\* A quotient and its remainder are the only ones.
LEMMA DivUnique ==
  ASSUME NEW q \in Nat, NEW r \in Nat \ {0}, NEW y \in 0 .. r - 1
  PROVE  (r * q + y) \div r = q /\ (r * q + y) % r = y
OBVIOUS

\* The order of factors does not matter.
LEMMA MulSwap ==
  ASSUME NEW m \in Nat, NEW r \in Nat, NEW q \in Nat
  PROVE  (m * r) * q = r * (m * q)
OBVIOUS

\* A multiple of r is a multiple of m times r if its quotient by r is one of m.
LEMMA MultipleOfProduct ==
  ASSUME NEW x \in Nat, NEW r \in Nat \ {0}, NEW m \in Nat \ {0}
  PROVE  x % (m * r) = 0 <=> x % r = 0 /\ (x \div r) % m = 0
<1>1. m * r \in Nat \ {0}
  <2>1. r * 1 <= r * m
    BY MulMono
  <2>2. QED BY <2>1
<1>2. ASSUME x % (m * r) = 0 PROVE x % r = 0 /\ (x \div r) % m = 0
  <2>0. PICK n \in Nat \ {0} : n = m * r
    BY <1>1
  <2>1. PICK q \in Nat : x = n * q
    <3>1. x \div n \in Nat /\ x = n * (x \div n) + (x % n)
      BY DivMod
    <3>2. x % n = 0 /\ n * (x \div n) \in Nat
      BY <1>2, <2>0, <3>1
    <3>3. QED BY <3>1, <3>2
  <2>2. PICK p \in Nat : p = m * q
    OBVIOUS
  <2>3. x = r * p + 0
    <3>1. x = r * p
      BY <2>0, <2>1, <2>2, MulSwap
    <3>2. r * p \in Nat
      OBVIOUS
    <3>3. QED BY <3>1, <3>2
  <2>4. x \div r = p /\ x % r = 0
    <3>1. 0 \in 0 .. r - 1
      OBVIOUS
    <3>2. (r * p + 0) \div r = p /\ (r * p + 0) % r = 0
      BY <3>1, DivUnique
    <3>3. QED BY <2>3, <3>2
  <2>5. p % m = 0
    <3>1. 0 \in 0 .. m - 1
      OBVIOUS
    <3>2. (m * q + 0) % m = 0
      BY <3>1, DivUnique
    <3>3. QED BY <2>2, <3>2
  <2>6. QED BY <2>4, <2>5
<1>3. ASSUME x % r = 0, (x \div r) % m = 0 PROVE x % (m * r) = 0
  <2>1. PICK p \in Nat : p = x \div r /\ x = r * p
    BY <1>3, DivMod
  <2>2. PICK q \in Nat : p = m * q
    <3>1. p \div m \in Nat /\ p = m * (p \div m) + (p % m)
      BY DivMod
    <3>2. p % m = 0
      BY <1>3, <2>1, Zenon
    <3>3. p = m * (p \div m)
      BY ONLY <3>1, <3>2, m \in Nat \ {0}, p \in Nat
    <3>4. QED BY <3>1, <3>3
  <2>3. x = (m * r) * q
    BY <2>1, <2>2, MulSwap
  <2>4. PICK n \in Nat \ {0} : n = m * r
    BY <1>1
  <2>5. 0 \in 0 .. n - 1
    OBVIOUS
  <2>6. (n * q + 0) % n = 0
    BY <2>5, DivUnique
  <2>7. x = n * q + 0
    BY <2>3, <2>4
  <2>8. QED BY <2>4, <2>6, <2>7
<1>4. QED BY <1>2, <1>3

---------------------------------------------------------------------------
(* The wheels *)

\* TVl_MAX is what its recursive definition says, for each wheel.
LEMMA ReachDefined ==
  /\ Reach \in [1 .. Wheels -> Nat \ {0}]
  /\ Reach[1] = TVR
  /\ \A l \in 2 .. Wheels : Reach[l] = TVN * Reach[l - 1]
<1> DEFINE V == Nat \ {0}
           R == {p \in Nat \X V \X V : p[3] = TVN * p[2]}
<1>1. \A n \in V : TVN * n \in V
  <2>1. ASSUME NEW n \in V PROVE TVN * n \in V
    <3>1. PICK m \in Nat : m = TVN /\ 1 <= m
      BY WheelsAssumption
    <3>2. n * 1 <= n * m /\ n * m \in Nat /\ n * m = m * n
      BY <3>1, MulMono
    <3>3. QED BY <3>1, <3>2
  <2>2. QED BY <2>1
<1> HIDE DEF V
<1>2. \A n \in 2 .. Wheels : \A w \in V : \E u \in V : <<n, w, u>> \in R
  <2>1. ASSUME NEW n \in 2 .. Wheels, NEW w \in V PROVE <<n, w, TVN * w>> \in R
    BY <1>1
  <2>2. QED BY <1>1, <2>1
<1>3. TVR \in V /\ Wheels \in Nat \ {0}
  BY WheelsAssumption DEF V
<1> HIDE DEF R
<1>4. PICK g \in [1 .. Wheels -> V] : Chain(g, Wheels, TVR, R)
  BY <1>2, <1>3, Recursion
<1>5. ASSUME NEW n \in 2 .. Wheels PROVE g[n] = TVN * g[n - 1]
  BY <1>4 DEF Chain, R
<1>6. g = [n \in 1 .. Wheels |-> IF n = 1 THEN TVR ELSE TVN * g[n - 1]]
  <2>1. \A n \in 1 .. Wheels : n = 1 \/ n \in 2 .. Wheels
    BY <1>3
  <2>2. g[1] = TVR
    BY <1>4 DEF Chain
  <2>3. QED BY <1>4, <1>5, <2>1, <2>2
<1>7. Reach = [n \in 1 .. Wheels |-> IF n = 1 THEN TVR ELSE TVN * Reach[n - 1]]
  BY <1>6 DEF Reach
<1> DEFINE S == {n \in Nat : Reach[n + 1] \in V}
<1>8. 0 \in S
  BY <1>3, <1>7
<1>9. ASSUME NEW n \in 0 .. (Wheels - 1) - 1, n \in S PROVE n + 1 \in S
  <2>1. (n + 1) + 1 \in 1 .. Wheels /\ ((n + 1) + 1) - 1 = n + 1 /\ (n + 1) + 1 # 1 /\ n + 1 \in Nat
    BY <1>3
  <2>2. Reach[(n + 1) + 1] = TVN * Reach[n + 1]
    BY <1>7, <2>1
  <2>3. QED BY <1>1, <1>9, <2>1, <2>2
<1>10. 0 .. Wheels - 1 \subseteq S
  <2> HIDE DEF S
  <2>1. Wheels - 1 \in Nat
    BY <1>3
  <2>2. QED BY <1>8, <1>9, <2>1, SetInduction
<1>11. ASSUME NEW l \in 1 .. Wheels PROVE Reach[l] \in V
  <2>1. l - 1 \in 0 .. Wheels - 1 /\ (l - 1) + 1 = l
    BY <1>3
  <2>2. QED BY <1>10, <2>1
<1>12. Reach \in [1 .. Wheels -> V]
  BY <1>7, <1>11
<1>13. ASSUME NEW l \in 2 .. Wheels PROVE Reach[l] = TVN * Reach[l - 1]
  <2>1. l \in 1 .. Wheels /\ l # 1
    BY <1>3
  <2>2. QED BY <1>7, <2>1
<1>14. 1 \in 1 .. Wheels
  BY <1>3
<1>15. QED BY <1>7, <1>12, <1>13, <1>14 DEF V

\* TVl_IDX names a list of its wheel.
LEMMA SlotFacts ==
  ASSUME NEW l \in 1 .. Wheels, NEW t \in Nat
  PROVE  /\ SlotAt(l, t) \in Slots
         /\ SlotAt(l, t)[1] = l /\ SlotAt(l, t)[2] \in Nat
<1>1. CASE l = 1
  <2>1. t % TVR \in 0 .. TVR - 1
    BY WheelsAssumption
  <2>2. SlotAt(l, t) = <<1, t % TVR>>
    BY <1>1 DEF SlotAt
  <2>3. QED BY <1>1, <2>1, <2>2, WheelsAssumption DEF Slots
<1>2. CASE l # 1
  <2>1. l \in 2 .. Wheels /\ l - 1 \in 1 .. Wheels
    BY <1>2, WheelsAssumption
  <2>2. Reach[l - 1] \in Nat \ {0}
    BY <2>1, ReachDefined
  <2>3. PICK q \in Nat : q = t \div Reach[l - 1]
    BY <2>2, DivMod
  <2>4. q % TVN \in 0 .. TVN - 1
    BY WheelsAssumption
  <2>5. SlotAt(l, t) = <<l, q % TVN>>
    BY <1>2, <2>3 DEF SlotAt
  <2>6. QED BY <2>1, <2>4, <2>5, WheelsAssumption DEF Slots
<1>3. QED BY <1>1, <1>2

\* When the list is run or spread that wheel l has for a timer that expires at e.
Opens(l, e) == IF l = 1 THEN e ELSE Reach[l - 1] * (e \div Reach[l - 1])

\* A list is run or spread no later than its timers expire.
LEMMA OpensFacts ==
  ASSUME NEW l \in 1 .. Wheels, NEW e \in Nat
  PROVE  /\ Opens(l, e) \in Nat /\ Opens(l, e) <= e
         /\ l # 1 => e < Opens(l, e) + Reach[l - 1]
<1>1. CASE l = 1
  BY <1>1 DEF Opens
<1>2. CASE l # 1
  <2>1. l - 1 \in 1 .. Wheels
    BY <1>2, WheelsAssumption
  <2>2. PICK r \in Nat \ {0} : r = Reach[l - 1]
    BY <2>1, ReachDefined
  <2>3. PICK q \in Nat, y \in 0 .. r - 1 : q = e \div r /\ e = r * q + y
    BY DivMod
  <2>4. PICK p \in Nat : p = r * q
    OBVIOUS
  <2>5. Opens(l, e) = p
    BY <1>2, <2>2, <2>3, <2>4 DEF Opens
  <2>6. p <= e /\ e < p + r
    BY <2>3, <2>4
  <2>7. QED BY <2>2, <2>5, <2>6
<1>3. QED BY <1>1, <1>2

\* A wheel is spread in the ticks that are a multiple of what the wheel below reaches.
LEMMA TurnsAt ==
  ASSUME tick \in Nat, NEW l \in 2 .. Wheels
  PROVE  l \in Turning <=> tick % Reach[l - 1] = 0
<1> DEFINE Zeros(n) == \A k \in 1 .. n : SlotAt(k, tick)[2] = 0
           S == {n \in Nat : n + 1 \in 1 .. Wheels - 1 => (Zeros(n + 1) <=> tick % Reach[n + 1] = 0)}
<1>0. Wheels - 2 \in Nat /\ Wheels \in Nat /\ 1 \in 1 .. Wheels
  BY WheelsAssumption
<1>1. 0 \in S
  <2>1. Zeros(1) <=> SlotAt(1, tick)[2] = 0
    OBVIOUS
  <2>2. SlotAt(1, tick)[2] = tick % TVR
    BY DEF SlotAt
  <2>3. Reach[1] = TVR
    BY ReachDefined
  <2>4. QED BY <2>1, <2>2, <2>3
<1>2. ASSUME NEW n \in 0 .. (Wheels - 2) - 1, n \in S PROVE n + 1 \in S
  <2>1. /\ n \in Nat /\ n + 1 \in Nat /\ n + 1 \in 1 .. Wheels - 1 /\ n + 1 \in 1 .. Wheels
        /\ (n + 1) + 1 \in 2 .. Wheels /\ ((n + 1) + 1) - 1 = n + 1 /\ (n + 1) + 1 # 1
    BY <1>0
  <2>2. Zeros(n + 1) <=> tick % Reach[n + 1] = 0
    BY <1>2, <2>1
  <2>3. PICK r \in Nat \ {0} : r = Reach[n + 1]
    BY <2>1, ReachDefined
  <2>4. Reach[(n + 1) + 1] = TVN * r
    BY <2>1, <2>3, ReachDefined
  <2>5. SlotAt((n + 1) + 1, tick)[2] = (tick \div r) % TVN
    BY <2>1, <2>3 DEF SlotAt
  <2>6. PICK m \in Nat \ {0} : m = TVN
    BY WheelsAssumption
  <2>7. tick % (m * r) = 0 <=> tick % r = 0 /\ (tick \div r) % m = 0
    BY MultipleOfProduct
  <2>8. Zeros((n + 1) + 1) <=> Zeros(n + 1) /\ SlotAt((n + 1) + 1, tick)[2] = 0
    <3>1. \A k \in 1 .. (n + 1) + 1 : k \in 1 .. n + 1 \/ k = (n + 1) + 1
      BY <2>1
    <3>2. (n + 1) + 1 \in 1 .. (n + 1) + 1 /\ \A k \in 1 .. n + 1 : k \in 1 .. (n + 1) + 1
      BY <2>1
    <3>3. QED BY <3>1, <3>2
  <2> HIDE DEF Zeros
  <2>9. Zeros((n + 1) + 1) <=> tick % Reach[(n + 1) + 1] = 0
    BY <2>2, <2>3, <2>4, <2>5, <2>6, <2>7, <2>8
  <2>10. QED BY <2>1, <2>9
<1>3. 0 .. Wheels - 2 \subseteq S
  <2> HIDE DEF S
  <2>1. QED BY <1>0, <1>1, <1>2, SetInduction
<1>4. l - 2 \in 0 .. Wheels - 2 /\ (l - 2) + 1 = l - 1 /\ l - 1 \in 1 .. Wheels - 1
  BY <1>0
<1>5. Zeros(l - 1) <=> tick % Reach[l - 1] = 0
  <2> HIDE DEF Zeros
  <2>1. QED BY <1>3, <1>4
<1>6. QED BY <1>5 DEF Turning

\* A set of wheels that is not empty has a first one.
LEMMA MinOf ==
  ASSUME NEW S \in SUBSET Nat, S # {}
  PROVE  Min(S) \in S /\ \A x \in S : Min(S) <= x
<1>1. \E m \in S : \A n \in S : m <= n
  BY LeastNatural
<1>2. QED BY <1>1 DEF Min

\* The wheel that takes a timer is the first that reaches its moment.
LEMMA Found ==
  ASSUME NEW e \in Nat, tick \in Nat, tick <= e, e < tick + Reach[Wheels]
  PROVE  \E l \in 1 .. Wheels :
           /\ find_handle_list(e) = SlotAt(l, e)
           /\ e < tick + Reach[l]
           /\ l # 1 => tick + Reach[l - 1] <= e
           /\ \A w \in 1 .. Wheels : e < tick + Reach[w] => l <= w
<1> DEFINE S == {l \in 1 .. Wheels : e - tick < Reach[l]}
           l == Min(S)
<1>1. Wheels \in 1 .. Wheels /\ \A w \in 1 .. Wheels : Reach[w] \in Nat \ {0} /\ w \in Nat
  BY WheelsAssumption, ReachDefined
<1>2. Wheels \in S /\ S \in SUBSET Nat
  BY <1>1
<1>3. l \in S /\ \A x \in S : l <= x
  <2> HIDE DEF S
  <2>1. QED BY <1>2, MinOf
<1>4. e - tick \in 0 .. Reach[Wheels] - 1
  BY <1>1
<1>5. find_handle_list(e) = SlotAt(l, e)
  BY <1>4 DEF find_handle_list
<1> HIDE DEF l
<1>6. l # 1 => l - 1 \in 1 .. Wheels /\ ~(l <= l - 1)
  BY <1>1, <1>3
<1>7. l # 1 => l - 1 \notin S
  <2> HIDE DEF S
  <2>1. QED BY <1>3, <1>6
<1>8. l # 1 => tick + Reach[l - 1] <= e
  BY <1>1, <1>6, <1>7
<1>9. QED BY <1>1, <1>3, <1>5, <1>8

\* Every wheel reaches further than the one below.
LEMMA ReachGrows ==
  ASSUME NEW l \in 1 .. Wheels
  PROVE  Reach[l] <= Reach[Wheels]
<1> DEFINE S == {n \in Nat : n \in 0 .. Wheels - 1 => Reach[Wheels - n] <= Reach[Wheels]}
<1>0. Wheels \in Nat /\ Wheels - 1 \in Nat /\ \A w \in 1 .. Wheels : Reach[w] \in Nat \ {0}
  BY WheelsAssumption, ReachDefined
<1>1. 0 \in S
  BY <1>0
<1>2. ASSUME NEW n \in 0 .. (Wheels - 1) - 1, n \in S PROVE n + 1 \in S
  <2>1. /\ n \in Nat /\ n \in 0 .. Wheels - 1 /\ Wheels - n \in 2 .. Wheels /\ Wheels - (n + 1) = (Wheels - n) - 1
        /\ Wheels - (n + 1) \in 1 .. Wheels /\ n + 1 \in Nat
    BY <1>0
  <2>2. PICK a \in Nat : a = Reach[Wheels - (n + 1)]
    BY <1>0, <2>1
  <2>3. PICK m \in Nat : m = TVN /\ 1 <= m
    BY WheelsAssumption
  <2>4. Reach[Wheels - n] = m * a
    BY <2>1, <2>2, <2>3, ReachDefined
  <2>5. a * 1 <= a * m /\ a * m = m * a
    BY <2>3, MulMono
  <2>6. Reach[Wheels - n] <= Reach[Wheels]
    BY <1>2, <2>1
  <2>7. PICK b \in Nat : b = Reach[Wheels]
    BY <1>0
  <2>8. a <= b
    BY <2>4, <2>5, <2>6, <2>7
  <2>9. QED BY <2>1, <2>2, <2>7, <2>8
<1>3. 0 .. Wheels - 1 \subseteq S
  <2> HIDE DEF S
  <2>1. QED BY <1>0, <1>1, <1>2, SetInduction
<1>4. Wheels - l \in 0 .. Wheels - 1 /\ Wheels - (Wheels - l) = l
  BY <1>0
<1>5. QED BY <1>3, <1>4

---------------------------------------------------------------------------
(* Where a timer is *)

\* A timer that expires at e is well placed on the list s at tick tk: the list is the one of its
\* wheel for e, in reach, and is not yet run or spread; the wheels up to n have been spread in
\* this tick already.
Placed(s, e, tk, n) ==
  \E l \in 1 .. Wheels :
    /\ s = SlotAt(l, e)
    /\ e < tk + Reach[l]
    /\ tk <= Opens(l, e)
    /\ l \in 2 .. n => tk < Opens(l, e)

\* find_handle_list places a timer well.
LEMMA FoundPlaced ==
  ASSUME NEW e \in Nat, tick \in Nat, tick <= e, e < tick + Reach[Wheels], NEW n
  PROVE  find_handle_list(e) \in Slots /\ Placed(find_handle_list(e), e, tick, n)
<1>1. PICK l \in 1 .. Wheels :
           /\ find_handle_list(e) = SlotAt(l, e)
           /\ e < tick + Reach[l]
           /\ l # 1 => tick + Reach[l - 1] <= e
  BY Found
<1>2. /\ Opens(l, e) \in Nat /\ Opens(l, e) <= e
      /\ l # 1 => e < Opens(l, e) + Reach[l - 1]
  BY OpensFacts
<1>3. CASE l = 1
  <2>1. Opens(l, e) = e /\ l \notin 2 .. n
    BY <1>3 DEF Opens
  <2>2. QED BY <1>1, <2>1, SlotFacts DEF Placed
<1>4. CASE l # 1
  <2>1. l - 1 \in 1 .. Wheels
    BY <1>4, WheelsAssumption
  <2>2. Reach[l - 1] \in Nat
    BY <2>1, ReachDefined
  <2>3. tick < Opens(l, e)
    BY <1>1, <1>2, <1>4, <2>2
  <2>4. QED BY <1>1, <1>2, <2>3, SlotFacts DEF Placed
<1>5. QED BY <1>3, <1>4

\* A timer that is well placed is not late, and within the reach of the last wheel.
LEMMA PlacedInTime ==
  ASSUME NEW e \in Nat, NEW tk \in Nat, NEW s, NEW n, Placed(s, e, tk, n)
  PROVE  tk <= e /\ e < tk + Reach[Wheels]
<1>1. PICK l \in 1 .. Wheels : e < tk + Reach[l] /\ tk <= Opens(l, e)
  BY DEF Placed
<1>2. Opens(l, e) \in Nat /\ Opens(l, e) <= e
  BY OpensFacts
<1>3. Reach[l] <= Reach[Wheels] /\ Reach[l] \in Nat /\ Reach[Wheels] \in Nat
  BY ReachGrows, ReachDefined, WheelsAssumption
<1>4. QED BY <1>1, <1>2, <1>3

\* What is on the list that is run now expires now.
LEMMA RunNow ==
  ASSUME NEW e \in Nat, NEW tk \in Nat, NEW n, Placed(SlotAt(1, tk), e, tk, n)
  PROVE  e = tk
<1>1. PICK l \in 1 .. Wheels : SlotAt(1, tk) = SlotAt(l, e) /\ e < tk + Reach[l] /\ tk <= Opens(l, e)
  BY DEF Placed
<1>2. 1 \in 1 .. Wheels
  BY WheelsAssumption
<1>3. l = 1
  BY <1>1, <1>2, SlotFacts
<1>4. PICK m \in Nat \ {0} : m = TVR
  BY WheelsAssumption
<1>5. e < tk + m /\ tk <= e
  BY <1>1, <1>3, <1>4, ReachDefined DEF Opens
<1>6. tk % m = e % m
  BY <1>1, <1>3, <1>4 DEF SlotAt
<1>7. QED BY <1>5, <1>6, ModSame

\* When its tick is over, what was not on the list that was run is well placed for the next one.
LEMMA TickPassed ==
  ASSUME NEW e \in Nat, NEW tk \in Nat, NEW s, Placed(s, e, tk, Wheels), s # SlotAt(1, tk)
  PROVE  Placed(s, e, tk + 1, 1)
<1>1. PICK l \in 1 .. Wheels :
        /\ s = SlotAt(l, e) /\ e < tk + Reach[l] /\ tk <= Opens(l, e)
        /\ l \in 2 .. Wheels => tk < Opens(l, e)
  BY DEF Placed
<1>2. Opens(l, e) \in Nat /\ Reach[l] \in Nat
  BY OpensFacts, ReachDefined
<1>3. tk < Opens(l, e)
  <2>1. CASE l = 1
    <3>1. e # tk /\ Opens(l, e) = e
      BY <1>1, <2>1 DEF Opens
    <3>2. QED BY <1>1, <3>1
  <2>2. CASE l # 1
    <3>1. l \in 2 .. Wheels
      BY <2>2, WheelsAssumption
    <3>2. QED BY <1>1, <3>1
  <2>3. QED BY <2>1, <2>2
<1>4. e < (tk + 1) + Reach[l] /\ tk + 1 <= Opens(l, e) /\ l \notin 2 .. 1
  BY <1>1, <1>2, <1>3
<1>5. QED BY <1>1, <1>4 DEF Placed

\* What is on the list of wheel l that is spread now expires before the wheel below ends.
LEMMA SpreadNow ==
  ASSUME tick \in Nat, NEW l \in 2 .. Wheels, l \in Turning, NEW e \in Nat, NEW n,
         Placed(SlotAt(l, tick), e, tick, n)
  PROVE  tick <= e /\ e < tick + Reach[l - 1]
<1>0. l \in 1 .. Wheels /\ l # 1 /\ l - 1 \in 1 .. Wheels
  BY WheelsAssumption
<1>1. PICK k \in 1 .. Wheels : SlotAt(l, tick) = SlotAt(k, e) /\ e < tick + Reach[k] /\ tick <= Opens(k, e)
  BY DEF Placed
<1>2. k = l
  BY <1>0, <1>1, SlotFacts
<1>3. PICK r \in Nat \ {0} : r = Reach[l - 1]
  BY <1>0, ReachDefined
<1>4. PICK m \in Nat \ {0} : m = TVN
  BY WheelsAssumption
<1>5. Reach[l] = m * r
  BY <1>3, <1>4, ReachDefined
<1>6. PICK p \in Nat : p = tick \div r /\ tick = r * p
  <2>1. tick % r = 0
    BY <1>3, TurnsAt
  <2>2. tick \div r \in Nat /\ tick = r * (tick \div r) + (tick % r)
    BY DivMod
  <2>3. r * (tick \div r) \in Nat
    BY <2>2
  <2>4. QED BY <2>1, <2>2, <2>3
<1>7. PICK q \in Nat, y \in 0 .. r - 1 : q = e \div r /\ e = r * q + y
  BY DivMod
<1>8. Opens(l, e) = r * q
  BY <1>0, <1>3, <1>7 DEF Opens
<1>9. p % m = q % m
  <2>1. SlotAt(l, tick) = <<l, p % m>> /\ SlotAt(l, e) = <<l, q % m>>
    BY <1>0, <1>3, <1>4, <1>6, <1>7 DEF SlotAt
  <2>2. QED BY <1>1, <1>2, <2>1
<1>10. r * p <= r * q /\ r * q < r * p + m * r
  <2>1. r * p <= r * q
    BY <1>1, <1>2, <1>6, <1>8
  <2>2. e < r * p + m * r
    BY <1>1, <1>2, <1>5, <1>6
  <2>3. r * q <= e /\ r * q \in Nat /\ r * p \in Nat /\ m * r \in Nat
    BY <1>7
  <2>4. QED BY <2>1, <2>2, <2>3
<1>11. p <= q
  <2>1. CASE q < p
    <3>1. r * q + r <= r * p
      BY <2>1, MulNext
    <3>2. r * q \in Nat /\ r * p \in Nat
      OBVIOUS
    <3>3. QED BY <1>10, <3>1, <3>2
  <2>2. QED BY <2>1
<1>12. q < p + m
  <2>1. CASE p + m <= q
    <3>1. r * (p + m) <= r * q
      BY <2>1, MulMono
    <3>2. r * (p + m) = r * p + m * r
      OBVIOUS
    <3>3. r * q \in Nat /\ r * p \in Nat /\ m * r \in Nat
      OBVIOUS
    <3>4. QED BY <1>10, <3>1, <3>2, <3>3
  <2>2. QED BY <2>1
<1>13. p = q
  BY <1>9, <1>11, <1>12, ModSame
<1>14. e = tick + y
  BY <1>6, <1>7, <1>13
<1>15. QED BY <1>3, <1>14

\* When wheel l has been spread, or does not turn, what is elsewhere is well placed still.
LEMMA NotSpread ==
  ASSUME tick \in Nat, NEW l \in 2 .. Wheels, NEW e \in Nat, NEW s,
         Placed(s, e, tick, l - 1), l \in Turning => s # SlotAt(l, tick)
  PROVE  Placed(s, e, tick, l)
<1>1. PICK k \in 1 .. Wheels :
        /\ s = SlotAt(k, e) /\ e < tick + Reach[k] /\ tick <= Opens(k, e)
        /\ k \in 2 .. l - 1 => tick < Opens(k, e)
  BY DEF Placed
<1>2. ASSUME k = l, tick = Opens(l, e) PROVE FALSE
  <2>0. l \in 1 .. Wheels /\ l # 1 /\ l - 1 \in 1 .. Wheels
    BY WheelsAssumption
  <2>1. PICK r \in Nat \ {0} : r = Reach[l - 1]
    BY <2>0, ReachDefined
  <2>2. PICK q \in Nat : q = e \div r
    BY DivMod
  <2>3. tick = r * q + 0
    <3>1. tick = r * q /\ r * q \in Nat
      BY <1>2, <2>0, <2>1, <2>2 DEF Opens
    <3>2. QED BY <3>1
  <2>4. 0 \in 0 .. r - 1
    OBVIOUS
  <2>5. tick % r = 0 /\ tick \div r = q
    BY <2>3, <2>4, DivUnique
  <2>6. l \in Turning
    BY <2>1, <2>5, TurnsAt
  <2>7. SlotAt(l, tick) = SlotAt(l, e)
    BY <2>0, <2>1, <2>2, <2>5 DEF SlotAt
  <2>8. QED BY <1>1, <1>2, <2>6, <2>7
<1>3. k \in 2 .. l => k \in 2 .. l - 1 \/ k = l
  BY WheelsAssumption
<1>4. Opens(k, e) \in Nat
  BY OpensFacts
<1>5. k \in 2 .. l => tick < Opens(k, e)
  BY <1>1, <1>2, <1>3, <1>4
<1>6. QED BY <1>1, <1>5 DEF Placed

---------------------------------------------------------------------------
(* The lists *)

\* Each timer of lv is on the list that wh has for it, once, and nothing else is on any list.
Linked(ls, wh, lv) ==
  \A s \in Slots : IsInjective(ls[s]) /\ ToSet(ls[s]) = {t \in lv : wh[t] = s}

\* The empty list.
LEMMA NoElements == <<>> \in Seq(Timers) /\ ToSet(<<>>) = {} /\ IsInjective(<<>>)
<1>1. <<>> \in Seq(Timers) /\ \A i \in 1 .. Len(<<>>) : FALSE
  OBVIOUS
<1>2. QED BY <1>1 DEF ToSet, IsInjective

\* x is put at either end of list s.
Adds(ls, wh, x, s, ls2, wh2) ==
  /\ \E q \in {Append(ls[s], x), <<x>> \o ls[s]} : ls2 = [ls EXCEPT ![s] = q]
  /\ wh2 = [wh EXCEPT ![x] = s]

\* A timer that is on no list is put on one.
LEMMA AddedLinked ==
  ASSUME NEW ls \in [Slots -> Seq(Timers)], NEW wh \in [Timers -> Slots], NEW lv \in SUBSET Timers,
         Linked(ls, wh, lv), NEW x \in Timers, x \notin lv, NEW s \in Slots,
         NEW ls2, NEW wh2, Adds(ls, wh, x, s, ls2, wh2)
  PROVE  /\ ls2 \in [Slots -> Seq(Timers)] /\ wh2 \in [Timers -> Slots]
         /\ Linked(ls2, wh2, lv \cup {x})
<1>0. PICK q \in {Append(ls[s], x), <<x>> \o ls[s]} : ls2 = [ls EXCEPT ![s] = q] /\ wh2 = [wh EXCEPT ![x] = s]
  BY DEF Adds
<1>1. PICK o \in Seq(Timers) : o = ls[s]
  OBVIOUS
<1>2. IsInjective(o) /\ ToSet(o) = {t \in lv : wh[t] = s}
  BY <1>1 DEF Linked
<1>3. q \in Seq(Timers) /\ ToSet(q) = ToSet(o) \cup {x} /\ IsInjective(q)
  <2>1. q = Append(o, x) \/ q = <<x>> \o o
    BY <1>1
  <2>2. x \notin ToSet(o)
    BY <1>2
  <2>3. /\ Append(o, x) \in Seq(Timers) /\ <<x>> \o o \in Seq(Timers)
        /\ ToSet(Append(o, x)) = ToSet(o) \cup {x} /\ ToSet(<<x>> \o o) = ToSet(o) \cup {x}
        /\ IsInjective(o) /\ x \notin ToSet(o)
              => IsInjective(Append(o, x)) /\ IsInjective(<<x>> \o o)
    BY AddedElements, Zenon
  <2>4. QED BY <1>2, <2>1, <2>2, <2>3, Zenon
<1>4. ls2 \in [Slots -> Seq(Timers)] /\ wh2 \in [Timers -> Slots]
  BY <1>0, <1>3
<1>5. ASSUME NEW z \in Slots PROVE IsInjective(ls2[z]) /\ ToSet(ls2[z]) = {t \in lv \cup {x} : wh2[t] = z}
  <2>1. CASE z = s
    <3>1. ls2[z] = q
      BY <1>0, <2>1
    <3>2. {t \in lv \cup {x} : wh2[t] = z} = {t \in lv : wh[t] = s} \cup {x}
      BY <1>0, <2>1
    <3>3. QED BY <1>2, <1>3, <3>1, <3>2
  <2>2. CASE z # s
    <3>1. ls2[z] = ls[z]
      BY <1>0, <2>2
    <3>2. {t \in lv \cup {x} : wh2[t] = z} = {t \in lv : wh[t] = z}
      BY <1>0, <2>2
    <3>3. QED BY <3>1, <3>2 DEF Linked
  <2>3. QED BY <2>1, <2>2
<1>6. QED BY <1>4, <1>5 DEF Linked

\* del_node takes one element away.
LEMMA WithoutElements ==
  ASSUME NEW q \in Seq(Timers), NEW x \in Timers
  PROVE  /\ Without(q, x) \in Seq(Timers) /\ ToSet(Without(q, x)) = ToSet(q) \ {x}
         /\ IsInjective(q) => IsInjective(Without(q, x))
<1>1. ToSet(q) \subseteq Timers
  BY Elements
<1>2. QED BY <1>1, KeepElements DEF Without

\* x is taken off its list.
Unlinks(ls, wh, x, ls2) == ls2 = [ls EXCEPT ![wh[x]] = Without(@, x)]

LEMMA UnlinkedLinked ==
  ASSUME NEW ls \in [Slots -> Seq(Timers)], NEW wh \in [Timers -> Slots], NEW lv \in SUBSET Timers,
         Linked(ls, wh, lv), NEW x \in lv, NEW ls2, Unlinks(ls, wh, x, ls2)
  PROVE  ls2 \in [Slots -> Seq(Timers)] /\ Linked(ls2, wh, lv \ {x})
<1>0. PICK s \in Slots : s = wh[x] /\ x \in Timers
  OBVIOUS
<1>1. PICK o \in Seq(Timers) : o = ls[s]
  BY <1>0
<1>2. IsInjective(o) /\ ToSet(o) = {t \in lv : wh[t] = s}
  BY <1>0, <1>1 DEF Linked
<1>3. PICK q \in Seq(Timers) : q = Without(o, x) /\ ToSet(q) = ToSet(o) \ {x} /\ IsInjective(q)
  BY <1>0, <1>2, WithoutElements
<1>4. ls2 = [ls EXCEPT ![s] = q]
  BY <1>0, <1>1, <1>3 DEF Unlinks
<1>5. ls2 \in [Slots -> Seq(Timers)]
  BY <1>3, <1>4
<1>6. ASSUME NEW z \in Slots PROVE IsInjective(ls2[z]) /\ ToSet(ls2[z]) = {t \in lv \ {x} : wh[t] = z}
  <2>1. CASE z = s
    <3>1. ls2[z] = q
      BY <1>4, <2>1
    <3>2. {t \in lv \ {x} : wh[t] = z} = {t \in lv : wh[t] = s} \ {x}
      BY <2>1
    <3>3. QED BY <1>2, <1>3, <3>1, <3>2
  <2>2. CASE z # s
    <3>1. ls2[z] = ls[z]
      BY <1>4, <2>2
    <3>2. {t \in lv \ {x} : wh[t] = z} = {t \in lv : wh[t] = z}
      BY <1>0, <2>2
    <3>3. QED BY <3>1, <3>2 DEF Linked
  <2>3. QED BY <2>1, <2>2
<1>7. QED BY <1>5, <1>6 DEF Linked

\* The list src of ls is spread, each of its timers going to the list that f has for it: that
\* gives the lists ls2, and wh2 for where the timers are.
Spreads(ls, wh, f, src, ls2, wh2) ==
  /\ ls2 = [s \in Slots |-> IF s = src THEN <<>>
                             ELSE ls[s] \o Keep(ls[src], {t \in Timers : f[t] = s})]
  /\ \A t \in Timers : wh2[t] = IF t \in ToSet(ls[src]) THEN f[t] ELSE wh[t]

\* A list is spread: each timer is on one list afterwards.
LEMMA SpreadLinked ==
  ASSUME NEW ls \in [Slots -> Seq(Timers)], NEW wh \in [Timers -> Slots], NEW lv \in SUBSET Timers,
         Linked(ls, wh, lv), NEW f \in [Timers -> Slots], NEW src \in Slots,
         \A t \in lv : wh[t] = src => f[t] # src,
         NEW ls2, NEW wh2 \in [Timers -> Slots], Spreads(ls, wh, f, src, ls2, wh2)
  PROVE  Linked(ls2, wh2, lv)
<1>1. ASSUME NEW s \in Slots PROVE IsInjective(ls2[s]) /\ ToSet(ls2[s]) = {t \in lv : wh2[t] = s}
  <2>1. ToSet(ls[src]) = {t \in lv : wh[t] = src}
    BY DEF Linked
  <2>2. CASE s = src
    <3>1. ls2[s] = <<>>
      BY <2>2 DEF Spreads
    <3>2. {t \in lv : wh2[t] = s} = {}
      BY <2>1, <2>2 DEF Spreads
    <3>3. QED BY <3>1, <3>2, NoElements
  <2>3. CASE s # src
    <3>1. PICK p \in Seq(Timers) : p = ls[s]
      OBVIOUS
    <3>2. PICK o \in Seq(Timers) : o = ls[src]
      OBVIOUS
    <3> DEFINE To == {t \in Timers : f[t] = s}
    <3>3. IsInjective(p) /\ ToSet(p) = {t \in lv : wh[t] = s} /\ IsInjective(o) /\ ToSet(o) = {t \in lv : wh[t] = src}
      BY <3>1, <3>2 DEF Linked
    <3> HIDE DEF To
    <3>4. PICK q \in Seq(Timers) : q = Keep(o, To) /\ ToSet(q) = ToSet(o) \cap To /\ IsInjective(q)
      BY <3>3, KeepElements
    <3>5. ToSet(p) \cap ToSet(q) = {}
      BY <2>3, <3>3, <3>4 DEF To
    <3>6. ls2[s] = p \o q
      BY <2>3, <3>1, <3>2, <3>4 DEF Spreads, To
    <3>7. IsInjective(p \o q) /\ ToSet(p \o q) = ToSet(p) \cup ToSet(q)
      <4>1. /\ ToSet(p \o q) = ToSet(p) \cup ToSet(q)
            /\ IsInjective(p) /\ IsInjective(q) /\ ToSet(p) \cap ToSet(q) = {} => IsInjective(p \o q)
        BY ONLY p \in Seq(Timers), q \in Seq(Timers), ConcatElements
      <4>2. IsInjective(p) /\ IsInjective(q) /\ ToSet(p) \cap ToSet(q) = {}
        BY <3>3, <3>4, <3>5, Zenon
      <4>3. QED BY <4>1, <4>2, Zenon
    <3>8. ToSet(p) \cup ToSet(q) = {t \in lv : wh2[t] = s}
      <4>1. ASSUME NEW t \in Timers PROVE t \in ToSet(p) \cup ToSet(q) <=> t \in lv /\ wh2[t] = s
        BY <2>1, <2>3, <3>2, <3>3, <3>4, <4>1 DEF Spreads, To
      <4>2. ToSet(p) \cup ToSet(q) \subseteq Timers
        BY <3>3, <3>4
      <4>3. QED BY <4>1, <4>2
    <3>9. QED BY <3>6, <3>7, <3>8
  <2>4. QED BY <2>2, <2>3
<1>2. QED BY <1>1 DEF Linked

---------------------------------------------------------------------------
(* The cascade *)

Cells == [lists : [Slots -> Seq(Timers)], where : [Timers -> Slots]]

\* A timer with the fields r that is on list s at tick tk is well placed, or it has been set into
\* the past, by an interval that the narrowing made negative, and is on the last wheel.
Sits(s, r, tk, n) ==
  \/ r.expires \in Nat /\ Placed(s, r.expires, tk, n)
  \/ r.interval < 0 /\ r.expires < tk /\ s[1] = Wheels

\* The timers in w are on their lists, where they should be, the wheels up to n having been spread.
Settled(w, n) ==
  /\ Linked(w.lists, w.where, live)
  /\ \A t \in live : Sits(w.where[t], timer[t], tick, n)

TimerSet == [expires : Int, interval : Signed \cup {0}, repeats : Signed \cup {0},
             is_forever : BOOLEAN, is_running : BOOLEAN]

\* What 32 bits make of a word, and of a count.
LEMMA WordFacts ==
  /\ Reach[Wheels] \in Nat \ {0} /\ Half \in Nat /\ Half < Reach[Wheels]
  /\ \A x \in 0 .. Reach[Wheels] - 1 : Narrowed(x) \in Signed /\ (x < Half => Narrowed(x) = x)
  /\ \A x \in Signed \cup {0} :
       /\ x \in Int /\ x < Reach[Wheels] /\ Lessened(x) \in Signed \cup {0}
       /\ x > 0 => Lessened(x) = x - 1
<1>1. PICK r \in Nat \ {0} : r = Reach[Wheels]
  <2>1. Wheels \in 1 .. Wheels
    BY WheelsAssumption
  <2>2. QED BY <2>1, ReachDefined
<1>2. PICK h \in Nat : h = r \div 2 /\ h < r
  OBVIOUS
<1>3. Half = h /\ Signed = h - r .. h - 1
  BY <1>1, <1>2 DEF Half, Signed
<1>4. ASSUME NEW x \in 0 .. r - 1 PROVE Narrowed(x) \in h - r .. h - 1 /\ (x < h => Narrowed(x) = x)
  BY <1>1, <1>2, <1>3 DEF Narrowed
<1>5. ASSUME NEW x \in (h - r .. h - 1) \cup {0}
      PROVE  /\ x \in Int /\ x < r /\ Lessened(x) \in (h - r .. h - 1) \cup {0}
             /\ x > 0 => Lessened(x) = x - 1
  BY <1>1, <1>2, <1>3 DEF Lessened
<1>6. QED BY <1>1, <1>2, <1>3, <1>4, <1>5

\* The types of what the actions read.
LEMMA FieldTypes ==
  ASSUME TypeOK
  PROVE  /\ tick \in Nat /\ lists \in [Slots -> Seq(Timers)] /\ where \in [Timers -> Slots]
         /\ live \subseteq Timers /\ \A t \in live : t \in Nat /\ t # None
         /\ timer \in [Timers -> TimerSet]
         /\ \A t \in Timers :
              /\ timer[t].expires \in Int /\ timer[t].interval \in Int
              /\ timer[t].interval < Reach[Wheels]
              /\ timer[t].repeats \in Int /\ timer[t].is_forever \in BOOLEAN /\ timer[t].is_running \in BOOLEAN
<1>1. timer \in [Timers -> TimerSet]
  BY DEF TypeOK, TimerSet
<1>2. \A x \in Signed \cup {0} : x \in Int /\ x < Reach[Wheels]
  BY WordFacts
<1>3. ASSUME NEW t \in Timers
      PROVE  /\ timer[t].expires \in Int /\ timer[t].interval \in Int
             /\ timer[t].interval < Reach[Wheels]
             /\ timer[t].repeats \in Int /\ timer[t].is_forever \in BOOLEAN /\ timer[t].is_running \in BOOLEAN
  <2>1. timer[t] \in TimerSet
    BY <1>1
  <2>2. timer[t].interval \in Signed \cup {0} /\ timer[t].repeats \in Signed \cup {0}
    BY <2>1 DEF TimerSet
  <2>3. QED BY <1>2, <2>1, <2>2 DEF TimerSet
<1>4. live \subseteq Timers /\ \A t \in live : t \in Nat /\ t # None
  BY WheelsAssumption DEF TypeOK, Timers, None
<1>5. QED BY <1>1, <1>3, <1>4 DEF TypeOK

\* A timer set into the past goes to the list that the last wheel will spread last.
LEMMA FoundBehind ==
  ASSUME tick \in Nat, NEW e \in Int, e < tick
  PROVE  /\ find_handle_list(e) \in Slots /\ find_handle_list(e)[1] = Wheels
         /\ \A l \in Turning : find_handle_list(e) # SlotAt(l, tick)
<1>0. Wheels \in 1 .. Wheels /\ Wheels \in 2 .. Wheels /\ Wheels - 1 \in 1 .. Wheels /\ Wheels # 1
  BY WheelsAssumption
<1>1. PICK r \in Nat \ {0}, m \in Nat \ {0, 1} : r = Reach[Wheels - 1] /\ m = TVN
  BY <1>0, ReachDefined, WheelsAssumption
<1>2. Reach[Wheels] = m * r /\ Reach[Wheels] \in Nat \ {0}
  BY <1>0, <1>1, ReachDefined
<1>3. PICK last \in Nat : last = tick + Reach[Wheels] - 1
  BY <1>2
<1>4. find_handle_list(e) = SlotAt(Wheels, last)
  <2>1. e - tick \notin 0 .. Reach[Wheels] - 1
    BY <1>2
  <2>2. QED BY <1>3, <2>1 DEF find_handle_list
<1>5. find_handle_list(e) \in Slots /\ find_handle_list(e)[1] = Wheels
  BY <1>0, <1>4, SlotFacts
<1>6. ASSUME NEW l \in Turning PROVE find_handle_list(e) # SlotAt(l, tick)
  <2>1. l \in 2 .. Wheels /\ l \in 1 .. Wheels
    BY DEF Turning
  <2>2. CASE l # Wheels
    <3>1. SlotAt(l, tick)[1] = l
      BY <2>1, SlotFacts
    <3>2. QED BY <1>5, <2>2, <3>1
  <2>3. CASE l = Wheels
    <3>1. tick % r = 0
      BY <1>0, <1>1, <1>6, <2>3, TurnsAt
    <3>2. PICK p \in Nat : p = tick \div r /\ tick = r * p
      <4>1. tick \div r \in Nat /\ tick = r * (tick \div r) + (tick % r)
        BY DivMod
      <4>2. r * (tick \div r) \in Nat
        BY <4>1
      <4>3. QED BY <3>1, <4>1, <4>2
    <3>3. PICK q \in Nat : q = p + m - 1 /\ p < q /\ q < p + m
      BY <1>1
    <3>4. last = r * q + (r - 1) /\ r - 1 \in 0 .. r - 1
      <4>1. r * q = r * p + m * r - r
        <5>1. q + 1 = p + m /\ r * (q + 1) = r * q + r /\ r * (p + m) = r * p + m * r
          BY <3>3
        <5>2. r * q \in Nat /\ r * p \in Nat /\ m * r \in Nat
          OBVIOUS
        <5>3. r * q + r = r * p + m * r
          BY ONLY <5>1
        <5>4. QED BY <5>2, <5>3
      <4>2. r * p \in Nat /\ m * r \in Nat
        OBVIOUS
      <4>3. last = r * p + m * r - 1
        BY <1>2, <1>3, <3>2
      <4>4. QED BY <4>1, <4>2, <4>3
    <3>5. last \div r = q
      <4>1. (r * q + (r - 1)) \div r = q
        BY <3>4, DivUnique
      <4>2. QED BY <3>4, <4>1
    <3>6. SlotAt(Wheels, last) = <<Wheels, q % m>> /\ SlotAt(Wheels, tick) = <<Wheels, p % m>>
      BY <1>0, <1>1, <3>2, <3>5 DEF SlotAt
    <3>7. p % m # q % m
      <4>1. m \in Nat \ {0} /\ p <= q
        BY <3>3
      <4>2. p % m = q % m => p = q
        BY <3>3, <4>1, ModSame
      <4>3. QED BY <3>3, <4>2
    <3>8. QED BY <1>4, <2>3, <3>6, <3>7
  <2>4. QED BY <2>2, <2>3
<1>7. QED BY <1>5, <1>6

\* find_handle_list finds a list.
LEMMA FoundSlot ==
  ASSUME tick \in Nat, NEW e \in Int
  PROVE  find_handle_list(e) \in Slots
<1>1. Wheels \in 1 .. Wheels
  BY WheelsAssumption
<1>2. PICK r \in Nat \ {0} : r = Reach[Wheels]
  BY <1>1, ReachDefined
<1>3. CASE e - tick \in 0 .. r - 1
  <2>1. e \in Nat /\ tick <= e /\ e < tick + Reach[Wheels]
    BY <1>2, <1>3
  <2>2. QED BY <2>1, FoundPlaced
<1>4. CASE e - tick \notin 0 .. r - 1
  <2>1. find_handle_list(e) = SlotAt(Wheels, (tick + r) - 1)
    BY <1>2, <1>4 DEF find_handle_list
  <2>2. (tick + r) - 1 \in Nat
    BY <1>2
  <2>3. QED BY <1>1, <2>1, <2>2, SlotFacts
<1>5. QED BY <1>3, <1>4

\* A cascade leaves lists of timers.
LEMMA CascadeCell ==
  ASSUME TypeOK, NEW w \in Cells, NEW src \in Slots
  PROVE  cascade(w, src) \in Cells
<1>1. \A t \in Timers : find_handle_list(timer[t].expires) \in Slots
  BY FieldTypes, FoundSlot
<1>2. w.lists \in [Slots -> Seq(Timers)] /\ w.where \in [Timers -> Slots]
  BY DEF Cells
<1>3. [t \in Timers |-> IF Contains(w.lists[src], t) THEN find_handle_list(timer[t].expires)
                        ELSE w.where[t]] \in [Timers -> Slots]
  BY <1>1, <1>2
<1>4. ASSUME NEW s \in Slots
      PROVE  w.lists[s] \o Keep(w.lists[src], {t \in Timers : find_handle_list(timer[t].expires) = s}) \in Seq(Timers)
  <2>1. PICK p \in Seq(Timers), o \in Seq(Timers) : p = w.lists[s] /\ o = w.lists[src]
    BY <1>2
  <2> DEFINE To == {t \in Timers : find_handle_list(timer[t].expires) = s}
  <2> HIDE DEF To
  <2>2. PICK q \in Seq(Timers) : q = Keep(o, To)
    BY KeepElements
  <2>3. p \o q \in Seq(Timers)
    OBVIOUS
  <2>4. QED BY <2>1, <2>2, <2>3 DEF To
<1>5. Spread(w, src) \in [Slots -> Seq(Timers)]
  BY <1>4, NoElements DEF Spread
<1>6. QED BY <1>3, <1>5 DEF cascade, Cells

\* A cascade leaves every timer well placed, its wheel being spread.
LEMMA CascadeSettles ==
  ASSUME TypeOK, NEW l \in 2 .. Wheels, l \in Turning, NEW w \in Cells, Settled(w, l - 1)
  PROVE  Settled(cascade(w, SlotAt(l, tick)), l)
<1> DEFINE src == SlotAt(l, tick)
           f == [t \in Timers |-> find_handle_list(timer[t].expires)]
           v == cascade(w, src)
<1>0. /\ tick \in Nat /\ live \subseteq Timers /\ \A t \in Timers : timer[t].expires \in Int
      /\ w.lists \in [Slots -> Seq(Timers)] /\ w.where \in [Timers -> Slots]
  BY FieldTypes DEF Cells
<1>1. l \in 1 .. Wheels /\ l - 1 \in 1 .. Wheels /\ src \in Slots
  <2>1. l \in 1 .. Wheels /\ l - 1 \in 1 .. Wheels
    BY WheelsAssumption
  <2>2. QED BY <1>0, <2>1, SlotFacts
<1>2. f \in [Timers -> Slots] /\ \A t \in Timers : f[t] = find_handle_list(timer[t].expires)
  BY <1>0, FoundSlot
<1>3. ASSUME NEW t \in live
      PROVE  /\ w.where[t] = src => f[t] # src /\ Sits(f[t], timer[t], tick, l)
             /\ w.where[t] # src => Sits(w.where[t], timer[t], tick, l)
  <2>1. PICK e \in Int : e = timer[t].expires
    BY <1>0
  <2>2. f[t] = find_handle_list(e)
    BY <1>0, <1>2, <2>1
  <2>3. CASE e \in Nat /\ Placed(w.where[t], e, tick, l - 1)
    <3>1. ASSUME w.where[t] = src PROVE f[t] # src /\ Placed(f[t], e, tick, l)
      <4>1. tick <= e /\ e < tick + Reach[l - 1] /\ e < tick + Reach[Wheels]
        BY <1>0, <2>3, <3>1, SpreadNow, PlacedInTime
      <4>2. Placed(find_handle_list(e), e, tick, l)
        BY <1>0, <2>3, <4>1, FoundPlaced
      <4>3. PICK k \in 1 .. Wheels : find_handle_list(e) = SlotAt(k, e) /\ k <= l - 1
        BY <1>0, <1>1, <2>3, <4>1, Found
      <4>4. k # l
        BY <4>3
      <4>5. SlotAt(k, e)[1] = k /\ src[1] = l
        BY <1>0, <1>1, <2>3, SlotFacts
      <4>6. QED BY <2>2, <4>2, <4>3, <4>4, <4>5
    <3>2. ASSUME w.where[t] # src PROVE Placed(w.where[t], e, tick, l)
      BY <1>0, <2>3, <3>2, NotSpread
    <3>3. QED BY <2>1, <2>3, <3>1, <3>2 DEF Sits
  <2>4. CASE timer[t].interval < 0 /\ e < tick /\ w.where[t][1] = Wheels
    <3>1. f[t] # src /\ f[t][1] = Wheels
      BY <1>0, <2>2, <2>4, FoundBehind
    <3>2. QED BY <2>1, <2>4, <3>1 DEF Sits
  <2>5. Sits(w.where[t], timer[t], tick, l - 1)
    BY DEF Settled
  <2>6. QED BY <2>1, <2>3, <2>4, <2>5 DEF Sits
<1>4. v \in Cells /\ v.lists = Spread(w, src)
  BY <1>1, CascadeCell DEF cascade
<1> HIDE DEF src, f
<1>5. ASSUME NEW t \in Timers
      PROVE  v.where[t] = IF t \in ToSet(w.lists[src]) THEN f[t] ELSE w.where[t]
  <2>1. v.where[t] = IF Contains(w.lists[src], t) THEN f[t] ELSE w.where[t]
    BY <1>2 DEF cascade
  <2>2. PICK o \in Seq(Timers) : o = w.lists[src]
    BY <1>0, <1>1
  <2>3. Contains(o, t) <=> t \in ToSet(o)
    BY Elements DEF Contains
  <2>4. QED BY <2>1, <2>2, <2>3
<1>6. v.lists = [s \in Slots |-> IF s = src THEN <<>>
                                 ELSE w.lists[s] \o Keep(w.lists[src], {t \in Timers : f[t] = s})]
  <2>1. \A s \in Slots : {t \in Timers : f[t] = s} = {t \in Timers : find_handle_list(timer[t].expires) = s}
    BY <1>2
  <2>2. QED BY <1>4, <2>1 DEF Spread
<1>7. v.where \in [Timers -> Slots]
  BY <1>4 DEF Cells
<1> HIDE DEF v
<1>8. Linked(w.lists, w.where, live)
  BY DEF Settled
<1>9. Linked(v.lists, v.where, live)
  <2>1. PICK ls \in [Slots -> Seq(Timers)], wh \in [Timers -> Slots], lv \in SUBSET Timers :
          ls = w.lists /\ wh = w.where /\ lv = live
    BY <1>0
  <2>2. PICK wh2 \in [Timers -> Slots] : wh2 = v.where
    BY <1>7
  <2>c. PICK ls2 : ls2 = v.lists
    OBVIOUS
  <2>3. Linked(ls, wh, lv) /\ \A t \in lv : wh[t] = src => f[t] # src
    BY <1>3, <1>8, <2>1
  <2>4. ls2 = [s \in Slots |-> IF s = src THEN <<>>
                              ELSE ls[s] \o Keep(ls[src], {t \in Timers : f[t] = s})]
    BY <1>6, <2>1, <2>c
  <2>5. \A t \in Timers : wh2[t] = IF t \in ToSet(ls[src]) THEN f[t] ELSE wh[t]
    BY <1>5, <2>1, <2>2
  <2>6. Spreads(ls, wh, f, src, ls2, wh2)
    BY <2>4, <2>5 DEF Spreads
  <2>7. Linked(ls2, wh2, lv)
    BY <1>1, <1>2, <2>3, <2>6, SpreadLinked
  <2>8. QED BY <2>1, <2>2, <2>c, <2>7
<1>10. ASSUME NEW t \in live PROVE Sits(v.where[t], timer[t], tick, l)
  <2>1. t \in ToSet(w.lists[src]) <=> w.where[t] = src
    BY <1>1, <1>8 DEF Linked
  <2>2. QED BY <1>0, <1>3, <1>5, <2>1
<1>11. QED BY <1>9, <1>10 DEF Settled, v, src

\* ... and so do all cascades of a tick, wheel by wheel.
LEMMA CascadedSettles ==
  ASSUME TypeOK, Settled([lists |-> lists, where |-> where], 1)
  PROVE  Cascaded[Wheels] \in Cells /\ Settled(Cascaded[Wheels], Wheels)
<1> DEFINE v == [lists |-> lists, where |-> where]
           Then(l, w) == IF l \in Turning THEN cascade(w, SlotAt(l, tick)) ELSE w
           R == {p \in Nat \X Cells \X Cells : p[3] = Then(p[1], p[2])}
<1>0. tick \in Nat /\ Wheels \in Nat \ {0} /\ v \in Cells
  BY FieldTypes, WheelsAssumption DEF Cells
<1>1. ASSUME NEW l \in 2 .. Wheels, NEW w \in Cells PROVE Then(l, w) \in Cells
  <2>1. l \in 1 .. Wheels
    BY <1>0
  <2>2. QED BY <1>0, <2>1, CascadeCell, SlotFacts
<1>2. \A l \in 2 .. Wheels : \A w \in Cells : \E u \in Cells : <<l, w, u>> \in R
  <2>1. ASSUME NEW l \in 2 .. Wheels, NEW w \in Cells PROVE <<l, w, Then(l, w)>> \in R
    <3> HIDE DEF Then
    <3>1. QED BY <1>0, <1>1
  <2>2. QED BY <1>1, <2>1
<1> HIDE DEF R, v
<1>3. PICK g \in [1 .. Wheels -> Cells] : Chain(g, Wheels, v, R)
  BY <1>0, <1>2, Recursion
<1>4. g[1] = v /\ \A l \in 2 .. Wheels : g[l] = Then(l, g[l - 1])
  BY <1>3 DEF Chain, R
<1>5. g = [l \in 1 .. Wheels |-> IF l = 1 THEN v ELSE Then(l, g[l - 1])]
  <2> HIDE DEF Then
  <2>1. \A l \in 1 .. Wheels : l = 1 \/ l \in 2 .. Wheels
    BY <1>0
  <2>2. QED BY <1>4, <2>1
<1>6. Cascaded = [l \in 1 .. Wheels |-> IF l = 1 THEN v ELSE Then(l, Cascaded[l - 1])]
  BY <1>5 DEF Cascaded, v
<1> DEFINE S == {n \in Nat : n \in 0 .. Wheels - 1 =>
                               Cascaded[n + 1] \in Cells /\ Settled(Cascaded[n + 1], n + 1)}
<1>7. 0 \in S
  <2>1. Cascaded[1] = v
    BY <1>0, <1>6
  <2>2. QED BY <1>0, <2>1 DEF v
<1>8. ASSUME NEW n \in 0 .. (Wheels - 1) - 1, n \in S PROVE n + 1 \in S
  <2>1. /\ n \in Nat /\ n + 1 \in Nat /\ (n + 1) + 1 \in 2 .. Wheels /\ (n + 1) + 1 \in 1 .. Wheels
        /\ (n + 1) + 1 # 1 /\ ((n + 1) + 1) - 1 = n + 1 /\ n \in 0 .. Wheels - 1
    BY <1>0
  <2>2. PICK l \in 2 .. Wheels : l = (n + 1) + 1
    BY <2>1
  <2>3. PICK w \in Cells : w = Cascaded[n + 1] /\ Settled(w, l - 1)
    BY <1>8, <2>1, <2>2
  <2>4. Cascaded[l] = Then(l, w)
    <3> HIDE DEF Then
    <3>1. QED BY <1>6, <2>1, <2>2, <2>3
  <2>5. Settled(Then(l, w), l)
    <3>1. CASE l \in Turning
      BY <2>3, <3>1, CascadeSettles
    <3>2. CASE l \notin Turning
      <4>1. ASSUME NEW t \in live PROVE Sits(w.where[t], timer[t], tick, l)
        <5>1. Sits(w.where[t], timer[t], tick, l - 1)
          BY <2>3 DEF Settled
        <5>2. ASSUME NEW e \in Nat, Placed(w.where[t], e, tick, l - 1)
              PROVE  Placed(w.where[t], e, tick, l)
          BY <1>0, <3>2, <5>2, NotSpread
        <5>3. QED BY <5>1, <5>2 DEF Sits
      <4>2. QED BY <2>3, <3>2, <4>1 DEF Settled
    <3>3. QED BY <3>1, <3>2
  <2>6. Then(l, w) \in Cells
    BY <1>1
  <2> HIDE DEF Then
  <2>7. QED BY <2>1, <2>2, <2>4, <2>5, <2>6
<1>9. 0 .. Wheels - 1 \subseteq S
  <2> HIDE DEF S
  <2>1. Wheels - 1 \in Nat
    BY <1>0
  <2>2. QED BY <1>7, <1>8, <2>1, SetInduction
<1>10. Wheels - 1 \in 0 .. Wheels - 1 /\ (Wheels - 1) + 1 = Wheels
  BY <1>0
<1>11. QED BY <1>9, <1>10

---------------------------------------------------------------------------
(* The inductive invariant *)

LinkInv == Linked(lists, where, live)

\* Between two ticks nothing is yet spread for the next one.
PlacedInv ==
  \A t \in live : Sits(where[t], timer[t], tick, IF pc = "idle" THEN 1 ELSE Wheels)

\* A timer that del was called for and that is still there is in its last run; of the others, one
\* whose count fits has run as often as is missing from it, and will run if it waits.
Counted(t) ==
  /\ t \in deleted => timer[t].is_running /\ Spent(t)
  /\ t \notin deleted /\ asked[t] = 0 => timer[t].is_forever
  /\ t \notin deleted /\ asked[t] # 0 /\ asked[t] < Half =>
       /\ ~timer[t].is_forever
       /\ timer[t].repeats = asked[t] - runs[t]
       /\ timer[t].repeats >= 0
       /\ ~timer[t].is_running => timer[t].repeats > 0

\* The callback that runs is that of a timer on the list of this tick.
RunningInv ==
  /\ \A t \in live : Counted(t)
  /\ cur # None => timer[cur].is_running /\ where[cur] = Head1

WheelInv == TypeOK /\ LinkInv /\ PlacedInv /\ RunningInv

\* The wheels begin empty.
LEMMA InitWheel == Init => WheelInv
<1> SUFFICES ASSUME Init PROVE WheelInv
  OBVIOUS
<1>1. /\ live = {} /\ deleted = {} /\ cur = None /\ pc = "idle"
      /\ lists = [s \in Slots |-> <<>>] /\ where = [t \in Timers |-> <<1, 0>>]
      /\ timer = [t \in Timers |-> Unused] /\ tick \in StartTicks
      /\ asked = [t \in Timers |-> 0] /\ runs = [t \in Timers |-> 0]
  BY DEF Init
<1>2. TypeOK
  <2>1. <<1, 0>> \in Slots
    BY WheelsAssumption DEF Slots
  <2>2. tick \in Nat
    BY <1>1, ArgumentsAssumption
  <2>3. Unused \in TimerSet
    BY DEF Unused, TimerSet
  <2>4. timer \in [Timers -> TimerSet]
    BY <1>1, <2>3
  <2>5. lists \in [Slots -> Seq(Timers)] /\ where \in [Timers -> Slots]
    BY <1>1, <2>1, NoElements
  <2>6. asked \in [Timers -> Nums \cup {0}] /\ runs \in [Timers -> Nat]
    BY <1>1
  <2>7. QED BY <1>1, <2>2, <2>4, <2>5, <2>6 DEF TypeOK, TimerSet
<1>3. LinkInv
  <2>1. \A s \in Slots : lists[s] = <<>>
    BY <1>1
  <2>2. QED BY <1>1, <2>1, NoElements DEF LinkInv, Linked
<1>4. PlacedInv /\ RunningInv
  BY <1>1 DEF PlacedInv, RunningInv
<1>5. QED BY <1>2, <1>3, <1>4 DEF WheelInv

\* What the actions' proofs use of the invariant.
LEMMA Basics ==
  ASSUME WheelInv
  PROVE  /\ TypeOK /\ LinkInv /\ PlacedInv /\ RunningInv
         /\ tick \in Nat /\ lists \in [Slots -> Seq(Timers)] /\ where \in [Timers -> Slots]
         /\ live \in SUBSET Timers /\ timer \in [Timers -> TimerSet]
         /\ asked \in [Timers -> Nums \cup {0}] /\ runs \in [Timers -> Nat]
         /\ \A t \in live : t \in Timers /\ t # None /\ Counted(t)
         /\ \A s \in Slots : ToSet(lists[s]) = {t \in live : where[t] = s}
<1>1. TypeOK /\ LinkInv /\ PlacedInv /\ RunningInv
  BY DEF WheelInv
<1>2. \A s \in Slots : ToSet(lists[s]) = {t \in live : where[t] = s}
  BY <1>1 DEF LinkInv, Linked
<1>3. \A t \in live : Counted(t)
  BY <1>1 DEF RunningInv
<1>4. asked \in [Timers -> Nums \cup {0}] /\ runs \in [Timers -> Nat]
  BY <1>1 DEF TypeOK
<1>5. QED BY <1>1, <1>2, <1>3, <1>4, FieldTypes

\* alloc_x finds a node that is not in use.
LEMMA FreeFound ==
  ASSUME live \in SUBSET Timers, NEW t \in Timers, t = FreeNode
  PROVE  t \notin live
<1>1. CASE live = Timers
  BY <1>1 DEF FreeNode, None, Timers
<1>2. CASE live # Timers
  <2> DEFINE S == Timers \ live
  <2>1. t = Min(S) /\ S \in SUBSET Nat
    BY <1>2, WheelsAssumption DEF FreeNode, Timers
  <2>2. S # {}
    BY <1>2
  <2> HIDE DEF S
  <2>3. t \in S
    BY <2>1, <2>2, MinOf
  <2>4. QED BY <2>3 DEF S
<1>3. QED BY <1>1, <1>2

\* The timers that were there stay where they are, and one is added.
LEMMA AddKeeps ==
  ASSUME WheelInv, NEW x \in Timers, NEW first \in Firsts, NEW interval \in Intervals, NEW num \in Nums,
         NEW to_head \in Heads, add(x, first, interval, num, to_head)
  PROVE  WheelInv'
<1>0. /\ TypeOK /\ tick \in Nat /\ lists \in [Slots -> Seq(Timers)] /\ where \in [Timers -> Slots]
      /\ live \in SUBSET Timers /\ x \notin live
  <2>1. x = FreeNode
    BY DEF add
  <2>2. QED BY <2>1, Basics, FreeFound
<1>1. /\ UNCHANGED <<tick, pc, cur>> /\ live' = live \cup {x} /\ deleted' = deleted \ {x}
      /\ asked' = [asked EXCEPT ![x] = num] /\ runs' = [runs EXCEPT ![x] = 0]
  BY DEF add, NewTimer
<1>2. PICK e \in Nat : e = tick + first /\ tick <= e /\ e < tick + Reach[Wheels]
  <2>1. first \in Nat /\ first <= Reach[Wheels] - 1 /\ Reach[Wheels] \in Nat
    BY ArgumentsAssumption, ReachDefined, WheelsAssumption
  <2>2. QED BY <1>0, <2>1
<1>3. PICK slot \in Slots : slot = find_handle_list(e) /\ \A n : Placed(slot, e, tick, n)
  BY <1>0, <1>2, FoundPlaced
<1>4. PICK ever \in BOOLEAN : ever = (num = 0)
  <2>1. (num = 0) \in BOOLEAN
    OBVIOUS
  <2>2. QED BY <2>1, Zenon
<1>5. PICK n \in Signed, i \in Signed : n = Narrowed(num) /\ i = Narrowed(interval) /\ (num < Half => n = num)
  <2>1. num \in 0 .. Reach[Wheels] - 1 /\ interval \in 0 .. Reach[Wheels] - 1
    BY ArgumentsAssumption
  <2>2. QED BY <2>1, WordFacts
<1>6. PICK new \in TimerSet :
        new = [expires |-> e, interval |-> i, repeats |-> n, is_forever |-> ever, is_running |-> FALSE]
  <2>1. e \in Int /\ i \in Signed \cup {0} /\ n \in Signed \cup {0}
    OBVIOUS
  <2>2. [expires |-> e, interval |-> i, repeats |-> n, is_forever |-> ever, is_running |-> FALSE] \in TimerSet
    BY <2>1, Zenon DEF TimerSet
  <2>3. QED BY <2>2
<1>7. /\ timer' = [timer EXCEPT ![x] = new] /\ where' = [where EXCEPT ![x] = slot]
      /\ lists' = [lists EXCEPT ![slot] = IF to_head THEN <<x>> \o @ ELSE Append(@, x)]
  BY <1>2, <1>3, <1>4, <1>5, <1>6 DEF add, NewTimer
<1>8. PICK q \in {Append(lists[slot], x), <<x>> \o lists[slot]} :
        lists' = [lists EXCEPT ![slot] = q]
  <2>1. to_head \in BOOLEAN
    BY WheelsAssumption
  <2>2. QED BY <1>0, <1>7, <2>1
<1>9. lists' \in [Slots -> Seq(Timers)] /\ where' \in [Timers -> Slots] /\ LinkInv'
  <2>1. PICK ls \in [Slots -> Seq(Timers)], wh \in [Timers -> Slots], lv \in SUBSET Timers :
          ls = lists /\ wh = where /\ lv = live
    BY <1>0
  <2>2. Linked(ls, wh, lv) /\ x \notin lv
    BY <1>0, <2>1, Basics DEF LinkInv
  <2>3. PICK ls2, wh2 : ls2 = lists' /\ wh2 = where'
    OBVIOUS
  <2>4. Adds(ls, wh, x, slot, ls2, wh2)
    BY <1>7, <1>8, <2>1, <2>3 DEF Adds
  <2>5. ls2 \in [Slots -> Seq(Timers)] /\ wh2 \in [Timers -> Slots] /\ Linked(ls2, wh2, lv \cup {x})
    BY <2>2, <2>4, AddedLinked
  <2>6. QED BY <1>1, <2>1, <2>3, <2>5 DEF LinkInv
<1>10. /\ timer' \in [Timers -> TimerSet] /\ timer'[x] = new /\ where'[x] = slot
       /\ \A t \in Timers : t # x => timer'[t] = timer[t] /\ where'[t] = where[t]
  BY <1>0, <1>6, <1>7, Basics
<1>11. /\ asked' \in [Timers -> Nums \cup {0}] /\ runs' \in [Timers -> Nat]
       /\ asked'[x] = num /\ runs'[x] = 0
       /\ \A t \in Timers : t # x => asked'[t] = asked[t] /\ runs'[t] = runs[t]
  BY <1>1, Basics
<1>12. TypeOK'
  <2>1. live' \subseteq Timers /\ cur' \in live' \cup {None} /\ deleted' \subseteq Timers
    BY <1>0, <1>1 DEF TypeOK
  <2>2. QED BY <1>0, <1>1, <1>9, <1>10, <1>11, <2>1 DEF TypeOK, TimerSet
<1>13. PlacedInv'
  <2>1. ASSUME NEW t \in live'
        PROVE  Sits(where'[t], timer'[t], tick', IF pc' = "idle" THEN 1 ELSE Wheels)
    <3>1. CASE t = x
      <4>1. timer'[t].expires = e
        BY <1>6, <1>10, <3>1
      <4>2. QED BY <1>1, <1>3, <1>10, <3>1, <4>1 DEF Sits
    <3>2. CASE t # x
      <4>1. t \in live /\ where'[t] = where[t] /\ timer'[t] = timer[t]
        BY <1>0, <1>1, <1>10, <3>2
      <4>2. QED BY <1>1, <4>1, Basics DEF PlacedInv
    <3>3. QED BY <3>1, <3>2
  <2>2. QED BY <2>1 DEF PlacedInv
<1>14. RunningInv'
  <2>1. ASSUME NEW t \in live' PROVE Counted(t)'
    <3>1. CASE t = x
      <4>1. t \notin deleted' /\ asked'[t] = num /\ runs'[t] = 0 /\ timer'[t] = new
        BY <1>1, <1>10, <1>11, <3>1
      <4>2. num \in Nat /\ Half \in Nat
        BY ArgumentsAssumption, WordFacts
      <4>3. num = 0 => new.is_forever
        BY <1>4, <1>6
      <4>4. num # 0 => ~new.is_forever
        BY <1>4, <1>6
      <4>5. num # 0 /\ num < Half => new.repeats = num - 0 /\ new.repeats >= 0 /\ new.repeats > 0
        BY <1>5, <1>6, <4>2
      <4>6. QED BY <4>1, <4>3, <4>4, <4>5 DEF Counted
    <3>2. CASE t # x
      <4>1. t \in live /\ timer'[t] = timer[t] /\ (t \in deleted' <=> t \in deleted)
        BY <1>0, <1>1, <1>10, <3>2
      <4>2. asked'[t] = asked[t] /\ runs'[t] = runs[t]
        BY <1>0, <1>11, <3>2, <4>1
      <4>3. QED BY <4>1, <4>2, Basics DEF Counted, Spent
    <3>3. QED BY <3>1, <3>2
  <2>2. cur' # None => timer'[cur'].is_running /\ where'[cur'] = Head1'
    <3>1. cur # None => cur \in live /\ cur # x /\ cur \in Timers
      BY <1>0 DEF TypeOK
    <3>2. QED BY <1>1, <1>10, <3>1, Basics DEF RunningInv, Head1
  <2>3. QED BY <2>1, <2>2 DEF RunningInv
<1>15. QED BY <1>9, <1>12, <1>13, <1>14 DEF WheelInv

\* A timer is freed, and the callback that runs, if one goes on running, is that of another.
LEMMA FreeKeeps ==
  ASSUME WheelInv, NEW x \in live, Unlink(x, where[x]), tick' = tick,
         \/ UNCHANGED <<pc, cur>> /\ cur # x
         \/ pc = "call" /\ pc' = "scan" /\ cur' = None,
         deleted' = deleted \/ deleted' = deleted \cup {x}
  PROVE  WheelInv'
<1>0. /\ tick \in Nat /\ lists \in [Slots -> Seq(Timers)] /\ where \in [Timers -> Slots]
      /\ live \in SUBSET Timers /\ x \in Timers /\ <<1, 0>> \in Slots
  BY Basics, WheelsAssumption DEF Slots
<1>1. /\ lists' = [lists EXCEPT ![where[x]] = Without(@, x)] /\ live' = live \ {x}
      /\ where' = [where EXCEPT ![x] = <<1, 0>>] /\ timer' = [timer EXCEPT ![x] = Unused]
      /\ asked' = [asked EXCEPT ![x] = 0] /\ runs' = [runs EXCEPT ![x] = 0]
  BY DEF Unlink
<1>2. lists' \in [Slots -> Seq(Timers)] /\ where' \in [Timers -> Slots] /\ LinkInv'
  <2>1. PICK ls \in [Slots -> Seq(Timers)], wh \in [Timers -> Slots], lv \in SUBSET Timers :
          ls = lists /\ wh = where /\ lv = live
    BY <1>0
  <2>2. PICK ls2 : ls2 = lists'
    OBVIOUS
  <2>3. PICK wh2 \in [Timers -> Slots] : wh2 = where'
    BY <1>0, <1>1
  <2>4. Linked(ls, wh, lv) /\ x \in lv /\ Unlinks(ls, wh, x, ls2)
    BY <1>1, <2>1, <2>2, Basics DEF LinkInv, Unlinks
  <2>5. ls2 \in [Slots -> Seq(Timers)] /\ Linked(ls2, wh, lv \ {x})
    BY <2>4, UnlinkedLinked
  <2>6. \A s \in Slots : {t \in lv \ {x} : wh2[t] = s} = {t \in lv \ {x} : wh[t] = s}
    BY <1>0, <1>1, <2>1, <2>3
  <2>7. Linked(ls2, wh2, lv \ {x})
    BY <2>5, <2>6 DEF Linked
  <2>8. QED BY <1>1, <2>1, <2>2, <2>3, <2>5, <2>7 DEF LinkInv
<1>3. /\ timer' \in [Timers -> TimerSet]
      /\ \A t \in Timers : t # x => timer'[t] = timer[t] /\ where'[t] = where[t]
  <2>1. Unused \in TimerSet
    BY DEF Unused, TimerSet
  <2>2. QED BY <1>0, <1>1, <2>1, Basics
<1>4. /\ asked' \in [Timers -> Nums \cup {0}] /\ runs' \in [Timers -> Nat]
      /\ \A t \in Timers : t # x => asked'[t] = asked[t] /\ runs'[t] = runs[t]
  BY <1>0, <1>1, Basics
<1>5. /\ cur' \in live' \cup {None} /\ (cur' # None => cur' = cur) /\ pc' \in {"idle", "scan", "call"}
      /\ (pc' = "call") = (cur' # None) /\ (pc' = "idle" <=> pc = "idle")
  <2>1. cur \in live \cup {None} /\ pc \in {"idle", "scan", "call"} /\ (pc = "call") = (cur # None)
    BY Basics DEF TypeOK
  <2>2. QED BY <1>1, <2>1
<1>6. TypeOK'
  <2>1. live' \subseteq Timers /\ deleted' \subseteq Timers
    BY <1>0, <1>1, Basics DEF TypeOK
  <2>2. QED BY <1>0, <1>2, <1>3, <1>4, <1>5, <2>1 DEF TypeOK, TimerSet
<1>7. ASSUME NEW t \in live'
      PROVE  /\ t \in live /\ t # x /\ t \in Timers /\ timer'[t] = timer[t] /\ where'[t] = where[t]
             /\ asked'[t] = asked[t] /\ runs'[t] = runs[t] /\ (t \in deleted' <=> t \in deleted)
  BY <1>0, <1>1, <1>3, <1>4
<1>8. PlacedInv'
  <2>1. ASSUME NEW t \in live'
        PROVE  Sits(where'[t], timer'[t], tick', IF pc' = "idle" THEN 1 ELSE Wheels)
    <3>1. Sits(where[t], timer[t], tick, IF pc = "idle" THEN 1 ELSE Wheels)
      BY <1>7, Basics DEF PlacedInv
    <3>2. QED BY <1>5, <1>7, <3>1
  <2>2. QED BY <2>1 DEF PlacedInv
<1>9. RunningInv'
  <2>1. ASSUME NEW t \in live' PROVE Counted(t)'
    <3>1. Counted(t)
      BY <1>7, Basics
    <3>2. QED BY <1>7, <3>1 DEF Counted, Spent
  <2>2. cur' # None => timer'[cur'].is_running /\ where'[cur'] = Head1'
    BY <1>5, <1>7, Basics DEF RunningInv, Head1
  <2>3. QED BY <2>1, <2>2 DEF RunningInv
<1>10. QED BY <1>2, <1>6, <1>8, <1>9 DEF WheelInv

\* del keeps the invariant.
LEMMA DelKeeps ==
  ASSUME WheelInv, NEW x \in Timers, del(x)
  PROVE  WheelInv'
<1>0. /\ x \in live /\ deleted' = deleted \cup {x}
      /\ UNCHANGED <<tick, pc, cur>>
  BY DEF del
<1>1. CASE timer[x].is_running
  <2>1. /\ UNCHANGED <<lists, where, live, asked, runs>>
        /\ timer' = [timer EXCEPT ![x].repeats = 0, ![x].is_forever = FALSE]
    BY <1>1 DEF del
  <2>2. /\ timer' \in [Timers -> TimerSet]
        /\ \A t \in Timers : t # x => timer'[t] = timer[t]
        /\ timer'[x].repeats = 0 /\ timer'[x].is_forever = FALSE /\ timer'[x].interval = timer[x].interval
        /\ timer'[x].is_running = timer[x].is_running /\ timer'[x].expires = timer[x].expires
    BY <2>1, Basics DEF TimerSet
  <2>3. TypeOK'
    <3>1. deleted' \subseteq Timers
      BY <1>0, Basics DEF TypeOK
    <3>2. QED BY <1>0, <2>1, <2>2, <3>1, Basics DEF TypeOK, TimerSet
  <2>4. LinkInv'
    BY <1>0, <2>1, Basics DEF LinkInv
  <2>5. PlacedInv'
    <3>1. ASSUME NEW t \in live PROVE Sits(where[t], timer'[t], tick, IF pc = "idle" THEN 1 ELSE Wheels)
      <4>1. timer'[t].expires = timer[t].expires /\ timer'[t].interval = timer[t].interval
        BY <2>2, Basics
      <4>2. QED BY <4>1, Basics DEF PlacedInv, Sits
    <3>2. QED BY <1>0, <2>1, <3>1 DEF PlacedInv
  <2>6. RunningInv'
    <3>1. ASSUME NEW t \in live' PROVE Counted(t)'
      <4>1. CASE t = x
        <5>1. timer'[x].repeats <= 0 /\ ~timer'[x].is_forever /\ timer'[x].is_running
          BY <1>1, <2>2
        <5>2. Spent(x)'
          BY <5>1 DEF Spent
        <5>3. QED BY <1>0, <4>1, <5>1, <5>2, Zenon DEF Counted
      <4>2. CASE t # x
        <5>1. /\ timer'[t] = timer[t] /\ (t \in deleted' <=> t \in deleted) /\ Counted(t)
              /\ asked'[t] = asked[t] /\ runs'[t] = runs[t]
          BY <1>0, <2>1, <2>2, <4>2, Basics
        <5>2. QED BY <5>1 DEF Counted, Spent
      <4>3. QED BY <4>1, <4>2
    <3>2. cur' # None => timer'[cur'].is_running /\ where'[cur'] = Head1'
      <4>1. cur # None => cur \in Timers /\ timer[cur].is_running /\ where[cur] = Head1
        BY Basics DEF TypeOK, RunningInv
      <4>2. QED BY <1>0, <2>1, <2>2, <4>1 DEF Head1
    <3>3. QED BY <3>1, <3>2 DEF RunningInv
  <2>7. QED BY <2>3, <2>4, <2>5, <2>6 DEF WheelInv
<1>2. CASE ~timer[x].is_running
  <2>1. Unlink(x, where[x])
    BY <1>2 DEF del
  <2>2. cur # x
    BY <1>0, <1>2, Basics DEF RunningInv
  <2>3. QED BY <1>0, <2>1, <2>2, FreeKeeps
<1>3. QED BY <1>1, <1>2

\* The cascades and the step of cur_tick keep it.
LEMMA BeginTickKeeps ==
  ASSUME WheelInv, BeginTick
  PROVE  WheelInv'
<1>1. /\ pc = "idle" /\ pc' = "scan" /\ UNCHANGED <<tick, timer, live, cur, deleted, asked, runs>>
      /\ lists' = Cascaded[Wheels].lists /\ where' = Cascaded[Wheels].where
  BY DEF BeginTick
<1>2. Settled([lists |-> lists, where |-> where], 1)
  BY <1>1, Basics DEF Settled, LinkInv, PlacedInv
<1>3. Cascaded[Wheels] \in Cells /\ Settled(Cascaded[Wheels], Wheels)
  BY <1>2, Basics, CascadedSettles
<1>4. lists' \in [Slots -> Seq(Timers)] /\ where' \in [Timers -> Slots]
  BY <1>1, <1>3 DEF Cells
<1>5. cur = None
  BY <1>1, Basics DEF TypeOK
<1>6. TypeOK'
  BY <1>1, <1>4, <1>5, Basics DEF TypeOK
<1>7. LinkInv' /\ PlacedInv'
  BY <1>1, <1>3 DEF Settled, LinkInv, PlacedInv
<1>8. RunningInv'
  BY <1>1, <1>5, Basics DEF RunningInv, Counted, Spent
<1>9. QED BY <1>6, <1>7, <1>8 DEF WheelInv

\* The timer the loop looks at is on the list of this tick.
LEMMA HeadTimer ==
  ASSUME WheelInv, lists[Head1] # <<>>, NEW t, t = Head(lists[Head1])
  PROVE  t \in live /\ t \in Timers /\ where[t] = Head1
<1>1. Head1 \in Slots
  BY Basics, SlotFacts, WheelsAssumption DEF Head1
<1>2. PICK q \in Seq(Timers) : q = lists[Head1]
  BY <1>1, Basics
<1>3. 1 \in 1 .. Len(q) /\ q[1] = t
  BY <1>2
<1>4. t \in ToSet(q)
  BY <1>3, Elements
<1>5. QED BY <1>1, <1>2, <1>4, Basics

\* A timer whose last callback crashed is freed.
LEMMA DropCrashedKeeps ==
  ASSUME WheelInv, DropCrashed
  PROVE  WheelInv'
<1>1. PICK t : t = Head(lists[Head1]) /\ lists[Head1] # <<>> /\ Unlink(t, Head1)
  BY DEF DropCrashed
<1>2. UNCHANGED <<tick, pc, cur, deleted>> /\ cur = None
  BY Basics DEF DropCrashed, TypeOK
<1>3. t \in live /\ where[t] = Head1 /\ t # None
  BY <1>1, HeadTimer, Basics
<1>4. QED BY <1>1, <1>2, <1>3, FreeKeeps

\* A tick ends when its list is empty.
LEMMA EndTickKeeps ==
  ASSUME WheelInv, EndTick
  PROVE  WheelInv'
<1>1. /\ pc = "scan" /\ pc' = "idle" /\ tick' = tick + 1 /\ lists[Head1] = <<>>
      /\ UNCHANGED <<lists, where, timer, live, cur, deleted, asked, runs>>
  BY DEF EndTick
<1>2. cur = None
  BY <1>1, Basics DEF TypeOK
<1>3. TypeOK' /\ LinkInv'
  BY <1>1, <1>2, Basics DEF TypeOK, LinkInv
<1>4. \A t \in live : where[t] # Head1
  <2>1. Head1 \in Slots
    BY Basics, SlotFacts, WheelsAssumption DEF Head1
  <2>2. QED BY <1>1, <2>1, Basics, NoElements
<1>5. PlacedInv'
  <2>1. ASSUME NEW t \in live PROVE Sits(where[t], timer[t], tick + 1, 1)
    <3>1. Sits(where[t], timer[t], tick, Wheels)
      BY <1>1, Basics DEF PlacedInv
    <3>2. PICK e \in Int : e = timer[t].expires
      BY Basics, FieldTypes
    <3>3. CASE e \in Nat /\ Placed(where[t], e, tick, Wheels)
      <4>1. Placed(where[t], e, tick + 1, 1)
        BY <1>4, <3>3, Basics, TickPassed DEF Head1
      <4>2. QED BY <3>2, <3>3, <4>1 DEF Sits
    <3>4. CASE timer[t].interval < 0 /\ e < tick /\ where[t][1] = Wheels
      <4>1. e < tick + 1
        BY <3>4, Basics
      <4>2. QED BY <3>2, <3>4, <4>1 DEF Sits
    <3>5. QED BY <3>1, <3>2, <3>3, <3>4 DEF Sits
  <2>2. QED BY <1>1, <2>1 DEF PlacedInv
<1>6. RunningInv'
  BY <1>1, <1>2, Basics DEF RunningInv, Counted, Spent
<1>7. QED BY <1>3, <1>5, <1>6 DEF WheelInv

\* The process dies in a callback.
LEMMA CrashKeeps ==
  ASSUME WheelInv, Crash
  PROVE  WheelInv'
<1>1. /\ pc = "call" /\ pc' = "idle" /\ cur' = None
      /\ UNCHANGED <<tick, lists, where, timer, live, deleted, asked, runs>>
  BY DEF Crash
<1>2. TypeOK' /\ LinkInv'
  BY <1>1, Basics DEF TypeOK, LinkInv
<1>3. PlacedInv'
  <2>1. ASSUME NEW t \in live PROVE Sits(where[t], timer[t], tick, 1)
    <3>1. Sits(where[t], timer[t], tick, Wheels)
      BY <1>1, Basics DEF PlacedInv
    <3>2. \A l : l \notin 2 .. 1
      OBVIOUS
    <3>3. QED BY <3>1, <3>2 DEF Sits, Placed
  <2>2. QED BY <1>1, <2>1 DEF PlacedInv
<1>4. RunningInv'
  BY <1>1, Basics DEF RunningInv, Counted, Spent
<1>5. QED BY <1>2, <1>3, <1>4 DEF WheelInv

\* A timer that is run has runs to go.
LEMMA RunsToGo ==
  ASSUME WheelInv, NEW t \in live, ~(timer[t].is_running /\ Spent(t))
  PROVE  /\ t \notin deleted
         /\ asked[t] # 0 /\ asked[t] < Half => timer[t].repeats > 0
<1>1. Counted(t) /\ timer[t].repeats \in Int
  BY Basics, FieldTypes
<1>2. t \notin deleted
  BY <1>1 DEF Counted
<1>3. ASSUME asked[t] # 0, asked[t] < Half PROVE timer[t].repeats > 0
  <2>1. CASE timer[t].is_running
    <3>1. ~timer[t].is_forever
      BY <1>1, <1>2, <1>3 DEF Counted
    <3>2. ~(timer[t].repeats <= 0)
      BY <2>1, <3>1, Zenon DEF Spent
    <3>3. QED BY <1>1, <3>2
  <2>2. CASE ~timer[t].is_running
    BY <1>1, <1>2, <1>3, <2>2 DEF Counted
  <2>3. QED BY <2>1, <2>2
<1>4. QED BY <1>2, <1>3

\* A callback is started, the repeats being counted down before it.
LEMMA StartCallbackKeeps ==
  ASSUME WheelInv, StartCallback
  PROVE  WheelInv'
<1>1. PICK t : t = Head(lists[Head1]) /\ lists[Head1] # <<>> /\ ~(timer[t].is_running /\ Spent(t)) /\ CallbackOf(t)
  BY DEF StartCallback
<1>2. /\ pc = "scan" /\ pc' = "call" /\ cur' = t
      /\ UNCHANGED <<tick, lists, where, live, deleted, asked>>
      /\ timer' = [timer EXCEPT ![t].is_running = TRUE, ![t].repeats = Lessened(@)]
      /\ runs' = [runs EXCEPT ![t] = IF timer[t].is_forever THEN @ ELSE @ + 1]
  BY <1>1 DEF CallbackOf, StartCallback
<1>3. t \in live /\ t \in Timers /\ where[t] = Head1 /\ t # None
  BY <1>1, HeadTimer, Basics
<1>4. PICK r \in Signed \cup {0} : r = timer[t].repeats
  BY <1>3, Basics DEF TimerSet
<1>5. PICK m \in Signed \cup {0} : m = Lessened(r) /\ (r > 0 => m = r - 1) /\ r \in Int
  BY WordFacts
<1>6. timer' = [timer EXCEPT ![t].is_running = TRUE, ![t].repeats = m]
  BY <1>2, <1>3, <1>4, <1>5, Basics DEF TimerSet
<1>7. /\ timer' \in [Timers -> TimerSet]
      /\ \A u \in Timers : u # t => timer'[u] = timer[u]
      /\ timer'[t].repeats = m /\ timer'[t].is_running = TRUE /\ timer'[t].interval = timer[t].interval
      /\ timer'[t].is_forever = timer[t].is_forever /\ timer'[t].expires = timer[t].expires
  BY <1>3, <1>6, Basics DEF TimerSet
<1>8. PICK n \in Nat : n = runs[t]
  BY <1>3, Basics
<1>9. /\ runs' \in [Timers -> Nat] /\ \A u \in Timers : u # t => runs'[u] = runs[u]
      /\ ~timer[t].is_forever => runs'[t] = n + 1
  <2>1. n + 1 \in Nat
    OBVIOUS
  <2>2. QED BY <1>2, <1>3, <1>8, <2>1, Basics
<1>10. TypeOK'
  <2>1. cur' \in live \cup {None} /\ (pc' = "call") = (cur' # None)
    BY <1>2, <1>3
  <2>2. QED BY <1>2, <1>7, <1>9, <2>1, Basics DEF TypeOK, TimerSet
<1>11. LinkInv'
  BY <1>2, Basics DEF LinkInv
<1>12. PlacedInv'
  <2>1. ASSUME NEW u \in live PROVE Sits(where[u], timer'[u], tick, Wheels)
    <3>1. Sits(where[u], timer[u], tick, Wheels)
      BY <1>2, Basics DEF PlacedInv
    <3>2. timer'[u].expires = timer[u].expires /\ timer'[u].interval = timer[u].interval
      BY <1>7, Basics
    <3>3. QED BY <3>1, <3>2 DEF Sits
  <2>2. QED BY <1>2, <2>1 DEF PlacedInv
<1>13. RunningInv'
  <2>1. ASSUME NEW u \in live PROVE Counted(u)'
    <3>1. CASE u = t
      <4>1. t \notin deleted' /\ asked'[t] = asked[t]
        BY <1>1, <1>2, <1>3, RunsToGo
      <4>2. asked[t] = 0 => timer'[t].is_forever
        BY <1>2, <1>3, <1>7, <4>1, Basics DEF Counted
      <4>3. ASSUME asked[t] # 0, asked[t] < Half
            PROVE  ~timer'[t].is_forever /\ timer'[t].repeats = asked[t] - runs'[t] /\ timer'[t].repeats >= 0
        <5>1. ~timer[t].is_forever /\ r = asked[t] - n /\ r > 0
          BY <1>1, <1>2, <1>3, <1>4, <1>8, <4>1, <4>3, Basics, RunsToGo DEF Counted
        <5>2. asked[t] \in Nat
          <6>1. asked[t] \in Nums \cup {0}
            BY <1>3, Basics
          <6>2. \A x \in Nums \cup {0} : x \in Nat
            BY ArgumentsAssumption, WordFacts
          <6>3. QED BY <6>1, <6>2
        <5>3. PICK a \in Nat : a = asked[t]
          BY <5>2
        <5>4. m = a - (n + 1) /\ m >= 0
          BY <1>5, <5>1, <5>3
        <5>5. QED BY <1>7, <1>9, <5>1, <5>3, <5>4
      <4>4. QED BY <1>7, <3>1, <4>1, <4>2, <4>3 DEF Counted
    <3>2. CASE u # t
      <4>1. timer'[u] = timer[u] /\ runs'[u] = runs[u] /\ Counted(u)
        BY <1>7, <1>9, <3>2, Basics
      <4>2. QED BY <1>2, <4>1 DEF Counted, Spent
    <3>3. QED BY <3>1, <3>2
  <2>2. cur' # None => timer'[cur'].is_running /\ where'[cur'] = Head1'
    BY <1>2, <1>3, <1>7 DEF Head1
  <2>3. QED BY <1>2, <2>1, <2>2 DEF RunningInv
<1>14. QED BY <1>10, <1>11, <1>12, <1>13 DEF WheelInv

\* A timer is freed after its last callback, or set again.
LEMMA EndCallbackKeeps ==
  ASSUME WheelInv, EndCallback
  PROVE  WheelInv'
<1>1. PICK t : t = cur
  OBVIOUS
<1>2. /\ pc = "call" /\ pc' = "scan" /\ cur' = None /\ UNCHANGED <<tick, deleted>>
  BY DEF EndCallback
<1>3. t \in live /\ t \in Timers /\ where[t] = Head1 /\ timer[t].is_running
  BY <1>1, <1>2, Basics DEF TypeOK, RunningInv
<1>4. CASE Spent(t)
  <2>1. Unlink(t, where[t])
    BY <1>1, <1>3, <1>4 DEF EndCallback
  <2>2. QED BY <1>2, <1>3, <2>1, FreeKeeps
<1>5. CASE ~Spent(t)
  <2>0. PICK i \in Int : i = timer[t].interval /\ i < Reach[Wheels]
    BY <1>3, Basics, FieldTypes
  <2>1. PICK e \in Int : e = tick + i
    BY Basics
  <2>2. PICK slot \in Slots : slot = find_handle_list(e)
    BY Basics, FoundSlot
  <2>3. ASSUME NEW r, r.expires = e, r.interval = i PROVE Sits(slot, r, tick, Wheels)
    <3>1. CASE i < 0
      <4>1. e < tick
        BY <2>1, <3>1, Basics
      <4>2. slot[1] = Wheels
        BY <2>2, <4>1, Basics, FoundBehind
      <4>3. QED BY <2>3, <3>1, <4>1, <4>2 DEF Sits
    <3>2. CASE i >= 0
      <4>1. e \in Nat /\ tick <= e /\ e < tick + Reach[Wheels]
        <5>1. tick \in Nat /\ Reach[Wheels] \in Nat
          BY Basics, WordFacts
        <5>2. PICK now \in Nat, w \in Nat : now = tick /\ w = Reach[Wheels]
          BY <5>1
        <5>3. now + i \in Nat /\ now <= now + i /\ now + i < now + w
          BY <2>0, <3>2, <5>2
        <5>4. QED BY <2>1, <5>2, <5>3
      <4>2. Placed(slot, e, tick, Wheels)
        BY <2>2, <4>1, Basics, FoundPlaced
      <4>3. QED BY <2>3, <4>1, <4>2 DEF Sits
    <3>3. QED BY <3>1, <3>2
  <2>4. PICK rest : rest = [lists EXCEPT ![Head1] = Without(@, t)]
    OBVIOUS
  <2>5. /\ lists' = [rest EXCEPT ![slot] = Append(@, t)] /\ where' = [where EXCEPT ![t] = slot]
        /\ timer' = [timer EXCEPT ![t].is_running = FALSE, ![t].expires = e]
        /\ UNCHANGED <<live, asked, runs>>
    BY <1>1, <1>5, <2>0, <2>1, <2>2, <2>4 DEF EndCallback
  <2>6. lists' \in [Slots -> Seq(Timers)] /\ where' \in [Timers -> Slots] /\ LinkInv'
    <3>1. PICK ls \in [Slots -> Seq(Timers)], wh \in [Timers -> Slots], lv \in SUBSET Timers :
            ls = lists /\ wh = where /\ lv = live
      BY Basics
    <3>2. Linked(ls, wh, lv) /\ t \in lv /\ Unlinks(ls, wh, t, rest)
      BY <1>3, <2>4, <3>1, Basics DEF LinkInv, Unlinks
    <3>3. rest \in [Slots -> Seq(Timers)] /\ Linked(rest, wh, lv \ {t})
      BY <3>2, UnlinkedLinked
    <3>4. PICK ls2, wh2 : ls2 = lists' /\ wh2 = where'
      OBVIOUS
    <3>5. Adds(rest, wh, t, slot, ls2, wh2)
      BY <2>5, <3>1, <3>3, <3>4 DEF Adds
    <3>6. PICK lw \in SUBSET Timers : lw = lv \ {t} /\ t \notin lw
      <4>1. lv \ {t} \in SUBSET Timers /\ t \notin lv \ {t}
        OBVIOUS
      <4>2. QED BY <4>1, Zenon
    <3>7. ls2 \in [Slots -> Seq(Timers)] /\ wh2 \in [Timers -> Slots] /\ Linked(ls2, wh2, lw \cup {t})
      BY <1>3, <3>3, <3>5, <3>6, AddedLinked
    <3>8. lw \cup {t} = lv
      BY <3>2, <3>6
    <3>9. QED BY <2>5, <3>1, <3>4, <3>7, <3>8 DEF LinkInv
  <2>7. /\ timer' \in [Timers -> TimerSet]
        /\ \A u \in Timers : u # t => timer'[u] = timer[u] /\ where'[u] = where[u]
        /\ timer'[t].repeats = timer[t].repeats /\ timer'[t].is_forever = timer[t].is_forever
        /\ timer'[t].expires = e /\ timer'[t].interval = i /\ where'[t] = slot
    BY <1>3, <2>0, <2>5, Basics DEF TimerSet
  <2>8. TypeOK'
    BY <1>2, <2>5, <2>6, <2>7, Basics DEF TypeOK, TimerSet
  <2>9. PlacedInv'
    <3>1. ASSUME NEW u \in live
          PROVE  Sits(where'[u], timer'[u], tick, Wheels)
      <4>1. CASE u = t
        BY <2>3, <2>7, <4>1
      <4>2. CASE u # t
        BY <1>2, <2>7, <4>2, Basics DEF PlacedInv
      <4>3. QED BY <4>1, <4>2
    <3>2. QED BY <1>2, <2>5, <3>1 DEF PlacedInv
  <2>10. RunningInv'
    <3>1. ASSUME NEW u \in live PROVE Counted(u)'
      <4>1. CASE u = t
        <5>1. Counted(t) /\ t \notin deleted /\ (asked[t] # 0 /\ asked[t] < Half => timer[t].repeats > 0)
          BY <1>3, <1>5, Basics, RunsToGo
        <5>2. QED BY <1>2, <2>5, <2>7, <4>1, <5>1 DEF Counted
      <4>2. CASE u # t
        <5>1. timer'[u] = timer[u] /\ Counted(u)
          BY <2>7, <4>2, Basics
        <5>2. QED BY <1>2, <2>5, <5>1 DEF Counted, Spent
      <4>3. QED BY <4>1, <4>2
    <3>2. QED BY <1>2, <2>5, <3>1 DEF RunningInv
  <2>11. QED BY <2>6, <2>8, <2>9, <2>10 DEF WheelInv
<1>6. QED BY <1>4, <1>5

\* Every step keeps the invariant.
LEMMA StepKeeps == WheelInv /\ [Next]_vars => WheelInv'
<1> SUFFICES ASSUME WheelInv, [Next]_vars PROVE WheelInv'
  OBVIOUS
<1>1. ASSUME NEW t \in Timers, NEW first \in Firsts, NEW interval \in Intervals, NEW num \in Nums,
             NEW to_head \in Heads, add(t, first, interval, num, to_head)
      PROVE  WheelInv'
  BY <1>1, AddKeeps
<1>2. ASSUME NEW t \in Timers, del(t) PROVE WheelInv'
  BY <1>2, DelKeeps
<1>3. CASE BeginTick
  BY <1>3, BeginTickKeeps
<1>4. CASE DropCrashed
  BY <1>4, DropCrashedKeeps
<1>5. CASE StartCallback
  BY <1>5, StartCallbackKeeps
<1>6. CASE EndCallback
  BY <1>6, EndCallbackKeeps
<1>7. CASE EndTick
  BY <1>7, EndTickKeeps
<1>8. CASE Crash
  BY <1>8, CrashKeeps
<1>9. CASE UNCHANGED vars
  BY <1>9 DEF vars, WheelInv, TypeOK, LinkInv, PlacedInv, RunningInv, Counted, Spent, Head1
<1>10. QED BY <1>1, <1>2, <1>3, <1>4, <1>5, <1>6, <1>7, <1>8, <1>9 DEF Next, Run

\* The invariant holds always.
LEMMA AlwaysWheel == Spec => []WheelInv
<1>1. QED BY InitWheel, StepKeeps, PTL DEF Spec

---------------------------------------------------------------------------
(* The theorems *)

\* The state has the types of timer_wheel.cpp, and a callback runs exactly when a timer runs.
THEOREM TypeCorrect == Spec => []TypeOK
<1>1. WheelInv => TypeOK
  BY DEF WheelInv
<1>2. QED BY <1>1, AlwaysWheel, PTL

\* del finds each timer on the list that its lst_offset names, whatever cascades and repetitions
\* have moved it, and no list holds a timer that was freed.
THEOREM ListsAgree == Spec => []ListsSound
<1>1. ASSUME WheelInv PROVE ListsSound
  <2>1. ASSUME NEW s \in Slots, NEW i \in 1 .. Len(lists[s]), NEW j \in 1 .. Len(lists[s]), i # j
        PROVE  lists[s][i] # lists[s][j]
    <3>1. PICK q \in Seq(Timers) : q = lists[s]
      BY <1>1, Basics
    <3>2. IsInjective(q)
      BY <1>1, <3>1, Basics DEF LinkInv, Linked
    <3>3. QED BY <2>1, <3>1, <3>2 DEF IsInjective
  <2>2. QED BY <1>1, <2>1, Basics DEF ListsSound
<1>2. QED BY <1>1, AlwaysWheel, PTL

\* A callback is started in the very tick its timer was set to, however many wheels the timer
\* came down through, and whatever its interval; and no timer is left behind but one whose
\* interval is negative in 32 bits.
THEOREM FiresInTime == Spec => []OnTime
<1>1. ASSUME WheelInv PROVE OnTime
  <2>0. \A t \in live : Sits(where[t], timer[t], tick, IF pc = "idle" THEN 1 ELSE Wheels)
    BY <1>1, Basics DEF PlacedInv
  <2>1. ASSUME NEW t \in live, timer[t].interval >= 0 PROVE timer[t].expires >= tick
    <3>1. PICK n \in {1, Wheels} : Sits(where[t], timer[t], tick, n)
      BY <2>0
    <3>2. PICK e \in Int, i \in Int : e = timer[t].expires /\ i = timer[t].interval
      BY <1>1, Basics, FieldTypes
    <3>3. ~(i < 0)
      BY <2>1, <3>2
    <3>4. e \in Nat /\ Placed(where[t], e, tick, n)
      BY <3>1, <3>2, <3>3 DEF Sits
    <3>5. tick <= e
      BY <1>1, <3>4, Basics, PlacedInTime
    <3>6. QED BY <1>1, <3>2, <3>5, Basics
  <2>2. ASSUME cur # None PROVE timer[cur].expires = tick
    <3>1. cur \in live /\ where[cur] = Head1
      BY <1>1, <2>2, Basics DEF TypeOK, RunningInv
    <3>2. PICK n \in {1, Wheels} : Sits(Head1, timer[cur], tick, n)
      BY <2>0, <3>1
    <3>3. Head1[1] # Wheels
      <4>1. 1 \in 1 .. Wheels /\ Wheels # 1
        BY WheelsAssumption
      <4>2. QED BY <1>1, <4>1, Basics, SlotFacts DEF Head1
    <3>4. PICK e \in Nat : e = timer[cur].expires /\ Placed(SlotAt(1, tick), e, tick, n)
      BY <3>2, <3>3 DEF Sits, Head1
    <3>5. QED BY <1>1, <3>4, Basics, RunNow
  <2>3. QED BY <2>1, <2>2 DEF OnTime
<1>2. QED BY <1>1, AlwaysWheel, PTL

\* A timer whose count fits into 32 bits with a sign, and that is not deleted, has run as often as
\* asked when it is freed, and never oftener, crashes in its callback included.
THEOREM CountsRight == Spec => RunsAsAsked
<1>1. ASSUME WheelInv, [Next]_vars, NEW t \in live
      PROVE  /\ t \in live' => asked'[t] = asked[t]
             /\ t \notin live' => Spent(t) \/ t \in deleted'
  <2>0. asked \in [Timers -> Nums \cup {0}] /\ t \in Timers /\ live \in SUBSET Timers
    BY <1>1, Basics
  <2>1. ASSUME NEW x \in Timers, NEW first \in Firsts, NEW interval \in Intervals, NEW num \in Nums,
               NEW to_head \in Heads, add(x, first, interval, num, to_head)
        PROVE  t \in live' /\ asked'[t] = asked[t]
    <3>1. x \notin live
      <4>1. x = FreeNode
        BY <2>1 DEF add
      <4>2. QED BY <2>0, <4>1, FreeFound
    <3>2. live' = live \cup {x} /\ asked' = [asked EXCEPT ![x] = num]
      BY <2>1 DEF add, NewTimer
    <3>3. QED BY <2>0, <3>1, <3>2
  <2>2. ASSUME NEW u, NEW s, Unlink(u, s)
        PROVE  /\ t \in live' => asked'[t] = asked[t]
               /\ t \notin live' => t = u
    BY <2>0, <2>2 DEF Unlink
  <2>3. ASSUME NEW x \in Timers, del(x)
        PROVE  /\ t \in live' => asked'[t] = asked[t]
               /\ t \notin live' => t \in deleted'
    <3>1. deleted' = deleted \cup {x} /\ (Unlink(x, where[x]) \/ UNCHANGED <<live, asked>>)
      BY <2>3 DEF del
    <3>2. QED BY <2>2, <3>1
  <2>4. CASE DropCrashed
    <3>1. PICK u : Unlink(u, Head1) /\ Spent(u)
      BY <2>4 DEF DropCrashed
    <3>2. QED BY <2>2, <3>1
  <2>5. CASE EndCallback
    <3>1. (Spent(cur) /\ Unlink(cur, Head1)) \/ UNCHANGED <<live, asked>>
      BY <2>5 DEF EndCallback
    <3>2. QED BY <2>2, <3>1
  <2>6. CASE BeginTick \/ StartCallback \/ EndTick \/ Crash \/ UNCHANGED vars
    BY <2>6 DEF BeginTick, StartCallback, CallbackOf, EndTick, Crash, vars
  <2>7. QED BY <1>1, <2>1, <2>3, <2>4, <2>5, <2>6 DEF Next, Run
<1>2. ASSUME WheelInv, [Next]_vars, NEW t \in live, t \notin deleted' PROVE t \notin deleted
  <2>1. ASSUME NEW x \in Timers, NEW first \in Firsts, NEW interval \in Intervals, NEW num \in Nums,
               NEW to_head \in Heads, add(x, first, interval, num, to_head)
        PROVE  t \notin deleted
    <3>1. x \notin live /\ deleted' = deleted \ {x}
      <4>1. x = FreeNode /\ deleted' = deleted \ {x}
        BY <2>1 DEF add, NewTimer
      <4>2. QED BY <1>2, <4>1, Basics, FreeFound
    <3>2. QED BY <1>2, <3>1
  <2>2. ASSUME NEW x \in Timers, del(x) PROVE t \notin deleted
    BY <1>2, <2>2 DEF del
  <2>3. CASE Run \/ BeginTick \/ Crash \/ UNCHANGED vars
    BY <1>2, <2>3 DEF Run, DropCrashed, BeginTick, StartCallback, CallbackOf, EndCallback, EndTick, Crash, vars
  <2>4. QED BY <1>2, <2>1, <2>2, <2>3 DEF Next
<1>3. ASSUME WheelInv, WheelInv', [Next]_vars, NEW t \in live, asked[t] < Half PROVE CountKept(t)
  <2>1. SUFFICES ASSUME asked[t] # 0, t \notin deleted'
                 PROVE  IF t \in live' THEN runs'[t] <= asked[t] ELSE runs[t] = asked[t]
    BY DEF CountKept
  <2>2. PICK a \in Nat, n \in Nat, r \in Int : a = asked[t] /\ n = runs[t] /\ r = timer[t].repeats
    <3>1. t \in Timers /\ asked[t] \in Nums \cup {0} /\ runs[t] \in Nat /\ timer[t].repeats \in Int
      BY <1>3, Basics, FieldTypes
    <3>2. \A x \in Nums \cup {0} : x \in Nat
      BY ArgumentsAssumption, WordFacts
    <3>3. QED BY <3>1, <3>2
  <2>3. CASE t \in live'
    <3>1. Counted(t)' /\ asked'[t] = a /\ Half' = Half
      <4>1. \A u \in live' : Counted(u)'
        BY <1>3 DEF WheelInv, RunningInv
      <4>2. QED BY <1>1, <1>3, <2>2, <2>3, <4>1 DEF Half
    <3>2. timer'[t].repeats = a - runs'[t] /\ timer'[t].repeats >= 0
      BY <1>3, <2>1, <2>2, <3>1 DEF Counted
    <3>3. PICK k \in Nat : k = runs'[t]
      BY <1>3, <2>3 DEF WheelInv, TypeOK
    <3>4. k <= a
      BY <3>2, <3>3
    <3>5. QED BY <2>2, <2>3, <3>3, <3>4
  <2>4. CASE t \notin live'
    <3>1. r <= 0
      BY <1>1, <1>3, <2>1, <2>2, <2>4 DEF Spent
    <3>2. r = a - n /\ r >= 0
      BY <1>2, <1>3, <2>1, <2>2, Basics DEF Counted
    <3>3. QED BY <2>2, <2>4, <3>1, <3>2
  <2>5. QED BY <2>3, <2>4
<1>4. WheelInv /\ WheelInv' /\ [Next]_vars => [\A t \in live : asked[t] < Half => CountKept(t)]_vars
  BY <1>3
<1>5. QED BY <1>4, AlwaysWheel, PTL DEF Spec, RunsAsAsked

\* After del the callback is not started again, not even by a restart after a crash in it.
THEOREM StaysDeleted == Spec => DeletedStaysDead
<1>1. ASSUME WheelInv, [Next]_vars, NEW t \in deleted, cur' = t PROVE cur = t
  <2>1. CASE StartCallback
    <3>1. PICK u : u = Head(lists[Head1]) /\ lists[Head1] # <<>> /\ ~(timer[u].is_running /\ Spent(u)) /\ cur' = u
      BY <2>1 DEF StartCallback, CallbackOf
    <3>2. u \in live
      BY <1>1, <3>1, HeadTimer
    <3>3. u \notin deleted
      BY <1>1, <3>1, <3>2, RunsToGo
    <3>4. QED BY <1>1, <3>1, <3>3
  <2>2. t # None
    <3>1. deleted \subseteq Timers
      BY <1>1, Basics DEF TypeOK
    <3>2. QED BY <3>1, WheelsAssumption DEF None, Timers
  <2>3. CASE ~StartCallback
    BY <1>1, <2>2, <2>3 DEF Next, Run, add, NewTimer, del, BeginTick, DropCrashed, EndCallback, EndTick, Crash, vars
  <2>4. QED BY <2>1, <2>3
<1>2. WheelInv /\ [Next]_vars => [\A t \in deleted : cur' = t => cur = t]_vars
  BY <1>1
<1>3. QED BY <1>2, AlwaysWheel, PTL DEF Spec, DeletedStaysDead
=============================================================================
