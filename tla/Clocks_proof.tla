------------------------------- MODULE Clocks_proof -------------------------------
(***************************************************************************)
(* Proofs about the two clocks that programs read.  First the uptime and   *)
(* the date (RtcTest, DeviceTest), for every width of the register, every  *)
(* number of date fields and every lag of the program's loop; then the     *)
(* cycle counter (CycleCounter) and the timer on top of it (SignalTimer),  *)
(* for every width of the CSRs and every bound.                            *)
(***************************************************************************)
EXTENDS DeviceTest, SignalTimer, WellFoundedInduction, TLAPS

(* A set of natural numbers that is not empty has a least element.         *)
LEMMA LeastNat ==
  ASSUME NEW T \in SUBSET Nat, T # {}
  PROVE  \E n \in T : \A m \in T : n <= m
  <1> DEFINE R == OpToRel(<, Nat)
  <1>1. IsWellFoundedOn(R, Nat)
    BY NatLessThanWellFounded
  <1>2. \A n, m \in Nat : ~(<<m, n>> \in R) => n <= m
    BY DEF OpToRel
  <1> HIDE DEF R
  <1>3. PICK n \in T : \A m \in T : ~(<<m, n>> \in R)
    BY <1>1, WFMin
  <1> QED BY <1>2, <1>3

(* Quotient and remainder, and that no other numbers are.                  *)
LEMMA DivMod ==
  ASSUME NEW a \in Nat, NEW m \in Nat \ {0}
  PROVE  /\ a \div m \in Nat /\ a % m \in 0..(m - 1)
         /\ a = m * (a \div m) + (a % m)
  OBVIOUS

LEMMA Quotient ==
  ASSUME NEW a \in Nat, NEW m \in Nat \ {0}, NEW q \in Int, NEW r \in 0..(m - 1),
         a = m * q + r
  PROVE  q = a \div m /\ r = a % m
  OBVIOUS

LEMMA ByOne == \A a \in Nat : 1 * (a \div 1) = a
  OBVIOUS

(* A bound of a quotient is one of the number.                             *)
LEMMA TimesQuotient ==
  ASSUME NEW a \in Nat, NEW m \in Nat \ {0}
  PROVE  /\ a \div m \in Nat /\ (a \div m) * m <= a
         /\ \A q \in Nat : q <= a \div m <=> q * m <= a
  OBVIOUS

LEMMA Remainder ==
  ASSUME NEW a \in Nat, NEW m \in Nat \ {0}
  PROVE  a % m \in 0..(m - 1) /\ a % m <= a /\ (a < m => a % m = a)
  OBVIOUS

LEMMA NegativeRemainder ==
  ASSUME NEW m \in Nat \ {0}, NEW a \in Int, a < 0, a + m >= 0
  PROVE  a % m = a + m
  OBVIOUS

LEMMA Times ==
  ASSUME NEW a \in Nat, NEW b \in Nat
  PROVE  a * b \in Nat /\ (a # 0 /\ b # 0 => a * b # 0)
  OBVIOUS

LEMMA TimesMonotone ==
  ASSUME NEW a \in Int, NEW b \in Int, NEW m \in Nat, a <= b
  PROVE  m * a <= m * b
  OBVIOUS

LEMMA DivMonotone ==
  ASSUME NEW a \in Nat, NEW b \in Nat, NEW m \in Nat \ {0}, a <= b
  PROVE  a \div m <= b \div m
  OBVIOUS

LEMMA DivDiv ==
  ASSUME NEW a \in Nat, NEW m \in Nat \ {0}, NEW k \in Nat \ {0}
  PROVE  /\ m * k \in Nat \ {0}
         /\ a \div (m * k) = (a \div m) \div k
  <1> DEFINE q == a \div m
             r == a % m
             p == q \div k
             t == q % k
  <1>1. q \in Nat /\ r \in 0..(m - 1) /\ a = m * q + r
    BY DivMod
  <1>2. p \in Nat /\ t \in 0..(k - 1) /\ q = k * p + t
    BY <1>1, DivMod
  <1>3. m * k \in Nat \ {0}
    BY Times
  <1> HIDE DEF q, r, p, t
  <1>4. a = (m * k) * p + (m * t + r)
    BY <1>1, <1>2
  <1>5. m * t + r \in 0..(m * k - 1)
    <2>1. m * t <= m * (k - 1)
      BY <1>2, TimesMonotone
    <2>2. m * t \in Nat
      BY <1>2, Times
    <2>3. m * (k - 1) = m * k - m
      OBVIOUS
    <2> QED BY <1>1, <1>2, <1>3, <2>1, <2>2, <2>3
  <1>6. p = a \div (m * k)
    BY <1>2, <1>3, <1>4, <1>5, Quotient
  <1> QED BY <1>3, <1>6 DEF p, q

(* A function can be defined by recursion.                                 *)
Recurs(f, a, h, n) ==
  /\ f \in [0..n -> Nat] /\ f[0] = a
  /\ \A k \in 1..n : f[k] = h[<<f[k - 1], k>>]

LEMMA Recursion ==
  ASSUME NEW a \in Nat, NEW h \in [Nat \X Nat -> Nat], NEW n \in Nat
  PROVE  \E f : Recurs(f, a, h, n)
  <1> DEFINE Defined(m) == \E f : Recurs(f, a, h, m)
             Undefined == {m \in Nat : ~Defined(m)}
  <1> SUFFICES ASSUME Undefined # {}
               PROVE  FALSE
    OBVIOUS
  <1>1. Undefined \in SUBSET Nat
    OBVIOUS
  <1>2. PICK m \in Undefined : \A i \in Undefined : m <= i
    BY <1>1, LeastNat
  <1>3. m \in Nat /\ ~Defined(m)
    OBVIOUS
  <1>4. CASE m = 0
    <2> DEFINE f == [k \in 0..0 |-> a]
    <2>1. Recurs(f, a, h, m)
      BY <1>4 DEF Recurs
    <2> QED BY <1>3, <2>1
  <1>5. CASE m # 0
    <2>1. m - 1 \in Nat /\ ~(m <= m - 1)
      BY <1>3, <1>5
    <2>2. Defined(m - 1)
      BY <1>2, <2>1
    <2>3. PICK f \in [0..(m - 1) -> Nat] :
            f[0] = a /\ \A k \in 1..(m - 1) : f[k] = h[<<f[k - 1], k>>]
      BY <2>2 DEF Recurs
    <2> DEFINE g == [k \in 0..m |-> IF k = m THEN h[<<f[m - 1], m>>] ELSE f[k]]
    <2>4. g \in [0..m -> Nat]
      <3>1. f[m - 1] \in Nat
        BY <2>1, <2>3
      <3>2. h[<<f[m - 1], m>>] \in Nat
        BY <1>3, <3>1
      <3>3. \A k \in 0..m : k # m => k \in 0..(m - 1)
        BY <1>3
      <3> QED BY <2>3, <3>2, <3>3
    <2>5. g[0] = a /\ \A k \in 1..m : g[k] = h[<<g[k - 1], k>>]
      <3>1. g[0] = a
        BY <1>3, <1>5, <2>3
      <3>2. ASSUME NEW k \in 1..m
            PROVE  g[k] = h[<<g[k - 1], k>>]
        <4>1. k - 1 \in 0..m /\ k - 1 # m /\ k \in 0..m
          BY <1>3
        <4>2. g[k - 1] = f[k - 1]
          BY <4>1
        <4>3. CASE k = m
          BY <4>1, <4>2, <4>3
        <4>4. CASE k # m
          <5>1. k \in 1..(m - 1)
            BY <1>3, <4>4
          <5>2. g[k] = f[k]
            BY <4>1, <4>4
          <5> QED BY <2>3, <4>2, <5>1, <5>2
        <4> QED BY <4>3, <4>4
      <3> QED BY <3>1, <3>2
    <2>6. Recurs(g, a, h, m)
      BY <2>4, <2>5 DEF Recurs
    <2> QED BY <1>3, <2>6
  <1> QED BY <1>4, <1>5

-----------------------------------------------------------------------------
LEMMA WeightDef ==
  Weight = [k \in Fields |-> IF k = 1 THEN 1 ELSE Weight[k - 1] * Radix[k - 1]]
  <1> DEFINE n == Len(Radix)
             h == [x \in Nat \X Nat |-> IF x[2] \in 1..n THEN x[1] * Radix[x[2]] ELSE 0]
  <1>1. n \in Nat /\ \A k \in 1..n : Radix[k] \in Nat \ {0}
    BY RadixAssumption
  <1>2. h \in [Nat \X Nat -> Nat]
    <2>1. ASSUME NEW x \in Nat \X Nat
          PROVE  (IF x[2] \in 1..n THEN x[1] * Radix[x[2]] ELSE 0) \in Nat
      BY <1>1, Times
    <2> QED BY <2>1
  <1>3. \A w \in Nat : \A k \in 1..n : h[<<w, k>>] = w * Radix[k]
    BY <1>1
  <1> HIDE DEF h, n
  <1>4. PICK f \in [0..n -> Nat] : f[0] = 1 /\ \A k \in 1..n : f[k] = h[<<f[k - 1], k>>]
    <2>1. 1 \in Nat /\ n \in Nat
      BY <1>1
    <2>2. PICK f : Recurs(f, 1, h, n)
      BY <1>2, <2>1, Recursion
    <2> QED BY <2>2 DEF Recurs
  <1> USE DEF n
  <1> DEFINE g == [k \in Fields |-> f[k - 1]]
  <1>5. g = [k \in Fields |-> IF k = 1 THEN 1 ELSE g[k - 1] * Radix[k - 1]]
    <2>1. ASSUME NEW k \in Fields
          PROVE  f[k - 1] = IF k = 1 THEN 1 ELSE g[k - 1] * Radix[k - 1]
      <3>1. CASE k = 1
        BY <1>4, <3>1
      <3>2. CASE k # 1
        <4>1. k - 1 \in 1..n /\ k - 1 \in Fields /\ (k - 1) - 1 \in 0..n
          BY <1>1, <3>2 DEF Fields
        <4>2. g[k - 1] = f[(k - 1) - 1]
          BY <4>1
        <4>3. f[k - 1] = h[<<f[(k - 1) - 1], k - 1>>] /\ f[(k - 1) - 1] \in Nat
          BY <1>4, <4>1
        <4> HIDE DEF g
        <4> QED BY <1>3, <3>2, <4>1, <4>2, <4>3
      <3> QED BY <3>1, <3>2
    <2> QED BY <2>1
  <1> HIDE DEF g
  <1>6. Weight = CHOOSE w : w = [k \in Fields |-> IF k = 1 THEN 1 ELSE w[k - 1] * Radix[k - 1]]
    BY DEF Weight
  <1> QED BY <1>5, <1>6, Zenon

(* The unit of each field is a multiple of the one before.                 *)
LEMMA Weights ==
  /\ Fields \subseteq Nat /\ Len(Radix) \in Nat /\ 1 \in Fields /\ Len(Radix) + 1 \in Fields
  /\ Weight[1] = 1
  /\ \A k \in Fields : Weight[k] \in Nat \ {0}
  /\ \A k \in 1..Len(Radix) :
       /\ k \in Fields /\ k + 1 \in Fields
       /\ Radix[k] \in Nat \ {0}
       /\ Weight[k + 1] = Weight[k] * Radix[k]
  <1>1. /\ Fields \subseteq Nat /\ Len(Radix) \in Nat /\ 1 \in Fields
        /\ Len(Radix) + 1 \in Fields
        /\ \A k \in 1..Len(Radix) : k \in Fields /\ k + 1 \in Fields /\ Radix[k] \in Nat \ {0}
    BY RadixAssumption DEF Fields
  <1>2. Weight[1] = 1
    BY <1>1, WeightDef
  <1>3. ASSUME NEW k \in 1..Len(Radix)
        PROVE  Weight[k + 1] = Weight[k] * Radix[k]
    <2>1. k + 1 \in Fields /\ k + 1 # 1 /\ (k + 1) - 1 = k
      BY <1>1
    <2> QED BY <2>1, WeightDef
  <1>4. ASSUME NEW i \in Fields, Weight[i] \notin Nat \ {0}
        PROVE  FALSE
    <2> DEFINE Bad == {k \in Fields : Weight[k] \notin Nat \ {0}}
    <2>1. Bad \in SUBSET Nat /\ Bad # {}
      BY <1>1, <1>4
    <2>2. PICK k \in Bad : \A m \in Bad : k <= m
      BY <2>1, LeastNat
    <2>3. k # 1
      BY <1>2
    <2>4. k - 1 \in 1..Len(Radix) /\ k = (k - 1) + 1 /\ ~(k <= k - 1)
      BY <1>1, <2>3 DEF Fields
    <2>5. Weight[k - 1] \in Nat \ {0}
      BY <1>1, <2>2, <2>4
    <2>6. Weight[k] = Weight[k - 1] * Radix[k - 1] /\ Radix[k - 1] \in Nat \ {0}
      BY <1>1, <1>3, <2>4
    <2> QED BY <2>5, <2>6, Times
  <1> QED BY <1>1, <1>2, <1>3, <1>4

-----------------------------------------------------------------------------
(* The sums of the first j fields.                                         *)
Sums(u, d, j) ==
  /\ u \in [0..j -> Nat] /\ u[0] = 0
  /\ \A k \in 1..j : u[k] = u[k - 1] + d[k] * Weight[k]

LEMMA SumIsSpelled ==
  ASSUME NEW d \in [Fields -> Nat], NEW u, Sums(u, d, Len(Radix) + 1)
  PROVE  Spelled(d) = u[Len(Radix) + 1]
  <1> DEFINE n == Len(Radix) + 1
             upto == CHOOSE f : f = [k \in 0..n |->
                       IF k = 0 THEN 0 ELSE f[k - 1] + d[k] * Weight[k]]
  <1>1. Len(d) = n /\ n \in Nat
    <2>1. n \in Nat /\ Fields = 1..n
      BY Weights DEF Fields
    <2>2. d \in Seq(Nat)
      BY <2>1
    <2> QED BY <2>1, <2>2
  <1>2. Spelled(d) = upto[n]
    BY <1>1 DEF Spelled
  <1>3. u = [k \in 0..n |-> IF k = 0 THEN 0 ELSE u[k - 1] + d[k] * Weight[k]]
    <2>1. ASSUME NEW k \in 0..n
          PROVE  u[k] = IF k = 0 THEN 0 ELSE u[k - 1] + d[k] * Weight[k]
      <3>1. k # 0 => k \in 1..n
        BY <1>1
      <3> QED BY <3>1 DEF Sums
    <2> QED BY <2>1 DEF Sums
  <1>4. upto = [k \in 0..n |-> IF k = 0 THEN 0 ELSE upto[k - 1] + d[k] * Weight[k]]
    BY <1>3, Zenon
  <1> HIDE DEF upto
  <1> DEFINE Wrong == {k \in 0..n : upto[k] # u[k]}
  <1>5. ASSUME Wrong # {}
        PROVE  FALSE
    <2>1. Wrong \in SUBSET Nat
      BY <1>1
    <2>2. PICK k \in Wrong : \A m \in Wrong : k <= m
      BY <1>5, <2>1, LeastNat
    <2>3. k # 0
      BY <1>1, <1>4 DEF Sums
    <2>4. k \in 1..n /\ k - 1 \in 0..n /\ ~(k <= k - 1)
      BY <1>1, <2>3
    <2>5. upto[k - 1] = u[k - 1]
      BY <2>2, <2>4
    <2>6. upto[k] = upto[k - 1] + d[k] * Weight[k]
      BY <1>4, <2>3
    <2> QED BY <2>4, <2>5, <2>6 DEF Sums
  <1> QED BY <1>1, <1>2, <1>5

(* A field and the ones above it make up the date above the one below.     *)
LEMMA FieldSplits ==
  ASSUME NEW x \in Nat
  PROVE  /\ \A k \in Fields : Field(k, x) \in Nat /\ x \div Weight[k] \in Nat
         /\ \A k \in 1..Len(Radix) :
              /\ x \div Weight[k + 1] = (x \div Weight[k]) \div Radix[k]
              /\ x \div Weight[k] = Radix[k] * (x \div Weight[k + 1]) + Field(k, x)
              /\ Weight[k] * (x \div Weight[k]) =
                   Field(k, x) * Weight[k] + Weight[k + 1] * (x \div Weight[k + 1])
         /\ Field(Len(Radix) + 1, x) = x \div Weight[Len(Radix) + 1]
  <1>1. \A k \in Fields : x \div Weight[k] \in Nat
    BY Weights, DivMod
  <1>2. Field(Len(Radix) + 1, x) = x \div Weight[Len(Radix) + 1]
    <2>1. Len(Radix) \in Nat /\ ~(Len(Radix) + 1 <= Len(Radix))
      BY Weights
    <2> QED BY <2>1 DEF Field
  <1>3. ASSUME NEW k \in 1..Len(Radix)
        PROVE  /\ Field(k, x) \in Nat
               /\ x \div Weight[k + 1] = (x \div Weight[k]) \div Radix[k]
               /\ x \div Weight[k] = Radix[k] * (x \div Weight[k + 1]) + Field(k, x)
               /\ Weight[k] * (x \div Weight[k]) =
                    Field(k, x) * Weight[k] + Weight[k + 1] * (x \div Weight[k + 1])
    <2> DEFINE w == Weight[k]
               r == Radix[k]
               q == x \div w
    <2>1. w \in Nat \ {0} /\ r \in Nat \ {0} /\ Weight[k + 1] = w * r
      BY Weights
    <2>2. x \div (w * r) = q \div r /\ q \in Nat
      <3> HIDE DEF w, r
      <3>1. x \div (w * r) = (x \div w) \div r
        <4>1. w \in Nat \ {0} /\ r \in Nat \ {0} /\ x \in Nat
          BY <2>1
        <4>2. \A a \in Nat : \A m, h \in Nat \ {0} : a \div (m * h) = (a \div m) \div h
          BY DivDiv
        <4> QED BY <4>1, <4>2
      <3>2. x \div w \in Nat
        BY <2>1, DivMod
      <3> QED BY <3>1, <3>2
    <2>3. Field(k, x) = q % r
      <3>1. k <= Len(Radix)
        BY Weights
      <3> QED BY <3>1 DEF Field
    <2> HIDE DEF q, r, w
    <2>4. q \div r \in Nat /\ q % r \in Nat /\ q = r * (q \div r) + (q % r)
      <3>1. q \in Nat /\ r \in Nat \ {0} /\ r \in Nat
        BY <2>1, <2>2
      <3>2. q \div r \in Nat /\ q % r \in 0..(r - 1) /\ q = r * (q \div r) + (q % r)
        BY <3>1, DivMod
      <3> QED BY <3>1, <3>2
    <2>5. w * q = (q % r) * w + (w * r) * (q \div r)
      <3> DEFINE s == q \div r
                 t == q % r
      <3>1. s \in Nat /\ t \in Nat /\ q = r * s + t /\ w \in Nat /\ r \in Nat
        BY <2>1, <2>4
      <3> HIDE DEF s, t
      <3>2. w * (r * s + t) = t * w + (w * r) * s
        BY <3>1
      <3> QED BY <3>1, <3>2 DEF s, t
    <2> QED BY <2>1, <2>2, <2>3, <2>4, <2>5 DEF q, r, w
  <1>4. \A k \in Fields : Field(k, x) \in Nat
    <2> SUFFICES ASSUME NEW k \in Fields
                 PROVE  Field(k, x) \in Nat
      OBVIOUS
    <2>1. k \in 1..Len(Radix) \/ k = Len(Radix) + 1
      <3>1. Len(Radix) \in Nat
        BY Weights
      <3> QED BY <3>1 DEF Fields
    <2> QED BY <1>1, <1>2, <1>3, <2>1
  <1> QED BY <1>1, <1>2, <1>3, <1>4

(* Dates whose fields from the second up are the same agree in all their   *)
(* quotients from there up: by induction from the last field down.         *)
LEMMA SameFields ==
  ASSUME NEW x \in Nat, NEW y \in Nat, \A k \in Fields \ {1} : Field(k, x) = Field(k, y)
  PROVE  \A k \in Fields \ {1} : x \div Weight[k] = y \div Weight[k]
  <1> DEFINE n == Len(Radix) + 1
             Wrong == {m \in 0..n : n - m \in Fields \ {1}
                                   /\ x \div Weight[n - m] # y \div Weight[n - m]}
  <1>0. n \in Nat /\ Fields = 1..n
    BY Weights DEF Fields
  <1>1. ASSUME NEW k \in Fields \ {1}, x \div Weight[k] # y \div Weight[k]
        PROVE  FALSE
    <2>1. n - k \in 0..n /\ n - (n - k) = k
      BY <1>0
    <2>2. n - k \in Wrong /\ Wrong \in SUBSET Nat
      <3>1. Wrong \in SUBSET Nat
        BY <1>0
      <3> HIDE DEF n
      <3>2. n - k \in Wrong
        BY <1>1, <2>1
      <3> QED BY <3>1, <3>2
    <2>3. PICK m \in Wrong : \A i \in Wrong : m <= i
      BY <2>2, LeastNat
    <2> DEFINE j == n - m
    <2>4. m \in 0..n /\ j \in Fields \ {1} /\ x \div Weight[j] # y \div Weight[j]
      BY <2>3
    <2>5. CASE m = 0
      <3>1. j = n
        BY <1>0, <2>5
      <3>2. Field(n, x) = x \div Weight[n] /\ Field(n, y) = y \div Weight[n]
        BY FieldSplits
      <3> HIDE DEF j, n
      <3> QED BY <2>4, <3>1, <3>2
    <2>6. CASE m # 0
      <3>1. /\ m - 1 \in 0..n /\ ~(m <= m - 1) /\ n - (m - 1) = j + 1
            /\ j \in 1..Len(Radix) /\ j + 1 \in Fields \ {1}
        BY <1>0, <2>4, <2>6
      <3>2. x \div Weight[j + 1] = y \div Weight[j + 1]
        BY <2>3, <3>1
      <3>3. Field(j, x) = Field(j, y)
        BY <2>4
      <3>4. /\ x \div Weight[j] = Radix[j] * (x \div Weight[j + 1]) + Field(j, x)
            /\ y \div Weight[j] = Radix[j] * (y \div Weight[j + 1]) + Field(j, y)
        <4> HIDE DEF j
        <4> QED BY <3>1, FieldSplits
      <3> HIDE DEF j
      <3> QED BY <2>4, <3>2, <3>3, <3>4
    <2> QED BY <2>5, <2>6
  <1> QED BY <1>1

LEMMA SameAbove ==
  ASSUME NEW x \in Nat, NEW y \in Nat, NEW z \in Nat, x <= y, y <= z, NEW k \in Fields,
         x \div Weight[k] = z \div Weight[k]
  PROVE  x \div Weight[k] = y \div Weight[k]
  <1> DEFINE w == Weight[k]
  <1>1. w \in Nat \ {0}
    BY Weights
  <1> HIDE DEF w
  <1>2. /\ x \div w <= y \div w /\ y \div w <= z \div w
        /\ x \div w \in Nat /\ y \div w \in Nat /\ z \div w \in Nat
    BY <1>1, DivMonotone, DivMod
  <1>3. x \div w = z \div w
    BY DEF w
  <1> QED BY <1>2, <1>3 DEF w

-----------------------------------------------------------------------------
(* What is known of rtc_test.  The last poll, at now - late, came before   *)
(* the second to be printed was over, or at most one turn after it; the    *)
(* register shows all of the time as long as sec is one it can show.       *)
OnTime ==
  /\ late <= now
  /\ phase = "poll" /\ sec <= LastSecond => now - late < sec * Second
  /\ phase # "poll" => /\ sec <= LastSecond
                       /\ sec * Second <= now - late
                       /\ now - late < sec * Second + MaxLag
  /\ phase # "rtc" => field = 1

(* The fields read and, for the rest, the date of now spell a date that is *)
(* not behind the start of the read, and not ahead of now as long as no    *)
(* field but the seconds rolled over.                                      *)
Done       == IF phase = "print" THEN Len(Radix) + 1 ELSE field - 1
Rest(date) == IF phase = "print" THEN 0 ELSE Weight[field] * (date \div Weight[field])
Same(date) == \A k \in Fields \ {1} : asked \div Weight[k] = date \div Weight[k]

Spells(u, date) ==
  /\ Sums(u, rtc, Done)
  /\ u[Done] + Rest(date) >= asked
  /\ Same(date) => u[Done] + Rest(date) <= date

DateRead == phase # "poll" => asked <= Date /\ \E u : Spells(u, Date)

RtcInv == RtcTypeOK /\ OnTime /\ DateRead

LEMMA Dates ==
  ASSUME RtcTypeOK
  PROVE  /\ boot \in Nat /\ now \in Nat /\ late \in Nat /\ sec \in Nat /\ Date \in Nat
         /\ field \in Fields /\ Second \in Nat \ {0} /\ asked \in Nat
  <1>1. /\ boot \in Nat /\ now \in Nat /\ late \in Nat /\ field \in Fields
        /\ Second \in Nat \ {0} /\ asked \in Nat /\ sec \in Nat
    BY SecondAssumption, BootsAssumption, LagAssumption DEF RtcTypeOK
  <1>2. boot + now \in Nat
    BY <1>1
  <1> HIDE DEF Date
  <1>3. (boot + now) \div Second \in Nat
    BY <1>1, <1>2, DivMod
  <1> QED BY <1>1, <1>3 DEF Date

LEMMA InitRtc == RtcInit => RtcInv
  <1> SUFFICES ASSUME RtcInit
               PROVE  RtcInv
    OBVIOUS
  <1>1. LastSecond \in Nat
    <2>1. Wrap - 1 \in Nat /\ Second \in Nat \ {0}
      BY SecondAssumption
    <2> QED BY <2>1, DivMod DEF LastSecond
  <1>2. RtcTypeOK
    BY <1>1, Weights, BootsAssumption, LagAssumption DEF RtcInit, RtcTypeOK
  <1>3. OnTime
    BY SecondAssumption DEF RtcInit, OnTime
  <1> QED BY <1>2, <1>3 DEF RtcInit, RtcInv, DateRead

LEMMA ElapseRtc ==
  ASSUME RtcInv, Elapse
  PROVE  RtcInv'
  <1>1. /\ now' = now + 1 /\ late' = late + 1 /\ now < MaxNow /\ late < MaxLag
        /\ UNCHANGED <<boot, phase, sec, field, rtc, asked>>
    BY DEF Elapse
  <1>2. RtcTypeOK
    BY DEF RtcInv
  <1>3. /\ boot \in Nat /\ now \in Nat /\ late \in Nat /\ sec \in Nat /\ Date \in Nat
        /\ field \in Fields /\ Second \in Nat \ {0} /\ asked \in Nat
    BY <1>2, Dates
  <1>4. RtcTypeOK'
    BY <1>1, <1>2, <1>3, BootsAssumption, LagAssumption DEF RtcTypeOK, Fields, LastSecond
  <1>5. OnTime'
    <2>1. now' - late' = now - late
      BY <1>1, <1>3
    <2>2. LastSecond' = LastSecond
      BY DEF LastSecond
    <2> QED BY <1>1, <1>3, <2>1, <2>2 DEF RtcInv, OnTime
  <1>6. Date' \in Nat /\ Date <= Date'
    <2>1. boot + now \in Nat /\ boot + now' \in Nat /\ boot + now <= boot + now'
      BY <1>1, <1>3
    <2>2. Date' = (boot + now') \div Second /\ Date = (boot + now) \div Second
      BY <1>1 DEF Date
    <2> QED BY <1>3, <2>1, <2>2, DivMonotone, DivMod
  <1>7. ASSUME phase # "poll"
        PROVE  asked <= Date' /\ \E u : Spells(u, Date)'
    <2>1. asked <= Date /\ \E u : Spells(u, Date)
      BY <1>7 DEF RtcInv, DateRead
    <2>2. PICK u : Spells(u, Date)
      BY <2>1
    <2>3. Done' = Done /\ Sums(u, rtc, Done) /\ u[Done] \in Nat
      <3>1. Done \in Nat
        BY <1>3, Weights DEF Done, Fields
      <3> QED BY <1>1, <2>2, <3>1 DEF Done, Spells, Sums
    <2>4. Rest(Date) \in Nat /\ Rest(Date)' \in Nat /\ Rest(Date) <= Rest(Date)'
      <3>1. CASE phase = "print"
        BY <1>1, <3>1 DEF Rest
      <3>2. CASE phase # "print"
        <4> DEFINE w == Weight[field]
                   q == Date \div w
                   p == Date' \div w
        <4>1. w \in Nat \ {0}
          BY <1>3, Weights
        <4>2. Rest(Date) = w * q /\ Rest(Date)' = w * p
          BY <1>1, <3>2 DEF Rest
        <4> HIDE DEF w
        <4>3. q \in Nat /\ p \in Nat /\ q <= p
          BY <1>3, <1>6, <4>1, DivMod, DivMonotone
        <4> HIDE DEF q, p
        <4> QED BY <4>1, <4>2, <4>3, Times, TimesMonotone
      <3> QED BY <3>1, <3>2
    <2>5. ASSUME NEW k \in Fields \ {1}, Same(Date)'
          PROVE  /\ asked \div Weight[k] = Date \div Weight[k]
                 /\ Date' \div Weight[k] = Date \div Weight[k]
      <3>1. asked \div Weight[k] = Date' \div Weight[k]
        BY <1>1, <2>5 DEF Same
      <3>2. asked \div Weight[k] = Date \div Weight[k]
        BY <1>3, <1>6, <2>1, <3>1, SameAbove
      <3> QED BY <3>1, <3>2
    <2>6. ASSUME Same(Date)'
          PROVE  u[Done] + Rest(Date)' <= Date'
      <3>1. u[Done] + Rest(Date) <= Date
        BY <2>2, <2>5, <2>6 DEF Spells, Same
      <3>2. CASE phase = "print" \/ field \in Fields \ {1}
        <4>1. Rest(Date)' = Rest(Date)
          BY <1>1, <2>5, <2>6, <3>2 DEF Rest
        <4> QED BY <1>3, <1>6, <2>3, <2>4, <3>1, <4>1
      <3>3. CASE phase # "print" /\ field = 1
        <4>1. Done = 0 /\ u[Done] = 0
          BY <2>2, <3>3 DEF Done, Spells, Sums
        <4>2. Rest(Date)' = 1 * (Date' \div 1)
          BY <1>1, <3>3, Weights DEF Rest
        <4>3. Rest(Date)' = Date'
          BY <1>6, <4>2, ByOne
        <4>4. u[Done] + Rest(Date)' = 0 + Date' /\ Date' \in Nat
          BY <1>6, <4>1, <4>3
        <4> QED BY <4>4
      <3> QED BY <1>3, <3>2, <3>3
    <2>7. asked <= Date' /\ u[Done] + Rest(Date)' >= asked
      BY <1>3, <1>6, <2>1, <2>2, <2>3, <2>4 DEF Spells
    <2>8. Spells(u, Date)'
      BY <1>1, <2>3, <2>6, <2>7 DEF Spells, Sums
    <2> QED BY <2>7, <2>8
  <1> QED BY <1>1, <1>4, <1>5, <1>7 DEF RtcInv, DateRead

LEMMA PollRtc ==
  ASSUME RtcInv, Poll
  PROVE  RtcInv'
  <1>1. /\ phase = "poll" /\ phase' = (IF Due THEN "rtc" ELSE "poll")
        /\ late' = 0 /\ asked' = Date
        /\ UNCHANGED <<boot, now, sec, field, rtc>>
    BY DEF Poll
  <1>2. RtcTypeOK /\ OnTime
    BY DEF RtcInv
  <1>3. /\ boot \in Nat /\ now \in Nat /\ late \in Nat /\ sec \in Nat /\ Date \in Nat
        /\ field \in Fields /\ Second \in Nat \ {0} /\ asked \in Nat
    BY <1>2, Dates
  <1>4. RtcTypeOK'
    BY <1>1, <1>2, <1>3, LagAssumption DEF RtcTypeOK, Fields, LastSecond
  <1>5. OnTime'
    <2>1. /\ Wrap - 1 \in Nat /\ Wrap \in Nat \ {0} /\ LastSecond \in Nat
          /\ LastSecond * Second <= Wrap - 1 /\ MaxLag \in Nat /\ MaxLag < Second
          /\ MaxLag < Wrap - LastSecond * Second
      <3>1. Wrap - 1 \in Nat /\ Wrap \in Nat \ {0}
        BY SecondAssumption
      <3>2. LastSecond \in Nat /\ LastSecond * Second <= Wrap - 1
        BY <1>3, <3>1, TimesQuotient DEF LastSecond
      <3> QED BY <3>1, <3>2, LagAssumption
    <2>2. /\ Uptime \in 0..(Wrap - 1) /\ Uptime <= now
          /\ now < Wrap => Uptime = now
      BY <1>3, <2>1, Remainder DEF Uptime
    <2>3. Due <=> sec * Second <= Uptime
      BY <1>3, <2>1, <2>2, TimesQuotient DEF Due
    <2>4. CASE Due
      <3>1. sec <= LastSecond
        BY <1>3, <2>1, <2>2, <2>3, <2>4, TimesQuotient DEF LastSecond
      <3>2. now < sec * Second + MaxLag /\ sec * Second <= now
        <4>1. sec * Second \in Nat /\ now - late < sec * Second /\ late <= MaxLag
          BY <1>1, <1>2, <1>3, <3>1, Times DEF OnTime, RtcTypeOK
        <4> QED BY <1>3, <2>1, <2>2, <2>3, <2>4, <4>1
      <3> QED BY <1>1, <1>3, <2>4, <3>1, <3>2 DEF OnTime, LastSecond
    <2>5. CASE ~Due
      <3>1. ASSUME sec <= LastSecond
            PROVE  now < sec * Second
        <4>1. sec * Second \in Nat /\ now - late < sec * Second /\ late <= MaxLag
          BY <1>1, <1>2, <1>3, <3>1, Times DEF OnTime, RtcTypeOK
        <4>2. sec * Second <= LastSecond * Second
          BY <1>3, <2>1, <3>1, TimesMonotone
        <4>3. now < Wrap
          BY <1>3, <2>1, <4>1, <4>2
        <4> QED BY <1>3, <2>2, <2>3, <2>5, <4>1, <4>3
      <3> QED BY <1>1, <1>2, <1>3, <2>5, <3>1 DEF OnTime, LastSecond
    <2> QED BY <2>4, <2>5
  <1>6. ASSUME phase' # "poll"
        PROVE  asked' <= Date' /\ \E u : Spells(u, Date)'
    <2> DEFINE u == [k \in 0..0 |-> 0]
    <2>1. phase' = "rtc" /\ field' = 1 /\ asked' = Date /\ Date' = Date
      BY <1>1, <1>2, <1>6 DEF OnTime, Date
    <2>2. Done' = 0 /\ Rest(Date)' = 1 * (Date \div 1)
      BY <2>1, Weights DEF Done, Rest
    <2>3. Rest(Date)' = Date
      BY <1>3, <2>2, ByOne
    <2>4. Sums(u, rtc, Done)'
      BY <2>2 DEF Sums
    <2>5. u[0] + Rest(Date)' = 0 + Date /\ Date \in Nat
      BY <1>3, <2>3
    <2>6. Spells(u, Date)'
      BY <2>1, <2>2, <2>4, <2>5 DEF Spells
    <2>7. asked' <= Date'
      BY <1>3, <2>1
    <2> QED BY <2>6, <2>7
  <1> QED BY <1>4, <1>5, <1>6 DEF RtcInv, DateRead

LEMMA ReadRtc ==
  ASSUME RtcInv, ReadField
  PROVE  RtcInv'
  <1>1. /\ phase = "rtc" /\ rtc' = [rtc EXCEPT ![field] = Field(field, Date)]
        /\ \/ field \in 1..Len(Radix) /\ field' = field + 1 /\ phase' = phase
           \/ field = Len(Radix) + 1 /\ field' = 1 /\ phase' = "print"
        /\ UNCHANGED <<boot, now, late, sec, asked>>
    BY DEF ReadField, FieldRead, time
  <1>2. RtcTypeOK /\ OnTime
    BY DEF RtcInv
  <1>3. /\ now \in Nat /\ late \in Nat /\ sec \in Nat /\ Date \in Nat
        /\ field \in Fields /\ asked \in Nat /\ rtc \in [Fields -> Nat]
    BY <1>2, Dates DEF RtcTypeOK
  <1>4. Field(field, Date) \in Nat
    BY <1>3, FieldSplits
  <1>5. rtc' \in [Fields -> Nat] /\ field' \in Fields
    BY <1>1, <1>3, <1>4, Weights
  <1>6. RtcTypeOK'
    BY <1>1, <1>2, <1>5 DEF RtcTypeOK, Fields, LastSecond
  <1>7. OnTime'
    BY <1>1, <1>2 DEF OnTime, LastSecond
  <1>8. asked <= Date /\ \E u : Spells(u, Date)
    BY <1>1 DEF RtcInv, DateRead
  <1>9. PICK u : Spells(u, Date)
    BY <1>8
  <1> DEFINE j == field
             w == Weight[j]
             x == Field(j, Date)
  <1>10. /\ j \in Nat \ {0} /\ Done = j - 1 /\ Done' = j
         /\ w \in Nat /\ x \in Nat /\ rtc'[j] = x
         /\ \A k \in 1..(j - 1) : rtc'[k] = rtc[k]
         /\ 1..j \subseteq Fields
    <2>1. Len(Radix) \in Nat /\ w \in Nat
      BY <1>3, Weights
    <2> QED BY <1>1, <1>3, <1>4, <2>1 DEF Done, Fields
  <1>11. /\ u \in [0..(j - 1) -> Nat] /\ u[0] = 0
         /\ \A k \in 1..(j - 1) : u[k] = u[k - 1] + rtc[k] * Weight[k]
    BY <1>9, <1>10 DEF Spells, Sums
  <1>12. PICK v : Sums(v, rtc', j) /\ v[j] = u[j - 1] + x * w /\ u[j - 1] \in Nat
    <2> DEFINE v == [k \in 0..j |-> IF k = j THEN u[j - 1] + x * w ELSE u[k]]
    <2>1. x * w \in Nat /\ j - 1 \in 0..(j - 1)
      BY <1>10, Times
    <2>2. u[j - 1] \in Nat /\ u[j - 1] + x * w \in Nat
      BY <1>11, <2>1
    <2>3. \A k \in 0..j : k # j => k \in 0..(j - 1) /\ u[k] \in Nat
      BY <1>10, <1>11
    <2> HIDE DEF x, w, j
    <2>4. v \in [0..j -> Nat] /\ v[0] = 0
      BY <1>10, <1>11, <2>2, <2>3
    <2>5. ASSUME NEW k \in 1..j
          PROVE  v[k] = v[k - 1] + rtc'[k] * Weight[k]
      <3>1. k \in 0..j /\ k - 1 \in 0..j /\ k - 1 # j
        BY <1>10
      <3>2. v[k - 1] = u[k - 1]
        BY <3>1
      <3>3. CASE k = j
        <4>1. v[k] = u[j - 1] + x * w
          BY <3>1, <3>3
        <4> QED BY <1>10, <3>2, <3>3, <4>1 DEF w
      <3>4. CASE k # j
        <4>1. k \in 1..(j - 1) /\ v[k] = u[k]
          BY <1>10, <3>1, <3>4
        <4> QED BY <1>10, <1>11, <3>2, <4>1
      <3> QED BY <3>3, <3>4
    <2>6. v[j] = u[j - 1] + x * w
      BY <1>10
    <2> QED BY <2>2, <2>4, <2>5, <2>6 DEF Sums
  <1>13. v[j] + Rest(Date)' = u[j - 1] + Rest(Date)
    <2>1. Rest(Date) = w * (Date \div w) /\ Date' = Date
      BY <1>1 DEF Rest, Date
    <2>2. CASE field \in 1..Len(Radix) /\ field' = field + 1 /\ phase' = phase
      <3>1. Rest(Date)' = Weight[j + 1] * (Date \div Weight[j + 1])
        BY <1>1, <2>1, <2>2 DEF Rest
      <3>2. w * (Date \div w) = x * w + Weight[j + 1] * (Date \div Weight[j + 1])
        BY <1>3, <2>2, FieldSplits
      <3>3. /\ Date \div Weight[j + 1] \in Nat /\ Weight[j + 1] \in Nat
            /\ x * w \in Nat
        BY <1>3, <1>10, <2>2, Weights, FieldSplits, Times
      <3>4. Weight[j + 1] * (Date \div Weight[j + 1]) \in Nat
        BY <3>3, Times
      <3> DEFINE r == Weight[j + 1] * (Date \div Weight[j + 1])
                 y == x * w
      <3>5. /\ v[j] = u[j - 1] + y /\ Rest(Date)' = r /\ Rest(Date) = y + r
            /\ u[j - 1] \in Nat /\ y \in Nat /\ r \in Nat
        BY <1>12, <2>1, <3>1, <3>2, <3>3, <3>4
      <3> HIDE DEF r, y
      <3> QED BY <3>5
    <2>3. CASE field = Len(Radix) + 1 /\ field' = 1 /\ phase' = "print"
      <3>1. Rest(Date)' = 0
        BY <2>3 DEF Rest
      <3>2. x = Date \div w
        BY <1>3, <2>3, FieldSplits
      <3>3. Rest(Date) = x * w /\ x * w \in Nat
        BY <1>10, <2>1, <3>2, Times
      <3> DEFINE y == x * w
      <3>4. /\ v[j] = u[j - 1] + y /\ Rest(Date)' = 0 /\ Rest(Date) = y
            /\ u[j - 1] \in Nat /\ y \in Nat
        BY <1>12, <3>1, <3>3
      <3> HIDE DEF y
      <3> QED BY <3>4
    <2> QED BY <1>1, <2>2, <2>3
  <1>14. Spells(v, Date)'
    <2>1. Same(Date)' => Same(Date)
      BY <1>1 DEF Same, Date
    <2>2. u[j - 1] + Rest(Date) >= asked /\ (Same(Date) => u[j - 1] + Rest(Date) <= Date)
      BY <1>9, <1>10 DEF Spells
    <2>3. Date' = Date
      BY <1>1 DEF Date
    <2> QED BY <1>1, <1>10, <1>12, <1>13, <2>1, <2>2, <2>3 DEF Spells, Sums
  <1>15. asked' <= Date'
    BY <1>1, <1>8 DEF Date
  <1> QED BY <1>6, <1>7, <1>14, <1>15 DEF RtcInv, DateRead

LEMMA PrintRtc ==
  ASSUME RtcInv, PrintLine
  PROVE  RtcInv'
  <1>1. /\ phase = "print" /\ phase' = "poll" /\ sec' = sec + 1
        /\ UNCHANGED <<boot, now, late, field, rtc, asked>>
    BY DEF PrintLine, time
  <1>2. RtcTypeOK /\ OnTime
    BY DEF RtcInv
  <1>3. /\ now \in Nat /\ late \in Nat /\ sec \in Nat /\ Second \in Nat \ {0}
        /\ MaxLag \in Nat /\ MaxLag < Second /\ LastSecond \in Int
    BY <1>2, Dates, SecondAssumption, LagAssumption DEF LastSecond
  <1>4. RtcTypeOK'
    BY <1>1, <1>2, <1>3 DEF RtcTypeOK, OnTime, Fields, LastSecond
  <1>5. OnTime'
    <2>1. (sec + 1) * Second = sec * Second + Second /\ sec * Second \in Nat
      BY <1>3
    <2> QED BY <1>1, <1>2, <1>3, <2>1 DEF OnTime, LastSecond
  <1> QED BY <1>1, <1>4, <1>5 DEF RtcInv, DateRead

(* When a line is printed the fields spell a date that was not past when   *)
(* the read began, and that is not to come if only the seconds moved.      *)
LEMMA PrintedDate ==
  ASSUME RtcInv, phase = "print"
  PROVE  /\ Spelled(rtc) \in Nat /\ Spelled(rtc) >= asked
         /\ (\A k \in Fields \ {1} : Field(k, asked) = Field(k, Date)) => Spelled(rtc) <= Date
         /\ asked \in Nat /\ Date \in Nat
  <1>1. /\ rtc \in [Fields -> Nat] /\ asked \in Nat /\ Date \in Nat
    BY Dates DEF RtcInv, RtcTypeOK
  <1>2. asked <= Date /\ \E u : Spells(u, Date)
    BY DEF RtcInv, DateRead
  <1>3. PICK u : Spells(u, Date)
    BY <1>2
  <1> DEFINE n == Len(Radix) + 1
  <1>4. Done = n /\ Rest(Date) = 0 /\ Sums(u, rtc, n)
    BY <1>3 DEF Done, Rest, Spells
  <1>5. Spelled(rtc) = u[n] /\ u[n] \in Nat
    <2>1. Spelled(rtc) = u[n]
      BY <1>1, <1>4, SumIsSpelled
    <2>2. n \in 0..n
      BY Weights
    <2> QED BY <1>4, <2>1, <2>2 DEF Sums
  <1>6. u[n] >= asked
    BY <1>1, <1>3, <1>4, <1>5 DEF Spells
  <1>7. ASSUME \A k \in Fields \ {1} : Field(k, asked) = Field(k, Date)
        PROVE  u[n] <= Date
    <2>1. Same(Date)
      BY <1>1, <1>7, SameFields DEF Same
    <2> QED BY <1>1, <1>3, <1>4, <1>5, <2>1 DEF Spells
  <1> QED BY <1>1, <1>5, <1>6, <1>7

-----------------------------------------------------------------------------
(* What is known of video_test: at its last turn, at now - late, the pause *)
(* that began at `then` had not passed, and `since` is that moment as the  *)
(* register showed it.                                                     *)
Paced(then, since, pause) ==
  /\ then \in Nat /\ then <= now - late
  /\ since = (then % Wrap) \div Milli
  /\ (now - late) - then < (pause + 1) * Milli

VideoInv ==
  /\ RtcTypeOK /\ phase = "poll" /\ late <= now
  /\ Paced(drawn, last, Frame)
  /\ Paced(told, fps_last, Second \div Milli)

TestInv ==
  /\ test = "rtc" \/ test = "video"
  /\ test = "rtc" => RtcInv
  /\ test = "video" => VideoInv

(* One turn, at `t`, that came at most MaxLag after one at which the pause *)
(* had not passed: whether it has passed by the register, whose values may *)
(* have wrapped once, is whether it has passed in time.                    *)
LEMMA Pause ==
  ASSUME NEW pause \in Nat, pause <= Second \div Milli,
         NEW then \in Nat, NEW t \in Nat, then <= t,
         t - then < (pause + 1) * Milli + MaxLag,
         NEW x, x = (((t % Wrap) \div Milli) - ((then % Wrap) \div Milli)) % Wrap
  PROVE  /\ ~(x > pause) => t - then < (pause + 1) * Milli
         /\ x > pause => t - then > pause * Milli \/ t \div Wrap # then \div Wrap
  <1> DEFINE W == Wrap
             M == Milli
             a == then % W
             b == t % W
             p == a \div M
             q == b \div M
             c == then \div W
             d == t \div W
  <1>1. W \in Nat \ {0} /\ M \in Nat \ {0} /\ Second \in Nat /\ MaxLag \in Nat
    BY SecondAssumption, MilliAssumption, LagAssumption
  <1>2. /\ c \in Nat /\ d \in Nat /\ a \in 0..(W - 1) /\ b \in 0..(W - 1)
        /\ then = W * c + a /\ t = W * d + b
    BY <1>1, DivMod
  <1> HIDE DEF a, b, c, d
  <1>3. /\ p \in Nat /\ q \in Nat /\ M * p <= a /\ a < M * p + M
        /\ M * q <= b /\ b < M * q + M
    <2>1. /\ p \in Nat /\ a % M \in 0..(M - 1) /\ a = M * p + (a % M)
          /\ q \in Nat /\ b % M \in 0..(M - 1) /\ b = M * q + (b % M)
      <3>1. a \in Nat /\ b \in Nat /\ M \in Nat \ {0}
        BY <1>1, <1>2
      <3> HIDE DEF M
      <3> QED BY <3>1, DivMod
    <2> HIDE DEF p, q
    <2>2. M * p \in Nat /\ M * q \in Nat
      BY <1>1, <2>1, Times
    <2> QED BY <1>1, <2>1, <2>2
  <1>4. p <= (W - 1) \div M /\ q <= (W - 1) \div M /\ (W - 1) \div M \in Nat /\ (W - 1) \div M < W
    BY <1>1, <1>2, DivMonotone, DivMod
  <1>5. pause * M <= Second /\ pause * M \in Nat /\ (pause + 1) * M = pause * M + M
    BY <1>1, TimesQuotient
  <1>6. /\ Second + 2 * M + MaxLag <= W /\ W - (W - 1) \div M > pause
    <2>1. Second \div M \in Nat /\ (W - 1) \div M \in Nat
      BY <1>1, <1>4, DivMod
    <2> QED BY <1>1, <2>1, MilliAssumption
  <1>7. c <= d
    BY <1>1, DivMonotone DEF c, d
  <1> DEFINE e == d - c
             r == (W - 1) \div M
  <1>8. e = 0 \/ e = 1
    <2>1. e \in Nat /\ t - then = W * e + b - a
      BY <1>1, <1>2, <1>7
    <2> HIDE DEF e
    <2>2. ASSUME e >= 2
          PROVE  FALSE
      <3>1. W * 2 <= W * e
        BY <1>1, <2>1, <2>2, TimesMonotone
      <3>2. t - then < Second + M + MaxLag
        BY <1>1, <1>2, <1>5
      <3> QED BY <1>1, <1>2, <1>6, <2>1, <3>1, <3>2
    <2> QED BY <2>1, <2>2
  <1>9. CASE e = 0
    <2>1. t - then = b - a /\ a <= b
      BY <1>1, <1>2, <1>9
    <2>2. p <= q
      BY <1>1, <1>2, <2>1, DivMonotone
    <2> DEFINE g == q - p
    <2>3. x = g /\ g \in Nat
      <3>1. g \in Nat /\ g < W
        <4>1. r \in Nat /\ q <= r /\ r < W
          BY <1>4
        <4> HIDE DEF p, q, r
        <4> QED BY <1>1, <1>3, <2>2, <4>1
      <3>2. x = g % W
        BY DEF a, b
      <3> HIDE DEF g
      <3> QED BY <1>1, <3>1, <3>2, Remainder
    <2>4. M * q - M * p = M * g
      BY <1>1, <1>3
    <2> HIDE DEF p, q, g
    <2>5. M * p \in Nat /\ M * q \in Nat /\ M * g \in Nat
      BY <1>1, <1>3, <2>3, Times
    <2>6. b - a < M * g + M /\ b - a > M * g - M
      BY <1>1, <1>2, <1>3, <2>4, <2>5
    <2>7. ~(x > pause) => M * g <= pause * M
      BY <1>1, <2>3, TimesMonotone
    <2>8. x > pause => pause * M + M <= M * g
      <3>1. M * (pause + 1) = pause * M + M
        BY <1>1
      <3> QED BY <1>1, <2>3, <3>1, TimesMonotone
    <2> QED BY <1>1, <1>2, <1>5, <2>1, <2>5, <2>6, <2>7, <2>8
  <1>10. CASE e = 1
    <2>1. t - then = W + b - a /\ c # d
      BY <1>1, <1>2, <1>10
    <2>2. a - b > M
      BY <1>1, <1>2, <1>5, <1>6, <2>1
    <2>3. q < p
      <3> SUFFICES ASSUME p <= q
                   PROVE  FALSE
        BY <1>3
      <3> HIDE DEF p, q
      <3>1. M * p <= M * q /\ M * p \in Nat /\ M * q \in Nat
        BY <1>1, <1>3, TimesMonotone, Times
      <3> QED BY <1>1, <1>2, <1>3, <2>2, <3>1
    <2> DEFINE g == q - p
    <2>4. g \in Int /\ g < 0 /\ g + W >= 0 /\ g + W > pause
      <3>1. r \in Nat /\ p <= r /\ r < W /\ W - r > pause
        BY <1>4, <1>6
      <3> HIDE DEF p, q, r
      <3> QED BY <1>1, <1>3, <2>3, <3>1
    <2>5. x = g % W
      BY DEF a, b
    <2> HIDE DEF g
    <2>6. x > pause
      BY <1>1, <2>4, <2>5, NegativeRemainder
    <2> QED BY <2>1, <2>6 DEF c, d
  <1> QED BY <1>8, <1>9, <1>10

LEMMA InitTest == TestInit => TestInv
  <1> SUFFICES ASSUME TestInit
               PROVE  TestInv
    OBVIOUS
  <1>1. RtcInv
    BY InitRtc DEF TestInit
  <1>2. Paced(drawn, last, Frame) /\ Paced(told, fps_last, Second \div Milli)
    <2>1. /\ now = 0 /\ late = 0 /\ drawn = 0 /\ told = 0 /\ last = 0 /\ fps_last = 0
      BY DEF TestInit, RtcInit
    <2>2. /\ Milli \in Nat \ {0} /\ Wrap \in Nat \ {0} /\ Second \in Nat /\ Frame \in Nat
      BY SecondAssumption, MilliAssumption
    <2>3. Second \div Milli \in Nat
      BY <2>2, DivMod
    <2>4. (0 % Wrap) \div Milli = 0
      BY <2>2
    <2>5. \A pause \in Nat : (0 - 0) - 0 < (pause + 1) * Milli
      <3>1. ASSUME NEW pause \in Nat
            PROVE  (pause + 1) * Milli \in Nat /\ (pause + 1) * Milli # 0
        <4>1. pause + 1 \in Nat /\ pause + 1 # 0 /\ Milli \in Nat /\ Milli # 0
          BY <2>2
        <4> QED BY <4>1, Times
      <3> QED BY <3>1
    <2> QED BY <2>1, <2>2, <2>3, <2>4, <2>5 DEF Paced
  <1>3. phase = "poll" /\ test \in {"rtc", "video"}
    BY DEF TestInit, RtcInit
  <1> QED BY <1>1, <1>2, <1>3 DEF TestInv, VideoInv, RtcInv, OnTime

(* A turn of video_test: what it does with each of its two moments.        *)
LEMMA PacedTurn ==
  ASSUME VideoInv, NEW then, NEW since, NEW pause \in Nat, pause <= Second \div Milli,
         Paced(then, since, pause)
  PROVE  /\ Passed(since, pause) =>
              NotEarly(then, pause) /\ 0 < (pause + 1) * Milli
         /\ ~Passed(since, pause) => now - then < (pause + 1) * Milli
         /\ now \in Nat /\ then <= now
  <1>1. /\ now \in Nat /\ late \in Nat /\ late <= MaxLag /\ late <= now
        /\ then \in Nat /\ MaxLag \in Nat /\ Milli \in Nat \ {0}
    BY Dates, MilliAssumption, LagAssumption DEF VideoInv, RtcTypeOK, Paced
  <1> DEFINE m == (pause + 1) * Milli
             x == (((now % Wrap) \div Milli) - ((then % Wrap) \div Milli)) % Wrap
  <1>2. m \in Nat /\ m # 0
    <2>1. pause + 1 \in Nat /\ pause + 1 # 0 /\ Milli \in Nat /\ Milli # 0
      BY <1>1
    <2> QED BY <2>1, Times
  <1>3. (now - late) - then < m /\ then <= now - late /\ since = (then % Wrap) \div Milli
    BY DEF Paced
  <1> HIDE DEF m
  <1>4. then <= now /\ now - then < m + MaxLag /\ 0 < m
    BY <1>1, <1>2, <1>3
  <1>5. Passed(since, pause) <=> x > pause
    BY <1>3 DEF Passed, upt, Uptime
  <1>6. now - then < (pause + 1) * Milli + MaxLag
    BY <1>4 DEF m
  <1> HIDE DEF x
  <1>7. /\ ~(x > pause) => now - then < (pause + 1) * Milli
        /\ x > pause => now - then > pause * Milli \/ now \div Wrap # then \div Wrap
    BY <1>1, <1>4, <1>6, Pause DEF x
  <1> QED BY <1>1, <1>4, <1>5, <1>7 DEF NotEarly, m

LEMMA VideoStep ==
  ASSUME VideoInv, VideoTurn
  PROVE  /\ VideoInv'
         /\ drawn' # drawn => NotEarly(drawn, Frame)
         /\ told' # told => NotEarly(told, Second \div Milli)
  <1> DEFINE second == Second \div Milli
  <1>1. /\ Paced(drawn, last, Frame) /\ Paced(told, fps_last, second)
        /\ Frame \in Nat /\ Frame <= second /\ second \in Nat /\ second <= second
    <2>1. Second \in Nat /\ Milli \in Nat \ {0}
      BY SecondAssumption, MilliAssumption
    <2>2. second \in Nat
      BY <2>1, DivMod
    <2>3. Frame \in Nat /\ Frame < second
      BY MilliAssumption
    <2> HIDE DEF second
    <2>4. Frame <= second /\ second <= second
      BY <2>2, <2>3
    <2> QED BY <2>2, <2>3, <2>4 DEF VideoInv, second
  <1>2. /\ late' = 0 /\ UNCHANGED <<boot, now, phase, sec, field, rtc, asked>>
        /\ IF Passed(last, Frame) THEN last' = upt /\ drawn' = now
           ELSE UNCHANGED <<last, drawn>>
        /\ IF Passed(fps_last, second) THEN fps_last' = upt /\ told' = now
           ELSE UNCHANGED <<fps_last, told>>
    BY DEF VideoTurn
  <1> HIDE DEF second
  <1>3. RtcTypeOK' /\ phase' = "poll"
    BY <1>2, LagAssumption DEF VideoInv, RtcTypeOK, Fields, LastSecond
  <1>4. now \in Nat
    BY Dates DEF VideoInv
  <1>5. ASSUME NEW then, NEW since, NEW pause \in Nat, pause <= Second \div Milli,
               Paced(then, since, pause), NEW next, NEW shown,
               IF Passed(since, pause) THEN shown = upt /\ next = now
               ELSE shown = since /\ next = then
        PROVE  /\ next \in Nat /\ next <= now /\ shown = (next % Wrap) \div Milli
               /\ now - next < (pause + 1) * Milli
               /\ next # then => NotEarly(then, pause)
    <2>1. /\ Passed(since, pause) =>
              NotEarly(then, pause) /\ 0 < (pause + 1) * Milli
          /\ ~Passed(since, pause) => now - then < (pause + 1) * Milli
          /\ then <= now
      BY <1>5, PacedTurn
    <2>2. CASE Passed(since, pause)
      BY <1>4, <1>5, <2>1, <2>2 DEF upt, Uptime
    <2>3. CASE ~Passed(since, pause)
      BY <1>5, <2>1, <2>3 DEF Paced
    <2> QED BY <2>2, <2>3
  <1>6. /\ drawn' \in Nat /\ drawn' <= now /\ last' = (drawn' % Wrap) \div Milli
        /\ now - drawn' < (Frame + 1) * Milli
        /\ drawn' # drawn => NotEarly(drawn, Frame)
    BY <1>1, <1>2, <1>5 DEF second
  <1>7. /\ told' \in Nat /\ told' <= now /\ fps_last' = (told' % Wrap) \div Milli
        /\ now - told' < (second + 1) * Milli
        /\ told' # told => NotEarly(told, second)
    BY <1>1, <1>2, <1>5 DEF second
  <1>8. Paced(drawn, last, Frame)' /\ Paced(told, fps_last, second)'
    <2>1. now' - late' = now /\ second' = second
      BY <1>2, <1>4 DEF second
    <2> QED BY <1>6, <1>7, <2>1 DEF Paced
  <1>9. late' <= now'
    BY <1>2, <1>4
  <1> QED BY <1>3, <1>6, <1>7, <1>8, <1>9 DEF VideoInv, second

LEMMA VideoTime ==
  ASSUME VideoInv, Elapse, UNCHANGED video
  PROVE  VideoInv'
  <1>1. /\ now' = now + 1 /\ late' = late + 1 /\ now < MaxNow /\ late < MaxLag
        /\ UNCHANGED <<boot, phase, sec, field, rtc, asked, drawn, told, last, fps_last>>
    BY DEF Elapse, video
  <1>2. now \in Nat /\ late \in Nat /\ MaxNow \in Nat /\ MaxLag \in Nat
    BY Dates, BootsAssumption, LagAssumption DEF VideoInv
  <1>3. now' - late' = now - late
    BY <1>1, <1>2
  <1>4. RtcTypeOK'
    BY <1>1, <1>2 DEF VideoInv, RtcTypeOK, Fields, LastSecond
  <1>5. Paced(drawn, last, Frame)' /\ Paced(told, fps_last, Second \div Milli)'
    BY <1>1, <1>3 DEF VideoInv, Paced
  <1> QED BY <1>1, <1>2, <1>4, <1>5 DEF VideoInv

LEMMA NextTest ==
  ASSUME TestInv, [TestNext]_testVars
  PROVE  TestInv'
  <1>1. CASE Time
    BY <1>1, ElapseRtc, VideoTime DEF Time, TestInv
  <1>2. CASE RtcTurn
    BY <1>2, PollRtc, ReadRtc, PrintRtc DEF RtcTurn, Program, TestInv
  <1>3. CASE VideoTurn
    BY <1>3, VideoStep DEF VideoTurn, TestInv
  <1>4. CASE UNCHANGED testVars
    <2>1. UNCHANGED <<boot, now, late, phase, sec, field, rtc, asked, test, last, fps_last, drawn, told>>
      BY <1>4 DEF testVars, rtcVars, time, video
    <2>2. VideoInv => VideoInv'
      BY <2>1 DEF VideoInv, RtcTypeOK, Fields, LastSecond, Paced
    <2>3. RtcInv => RtcInv'
      <3>1. RtcTypeOK => RtcTypeOK'
        BY <2>1 DEF RtcTypeOK, Fields, LastSecond
      <3>2. OnTime => OnTime'
        BY <2>1 DEF OnTime, LastSecond
      <3>3. Date' = Date /\ Done' = Done /\ Rest(Date)' = Rest(Date) /\ Same(Date)' = Same(Date)
        BY <2>1 DEF Date, Done, Rest, Same
      <3>4. ASSUME NEW u, Spells(u, Date)
            PROVE  Spells(u, Date)'
        BY <2>1, <3>3, <3>4 DEF Spells, Sums
      <3>5. DateRead => DateRead'
        BY <2>1, <3>3, <3>4 DEF DateRead
      <3> QED BY <3>1, <3>2, <3>5 DEF RtcInv
    <2> QED BY <2>1, <2>2, <2>3 DEF TestInv
  <1> QED BY <1>1, <1>2, <1>3, <1>4 DEF TestNext

-----------------------------------------------------------------------------
(* Types, and with them that rtc_test never waits for a second later than  *)
(* the first that the register cannot show.                                *)
THEOREM RtcTypeCorrect == TestSpec => []RtcTypeOK
  <1>1. TestInv => RtcTypeOK
    BY DEF TestInv, RtcInv, VideoInv
  <1> QED BY InitTest, NextTest, <1>1, PTL DEF TestSpec

(* Each line comes when its second is over, at most two turns later.       *)
THEOREM LinesAreOnTime == TestSpec => []LinesOnTime
  <1>1. ASSUME TestInv, phase = "print"
        PROVE  sec * Second <= now /\ now < sec * Second + 2 * MaxLag
    <2>1. RtcInv
      BY <1>1 DEF TestInv, VideoInv
    <2>2. /\ now \in Nat /\ late \in 0..MaxLag /\ sec \in Nat /\ Second \in Nat /\ MaxLag \in Nat
      BY <2>1, Dates, LagAssumption DEF RtcInv, RtcTypeOK
    <2>3. sec * Second \in Nat
      BY <2>2, Times
    <2>4. sec * Second <= now - late /\ now - late < sec * Second + MaxLag
      BY <1>1, <2>1 DEF RtcInv, OnTime
    <2> QED BY <2>2, <2>3, <2>4
  <1>2. TestInv => LinesOnTime
    BY <1>1 DEF LinesOnTime
  <1> QED BY InitTest, NextTest, <1>2, PTL DEF TestSpec

(* A printed date is never behind the moment its read began.               *)
THEOREM DatesNotBehind == TestSpec => []DateNeverBehind
  <1>1. TestInv => DateNeverBehind
    BY PrintedDate DEF TestInv, VideoInv, DateNeverBehind
  <1> QED BY InitTest, NextTest, <1>1, PTL DEF TestSpec

(* A printed date is torn only by a rollover, for every number of fields.  *)
THEOREM DatesTornByRollover == TestSpec => []TornOnlyByRollover
  <1>1. ASSUME TestInv, phase = "print",
               \A k \in Fields \ {1} : Field(k, asked) = Field(k, Date)
        PROVE  Spelled(rtc) \in asked..Date
    <2>1. RtcInv
      BY <1>1 DEF TestInv, VideoInv
    <2>2. /\ Spelled(rtc) \in Nat /\ Spelled(rtc) >= asked /\ Spelled(rtc) <= Date
          /\ asked \in Nat /\ Date \in Nat
      BY <1>1, <2>1, PrintedDate
    <2> QED BY <2>2
  <1>2. TestInv => TornOnlyByRollover
    BY <1>1 DEF TornOnlyByRollover
  <1> QED BY InitTest, NextTest, <1>2, PTL DEF TestSpec

(* Frames and lines of the video test keep their distance, before and      *)
(* after every wrap of the register.                                       *)
THEOREM FramesArePaced == TestSpec => FramesPaced
  <1>1. TestInv => (test = "video" => InTime(drawn, Frame) /\ InTime(told, Second \div Milli))
    <2>1. ASSUME VideoInv, NEW then, NEW since, NEW pause \in Nat, Paced(then, since, pause)
          PROVE  InTime(then, pause)
      <3> DEFINE m == (pause + 1) * Milli
      <3>1. /\ now \in Nat /\ late \in 0..MaxLag /\ MaxLag \in Nat /\ Milli \in Nat
            /\ pause + 1 \in Nat /\ then \in Nat
        BY <2>1, Dates, LagAssumption, MilliAssumption DEF VideoInv, RtcTypeOK, Paced
      <3>2. m \in Nat /\ (now - late) - then < m
        BY <2>1, <3>1, Times DEF Paced
      <3> HIDE DEF m
      <3>3. now - then <= m + MaxLag
        BY <3>1, <3>2
      <3> QED BY <3>3 DEF InTime, m
    <2>2. Frame \in Nat /\ Second \div Milli \in Nat
      BY SecondAssumption, MilliAssumption, DivMod
    <2> QED BY <2>1, <2>2 DEF TestInv, VideoInv
  <1>2. TestInv /\ [TestNext]_testVars =>
          [ /\ drawn' # drawn => NotEarly(drawn, Frame)
            /\ told' # told   => NotEarly(told, Second \div Milli) ]_testVars
    BY VideoStep DEF TestInv, TestNext, Time, RtcTurn, VideoTurn, video
  <1> QED BY InitTest, NextTest, <1>1, <1>2, PTL DEF TestSpec, FramesPaced

-----------------------------------------------------------------------------
(* What is known while a read is under way: hi lies between the call and   *)
(* now, low was sampled after hi, and every repetition has used up an      *)
(* increment of the high half.  The previous result is no later than the   *)
(* call that follows it.                                                   *)
Progress ==
  /\ AtMost(began, counter)
  /\ AtMost(result, IF pc \in {"idle", "ret"} THEN counter ELSE began)
  /\ pc = "idle"  => began.hi + retries <= counter.hi
  /\ pc = "hi"    => began.hi + retries <= counter.hi
  /\ pc = "low"   => /\ began.hi + retries <= hi
                     /\ hi <= counter.hi
  /\ pc = "again" => /\ began.hi + retries <= hi
                     /\ hi <= sampled.hi
                     /\ low = sampled.lo
                     /\ Between(began, sampled, counter)
  /\ pc = "ret"   => /\ began.hi + retries <= counter.hi
                     /\ result = sampled
                     /\ Between(began, sampled, counter)

IInv == TypeOK /\ Progress

USE BaseAssumption, MaxHiAssumption

LEMMA InstantFields ==
  ASSUME NEW t \in Instants
  PROVE  /\ t.hi \in Nat /\ t.hi <= MaxHi
         /\ t.lo \in Nat /\ t.lo <= Base - 1
         /\ t = [hi |-> t.hi, lo |-> t.lo]
  BY DEF Instants

LEMMA AtMostTransitive ==
  ASSUME NEW a \in Instants, NEW b \in Instants, NEW c \in Instants,
         AtMost(a, b), AtMost(b, c)
  PROVE  AtMost(a, c)
  BY InstantFields DEF AtMost

LEMMA InitIInv == Init => IInv
  BY DEF Init, IInv, TypeOK, Progress, Instants, Zero, AtMost

(* The counter only moves forward.                                         *)
LEMMA TickForward ==
  ASSUME TypeOK, Tick
  PROVE  counter' \in Instants /\ AtMost(counter, counter')
  BY DEF TypeOK, Tick, Instants, AtMost

LEMMA NextIInv == IInv /\ [Next]_vars => IInv'
  <1> SUFFICES ASSUME IInv, [Next]_vars
               PROVE  IInv'
    OBVIOUS
  <1> USE DEF IInv
  <1>1. CASE Tick
    <2>1. counter' \in Instants /\ AtMost(counter, counter')
      BY <1>1, TickForward
    <2>2. TypeOK'
      BY <1>1, <2>1 DEF TypeOK, Tick, locals
    <2>3. UNCHANGED <<pc, locals>>
      BY <1>1 DEF Tick
    <2>4. counter.hi <= counter'.hi
      BY <2>1, InstantFields DEF AtMost, TypeOK
    <2>5. AtMost(began, counter')
      BY <2>1, AtMostTransitive DEF TypeOK, Progress
    <2>6. pc \in {"again", "ret"} => AtMost(sampled, counter')
      BY <2>1, AtMostTransitive DEF TypeOK, Progress, Between
    <2>6a. AtMost(result, counter) => AtMost(result, counter')
      BY <2>1, AtMostTransitive DEF TypeOK
    <2>7. counter.hi \in Nat /\ counter'.hi \in Nat /\ began.hi \in Nat
      BY <2>1, InstantFields DEF TypeOK
    <2>8. Progress'
      BY <2>3, <2>4, <2>5, <2>6, <2>6a, <2>7 DEF Progress, Between, TypeOK, locals
    <2> QED BY <2>2, <2>8
  <1>2. CASE Call
    BY <1>2, InstantFields DEF Call, TypeOK, Progress, AtMost
  <1>3. CASE ReadHi
    BY <1>3, InstantFields DEF ReadHi, TypeOK, Progress
  <1>4. CASE ReadLow
    BY <1>4, InstantFields DEF ReadLow, TypeOK, Progress, Between, AtMost
  <1>5. CASE ReadAgain
    <2>1. CASE hi = counter.hi
      <3>1. result' = sampled
        BY <1>5, <2>1, InstantFields
           DEF ReadAgain, TypeOK, Progress, Between, AtMost
      <3>2. TypeOK'
        BY <1>5, <2>1, <3>1 DEF ReadAgain, TypeOK
      <3>3. Progress'
        BY <1>5, <2>1, <3>1, InstantFields
           DEF ReadAgain, TypeOK, Progress, Between
      <3> QED BY <3>2, <3>3
    <2>2. CASE hi # counter.hi
      <3>1. hi < counter.hi
        BY <1>5, <2>2, InstantFields
           DEF ReadAgain, TypeOK, Progress, Between, AtMost
      <3> QED
        BY <1>5, <2>2, <3>1, InstantFields DEF ReadAgain, TypeOK, Progress
    <2> QED BY <2>1, <2>2
  <1>6. CASE Return
    BY <1>6 DEF Return, TypeOK, Progress, locals
  <1>7. CASE UNCHANGED vars
    BY <1>7 DEF vars, locals, TypeOK, Progress, Between
  <1> QED
    BY <1>1, <1>2, <1>3, <1>4, <1>5, <1>6, <1>7 DEF Next, Step

(* Every variable of simd_cycle64 keeps its type: the halves are CSR values. *)
THEOREM TypeCorrect == Spec => []TypeOK
  <1>1. IInv => TypeOK
    BY DEF IInv
  <1> QED BY InitIInv, NextIInv, <1>1, PTL DEF Spec

(* simd_cycle64 never returns a torn value: what it returns is the counter *)
(* at one instant of the call.                                             *)
THEOREM NoTornValue == Spec => []ReturnedAnInstant
  <1>1. IInv => ReturnedAnInstant
    BY DEF IInv, Progress, ReturnedAnInstant
  <1> QED BY InitIInv, NextIInv, <1>1, PTL DEF Spec

(* A call repeats its reads at most once per carry into the high half.     *)
THEOREM BoundedRetries == Spec => []RetriesBounded
  <1>1. IInv => RetriesBounded
    BY InstantFields DEF IInv, TypeOK, Progress, RetriesBounded, Between, AtMost
  <1> QED BY InitIInv, NextIInv, <1>1, PTL DEF Spec

(* A later call never returns an earlier instant than the call before it.  *)
THEOREM MonotonicResults == Spec => ResultsMonotonic
  <1>1. IInv /\ [Next]_vars => [AtMost(result, result')]_vars
    <2> SUFFICES ASSUME IInv, [Next]_vars
                 PROVE  AtMost(result, result')
      OBVIOUS
    <2>1. ASSUME result' = result
          PROVE  AtMost(result, result')
      BY <2>1, InstantFields DEF IInv, TypeOK, AtMost
    <2>2. CASE ReadAgain /\ hi = counter.hi
      <3>1. result' = sampled
        BY <2>2, InstantFields
           DEF IInv, ReadAgain, TypeOK, Progress, Between, AtMost
      <3>2. AtMost(result, began) /\ AtMost(began, sampled)
        BY <2>2 DEF IInv, ReadAgain, Progress, Between
      <3> QED BY <3>1, <3>2, AtMostTransitive DEF IInv, TypeOK
    <2> QED
      BY <2>1, <2>2 DEF Next, Step, Tick, Call, ReadHi, ReadLow, ReadAgain,
                        Return, vars, locals
  <1> QED
    BY InitIInv, NextIInv, <1>1, PTL DEF Spec, ResultsMonotonic

-----------------------------------------------------------------------------
(* The read of simd_cycle64 is atomic: the code implements MonotonicClock. *)
LEMMA InitClock == Init => Clock!Init
  BY DEF Init, Clock!Init, Instants, Clock!Instants, Zero, Clock!AtMost

LEMMA StepClock == IInv /\ [Next]_vars => [Clock!Next]_(Clock!vars)
  <1> SUFFICES ASSUME IInv, [Next]_vars
               PROVE  [Clock!Next]_(Clock!vars)
    OBVIOUS
  <1> USE DEF IInv, Clock!vars, locals
  <1>1. CASE Tick
    <2>1. Clock!Pass
      BY <1>1, TickForward
         DEF Tick, Clock!Pass, Clock!Instants, Instants, Clock!AtMost, AtMost
    <2> QED BY <2>1 DEF Clock!Next
  <1>2. CASE Call
    <2>1. Clock!Open
      BY <1>2 DEF Call, Clock!Open
    <2> QED BY <2>1 DEF Clock!Next
  <1>3. CASE ReadHi
    BY <1>3 DEF ReadHi
  <1>4. CASE ReadLow
    BY <1>4 DEF ReadLow
  <1>5. CASE ReadAgain
    <2>1. CASE hi = counter.hi
      <3>1. result' = sampled
        BY <1>5, <2>1, InstantFields
           DEF ReadAgain, TypeOK, Progress, Between, AtMost
      <3>2. Clock!Answer
        BY <1>5, <2>1, <3>1
           DEF ReadAgain, TypeOK, Progress, Between, AtMost,
               Clock!Answer, Clock!Instants, Clock!AtMost, Instants
      <3> QED BY <3>2 DEF Clock!Next
    <2>2. CASE hi # counter.hi
      BY <1>5, <2>2 DEF ReadAgain
    <2> QED BY <2>1, <2>2
  <1>6. CASE Return
    BY <1>6 DEF Return
  <1>7. CASE UNCHANGED vars
    BY <1>7 DEF vars
  <1> QED
    BY <1>1, <1>2, <1>3, <1>4, <1>5, <1>6, <1>7 DEF Next, Step

THEOREM Refinement == Spec => ImplementsClock
  BY InitIInv, NextIInv, InitClock, StepClock, PTL
     DEF Spec, Clock!Spec, ImplementsClock

-----------------------------------------------------------------------------
(* The stored start lies between the call and the return of the last       *)
(* al_signal_start, which is over when a later call of the timer begins.   *)
StartBracketed ==
  /\ Between(startBegan, started, startEnded)
  /\ AtMost(startEnded, counter)
  /\ pc # "idle" => AtMost(startEnded, began)

TimerInv == IInv /\ TimerTypeOK /\ StartBracketed

-----------------------------------------------------------------------------
(* Arithmetic of instants.                                                 *)
LEMMA TimesBase ==
  ASSUME NEW x \in Nat, NEW y \in Nat, x <= y
  PROVE  x * Base <= y * Base
  <1>1. PICK k \in Nat : y = x + k
    <2> WITNESS y - x \in Nat
    <2> QED OBVIOUS
  <1>2. y * Base = x * Base + k * Base
    BY <1>1
  <1>3. k * Base \in Nat /\ x * Base \in Nat
    OBVIOUS
  <1> QED BY <1>2, <1>3

(* The order of instants is that of 64-bit numbers.                        *)
LEMMA DistanceNat ==
  ASSUME NEW a \in Instants, NEW b \in Instants, AtMost(a, b)
  PROVE  Distance(a, b) \in Nat
  <1>1. /\ a.hi \in Nat /\ a.lo \in Nat /\ a.lo <= Base - 1
        /\ b.hi \in Nat /\ b.lo \in Nat
    BY InstantFields
  <1>2. CASE a.hi = b.hi
    <2>1. (b.hi - a.hi) * Base = 0
      BY <1>1, <1>2
    <2> QED BY <1>1, <1>2, <2>1 DEF Distance, AtMost
  <1>3. CASE a.hi < b.hi
    <2>1. b.hi - a.hi \in Nat /\ 1 <= b.hi - a.hi
      BY <1>1, <1>3
    <2>2. 1 * Base <= (b.hi - a.hi) * Base
      BY <2>1, TimesBase
    <2>3. (b.hi - a.hi) * Base \in Int
      BY <2>1
    <2> QED BY <1>1, <2>2, <2>3 DEF Distance
  <1> QED BY <1>1, <1>2, <1>3 DEF AtMost

LEMMA DistanceAdds ==
  ASSUME NEW a \in Instants, NEW b \in Instants, NEW c \in Instants
  PROVE  Distance(a, c) = Distance(a, b) + Distance(b, c)
  <1>1. /\ a.hi \in Nat /\ a.lo \in Nat /\ b.hi \in Nat /\ b.lo \in Nat
        /\ c.hi \in Nat /\ c.lo \in Nat
    BY InstantFields
  <1>2. (c.hi - a.hi) * Base = (b.hi - a.hi) * Base + (c.hi - b.hi) * Base
    BY <1>1
  <1>3. /\ (b.hi - a.hi) * Base \in Int
        /\ (c.hi - b.hi) * Base \in Int
    BY <1>1
  <1> QED BY <1>1, <1>2, <1>3 DEF Distance

LEMMA NotTruncated ==
  ASSUME NEW d \in Nat, d < Base
  PROVE  Truncated(d) = d
  BY DEF Truncated

-----------------------------------------------------------------------------
LEMMA StepOfLoop == [TimerNext]_allVars => [Next]_vars
  BY DEF TimerNext, allVars, Signal, al_signal_start, al_signal_finished,
         Next, Step

LEMMA InitTimer == TimerInit => TimerInv
  <1> SUFFICES ASSUME TimerInit PROVE TimerInv
    OBVIOUS
  <1>1. IInv
    BY InitIInv DEF TimerInit
  <1>2. Zero \in Instants
    BY DEF Zero, Instants
  <1>3. TimerTypeOK
    BY <1>1, <1>2 DEF TimerInit, TimerTypeOK, IInv, Ops
  <1>4. AtMost(Zero, counter)
    BY <1>1, InstantFields DEF AtMost, Zero, IInv, TypeOK
  <1>5. AtMost(Zero, Zero)
    BY DEF AtMost, Zero
  <1>6. StartBracketed
    BY <1>4, <1>5 DEF TimerInit, Init, StartBracketed, Between
  <1> QED BY <1>1, <1>3, <1>6 DEF TimerInv

LEMMA NextTimer == TimerInv /\ [TimerNext]_allVars => TimerInv'
  <1> SUFFICES ASSUME TimerInv, [TimerNext]_allVars
               PROVE  TimerInv'
    OBVIOUS
  <1> USE DEF TimerInv
  <1>1. IInv'
    BY StepOfLoop, NextIInv
  <1>2. TypeOK /\ TypeOK'
    BY <1>1 DEF IInv
  <1>3. CASE Tick /\ UNCHANGED timer
    <2>1. AtMost(counter, counter')
      BY <1>2, <1>3, TickForward
    <2>2. AtMost(startEnded, counter')
      BY <1>2, <2>1, AtMostTransitive DEF TypeOK, TimerTypeOK, StartBracketed
    <2>3. TimerTypeOK'
      BY <1>2, <1>3 DEF TimerTypeOK, timer
    <2>4. StartBracketed'
      BY <1>3, <2>2 DEF StartBracketed, Between, timer, Tick, locals
    <2> QED BY <1>1, <2>3, <2>4
  <1>4. CASE (ReadHi \/ ReadLow \/ ReadAgain) /\ UNCHANGED timer
    <2>1. TimerTypeOK'
      BY <1>2, <1>4 DEF TimerTypeOK, timer
    <2>2. UNCHANGED <<counter, began>> /\ pc # "idle"
      BY <1>4 DEF ReadHi, ReadLow, ReadAgain
    <2>3. StartBracketed'
      BY <1>4, <2>2 DEF StartBracketed, Between, timer
    <2> QED BY <1>1, <2>1, <2>3
  <1>5. CASE Signal
    <2>1. TimerTypeOK'
      BY <1>2, <1>5 DEF TimerTypeOK, Signal
    <2>2. StartBracketed'
      BY <1>5 DEF Signal, Call, StartBracketed, Between
    <2> QED BY <1>1, <2>1, <2>2
  <1>6. CASE al_signal_start
    <2>1. TimerTypeOK'
      BY <1>2, <1>6 DEF TimerTypeOK, al_signal_start, TypeOK
    <2>2. Between(began, result, counter)
      BY <1>6 DEF al_signal_start, Return, IInv, Progress
    <2>3. AtMost(counter, counter)
      BY <1>2, InstantFields DEF AtMost, TypeOK
    <2>4. StartBracketed'
      BY <1>6, <2>2, <2>3
         DEF al_signal_start, Return, locals, StartBracketed, Between
    <2> QED BY <1>1, <2>1, <2>4
  <1>7. CASE al_signal_finished
    <2>1. Distance(started, result) \in Int
      BY <1>2, InstantFields DEF Distance, TimerTypeOK, TypeOK
    <2>2. Truncated(Distance(started, result)) \in 0..(Base - 1)
      BY <2>1 DEF Truncated
    <2>3. TimerTypeOK'
      BY <1>2, <1>7, <2>2 DEF TimerTypeOK, al_signal_finished
    <2>4. StartBracketed'
      BY <1>7 DEF al_signal_finished, Return, locals, StartBracketed, Between
    <2> QED BY <1>1, <2>3, <2>4
  <1>8. CASE UNCHANGED allVars
    <2>1. UNCHANGED <<counter, pc, began, op, started, interval, startBegan, startEnded>>
      BY <1>8 DEF allVars, vars, locals, timer
    <2>2. TimerTypeOK'
      BY <1>2, <2>1 DEF TimerTypeOK
    <2>3. StartBracketed'
      BY <2>1 DEF StartBracketed, Between
    <2> QED BY <1>1, <2>2, <2>3
  <1> QED
    BY <1>3, <1>4, <1>5, <1>6, <1>7, <1>8 DEF TimerNext

-----------------------------------------------------------------------------
(* Every variable of the timer keeps its type: what it returns fits size_t. *)
THEOREM TimerTypeCorrect == TimerSpec => []TimerTypeOK
  <1>1. TimerInv => TimerTypeOK
    BY DEF TimerInv
  <1> QED BY InitTimer, NextTimer, <1>1, PTL DEF TimerSpec

(* For every width of the CSRs: an interval that fits lies between the     *)
(* shortest and the longest time its caller could have measured.           *)
THEOREM IntervalsAreTrue == TimerSpec => IntervalMeasures
  <1> DEFINE Measures ==
        al_signal_finished /\ Distance(startBegan, counter) < Base =>
          /\ Distance(startEnded, began) <= interval'
          /\ interval' <= Distance(startBegan, counter)
  <1>1. TimerInv /\ [TimerNext]_allVars => [Measures]_allVars
    <2> SUFFICES ASSUME TimerInv, al_signal_finished,
                        Distance(startBegan, counter) < Base
                 PROVE  /\ Distance(startEnded, began) <= interval'
                        /\ interval' <= Distance(startBegan, counter)
      OBVIOUS
    <2>1. {startBegan, started, startEnded, began, result, counter} \subseteq Instants
      BY DEF TimerInv, TimerTypeOK, TypeOK
    <2>2. /\ AtMost(startBegan, started) /\ AtMost(started, startEnded)
          /\ AtMost(startEnded, began)
          /\ AtMost(began, result) /\ AtMost(result, counter)
      BY DEF TimerInv, StartBracketed, Between, al_signal_finished, Return,
             IInv, Progress
    <2>3. /\ Distance(startBegan, started) \in Nat
          /\ Distance(started, startEnded) \in Nat
          /\ Distance(startEnded, began) \in Nat
          /\ Distance(began, result) \in Nat
          /\ Distance(result, counter) \in Nat
      BY <2>1, <2>2, DistanceNat
    <2>4. Distance(started, result)
            = Distance(started, startEnded) + Distance(startEnded, result)
      BY <2>1, DistanceAdds
    <2>5. Distance(startEnded, result)
            = Distance(startEnded, began) + Distance(began, result)
      BY <2>1, DistanceAdds
    <2>6. Distance(startBegan, counter)
            = Distance(startBegan, result) + Distance(result, counter)
      BY <2>1, DistanceAdds
    <2>7. Distance(startBegan, result)
            = Distance(startBegan, started) + Distance(started, result)
      BY <2>1, DistanceAdds
    <2>8. Distance(started, result) \in Nat /\ Distance(started, result) < Base
      BY <2>3, <2>4, <2>5, <2>6, <2>7
    <2>9. interval' = Distance(started, result)
      BY <2>8, NotTruncated DEF al_signal_finished
    <2> QED BY <2>3, <2>4, <2>5, <2>6, <2>7, <2>9
  <1> QED BY InitTimer, NextTimer, <1>1, PTL DEF TimerSpec, IntervalMeasures
=================================================================================
