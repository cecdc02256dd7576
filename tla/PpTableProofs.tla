--------------------------- MODULE PpTableProofs ---------------------------
(***************************************************************************)
(* The resize tables of the PP are right for every size of picture: ratios *)
(* in lowest terms, entries within the block's limits that sample the line *)
(* where they should, patterns that close, and no refusal without need.    *)
(*                                                                         *)
(* First the arithmetic: products and division, what the three kinds of    *)
(* ratio ask of position i of the output at position p of the input, and   *)
(* combinations of two numbers, by which a common divisor is followed.     *)
(* Then the inductive invariant TableInv and one lemma for each action.    *)
(***************************************************************************)
EXTENDS PpTable, TLAPS

\* A product of integers is an integer, and distributes.
LEMMA ProdSum ==
  ASSUME NEW a \in Int, NEW b \in Int, NEW k \in Int
  PROVE  /\ (a + b) * k = a * k + b * k
         /\ (a - b) * k = a * k - b * k
         /\ a * k \in Int
         /\ a * k = k * a
  OBVIOUS

\* The loop for less than 2:1 ends when the distance is that of the start: input and
\* output have then gone the same way.
LEMMA SameDistance ==
  ASSUME NEW a \in Int, NEW b \in Int, NEW n \in Nat, NEW d \in Nat,
         n - d + 2 * (a - b) = n - d
  PROVE  a = b
  OBVIOUS

\* A positive factor keeps an order,
LEMMA ProdMono ==
  ASSUME NEW a \in Int, NEW b \in Int, NEW k \in Int, k > 0, a <= b
  PROVE  a * k <= b * k
  OBVIOUS

\* can be taken off a strict one,
LEMMA ProdLess ==
  ASSUME NEW a \in Int, NEW b \in Int, NEW k \in Int, k > 0, a * k < b * k
  PROVE  a < b
  <1>1. SUFFICES ASSUME b <= a PROVE FALSE
    OBVIOUS
  <1>2. b * k <= a * k
    BY <1>1, ProdMono
  <1> QED
    BY <1>2, ProdSum

\* and off an equation.
LEMMA ProdCancel ==
  ASSUME NEW a \in Int, NEW b \in Int, NEW k \in Int, k > 0, a * k = b * k
  PROVE  a = b
  <1>1. CASE a < b
    <2>1. (a + 1) * k <= b * k
      BY <1>1, ProdMono
    <2> QED
      BY <2>1
  <1>2. CASE b < a
    <2>1. (b + 1) * k <= a * k
      BY <1>2, ProdMono
    <2> QED
      BY <2>1
  <1> QED
    BY <1>1, <1>2

\* Division is the only way to write a number as q * k + r with r below k.
LEMMA DivUnique ==
  ASSUME NEW a \in Nat, NEW k \in Nat, k > 0, NEW q \in Int, NEW r \in Int,
         a = q * k + r, 0 <= r, r < k
  PROVE  a \div k = q /\ a % k = r
  <1> PICK f \in Int : f = a % k
    OBVIOUS
  <1>1. a = k * (a \div k) + f /\ 0 <= f /\ f < k
    OBVIOUS
  <1> PICK e \in Int : e = a \div k
    OBVIOUS
  <1>2. a = e * k + f /\ 0 <= f /\ f < k
    BY <1>1, ProdSum
  <1>3. e < q + 1
    <2>1. e * k < (q + 1) * k
      BY <1>2
    <2> QED
      BY <2>1, ProdLess
  <1>4. q < e + 1
    <2>1. q * k < (e + 1) * k
      BY <1>2
    <2> QED
      BY <2>1, ProdLess
  <1>5. e = q
    BY <1>3, <1>4
  <1> QED
    BY <1>2, <1>5

\* What division says of a number.
LEMMA DivMod ==
  ASSUME NEW a \in Nat, NEW k \in Nat, k > 0
  PROVE  \E q, r \in Nat : /\ a \div k = q /\ a % k = r
                           /\ a = q * k + r /\ r < k
  <1> PICK f \in Nat : f = a % k
    OBVIOUS
  <1>1. a = k * (a \div k) + f /\ f < k
    OBVIOUS
  <1> PICK e \in Nat : e = a \div k
    OBVIOUS
  <1>2. a = e * k + f /\ f < k
    BY <1>1, ProdSum
  <1> QED
    BY <1>2

\* A number without remainder is a multiple.
LEMMA ModZero ==
  ASSUME NEW a \in Nat, NEW k \in Nat, k > 0, a % k = 0
  PROVE  \E q \in Nat : a = q * k
  <1> PICK q \in Nat, r \in Nat : a % k = r /\ a = q * k + r
    BY DivMod
  <1>1. q * k \in Nat
    OBVIOUS
  <1> QED
    BY <1>1

-----------------------------------------------------------------------------
\* Two numbers without a common divisor, as Bezout's identity.
Coprime(n, d) == \E a, b \in Int : a * n + b * d = 1

\* The pattern of a reduced ratio comes round only as a whole.
LEMMA RoundTrip ==
  ASSUME NEW n \in Nat, NEW d \in Nat, n > 0, d > 0, Coprime(n, d),
         NEW i \in Nat, NEW p \in Nat, 1 <= i, i <= d, i * n = p * d
  PROVE  i = d /\ p = n
  <1> PICK a \in Int, b \in Int : a * n + b * d = 1
    BY DEF Coprime
  <1>1. i = i * (a * n + b * d)
    OBVIOUS
  <1>2. @ = a * (i * n) + b * i * d
    OBVIOUS
  <1>3. @ = a * (p * d) + b * i * d
    OBVIOUS
  <1>4. @ = (a * p + b * i) * d
    OBVIOUS
  <1> DEFINE m == a * p + b * i
  <1>5. m \in Int /\ i = m * d
    BY <1>1, <1>2, <1>3, <1>4
  <1> HIDE DEF m
  <1>6. 0 < m
    <2>1. 0 * d < m * d
      BY <1>5
    <2> QED
      BY <2>1, <1>5, ProdLess
  <1>7. m < 2
    <2>1. m * d < 2 * d
      BY <1>5
    <2> QED
      BY <2>1, <1>5, ProdLess
  <1>8. i = d
    BY <1>5, <1>6, <1>7
  <1>9. p * d = n * d
    BY <1>8, ProdSum
  <1> QED
    BY <1>8, <1>9, ProdCancel

-----------------------------------------------------------------------------
\* Scale-up n:d: output i lies r parts, of d to a pixel, behind input p.
UpAt(n, d, i, p, r) == r = i * n - p * d /\ 0 <= r /\ r < d

\* That is where Sample has it.
LEMMA UpSample ==
  ASSUME NEW n \in Nat, NEW d \in Nat, 0 < n, n < d,
         NEW i \in Nat, NEW p \in Nat, NEW r \in Int, UpAt(n, d, i, p, r)
  PROVE  Sample(i, n, d) = [p |-> p, c |-> d - r, base |-> d]
  <1>1. i * n \in Nat /\ i * n = p * d + r
    BY DEF UpAt
  <1>2. (i * n) \div d = p /\ (i * n) % d = r
    <2> PICK a \in Nat : a = i * n
      BY <1>1
    <2> QED
      BY <1>1, DivUnique DEF UpAt
  <1> QED
    BY <1>2 DEF Sample

\* A round of the loop for more output than input goes on to the next output.
LEMMA UpStep ==
  ASSUME NEW n \in Nat, NEW d \in Nat, 0 < n, n < d,
         NEW i \in Nat, NEW p \in Nat, NEW r \in Int, UpAt(n, d, i, p, r)
  PROVE  /\ r + n >= d => UpAt(n, d, i + 1, p + 1, r + n - d)
         /\ r + n < d => UpAt(n, d, i + 1, p, r + n)
  <1>1. (i + 1) * n = i * n + n /\ (p + 1) * d = p * d + d
    BY ProdSum
  <1> QED
    BY <1>1 DEF UpAt

\* After d outputs it lies on a pixel.
LEMMA UpFull ==
  ASSUME NEW n \in Nat, NEW d \in Nat, 0 < n, n < d,
         NEW p \in Nat, NEW r \in Int, UpAt(n, d, d, p, r)
  PROVE  r = 0
  <1> DEFINE m == n - p
  <1>1. m \in Int /\ r = m * d
    BY ProdSum DEF UpAt
  <1> HIDE DEF m
  <1>2. m < 1
    <2>1. m * d < 1 * d
      BY <1>1 DEF UpAt
    <2> QED
      BY <2>1, <1>1, ProdLess
  <1>3. 0 - 1 < m
    <2>1. (0 - 1) * d < m * d
      BY <1>1 DEF UpAt
    <2> QED
      BY <2>1, <1>1, ProdLess
  <1> QED
    BY <1>1, <1>2, <1>3

-----------------------------------------------------------------------------
\* Scale-down n:d by less than 2: the distance from output i to the pixel after p, in
\* units of which 2 * d make a pixel; and p is the right pixel for output i.
Right(n, d, i, p) == (2 * p + 3) * d - (2 * i + 1) * n
DownAt(n, d, i, p) ==
  /\ 0 <= Right(n, d, i, p)
  /\ p = 0 \/ Right(n, d, i, p) < 2 * d

\* That distance, multiplied out.
LEMMA RightInt ==
  ASSUME NEW n \in Nat, NEW d \in Nat, NEW i \in Nat, NEW p \in Int
  PROVE  /\ Right(n, d, i, p) \in Int
         /\ Right(n, d, i, p) = 2 * (p * d) + 3 * d - 2 * (i * n) - n
         /\ p * d \in Int /\ i * n \in Int
  <1>1. (2 * p + 3) * d = 2 * (p * d) + 3 * d /\ (2 * i + 1) * n = 2 * (i * n) + n
    OBVIOUS
  <1> QED
    BY <1>1 DEF Right

\* How it changes from one output to the next.
LEMMA RightBoth ==
  ASSUME NEW n \in Nat, NEW d \in Nat, NEW i \in Nat, NEW p \in Nat,
         NEW j \in Nat, j = i + 1, NEW q \in Nat
  PROVE  Right(n, d, j, q) = Right(n, d, i, p) + 2 * (q * d - p * d) - 2 * n
  <1>1. j * n = i * n + n
    BY ProdSum
  <1>2. p * d \in Int /\ q * d \in Int /\ i * n \in Int
    BY ProdSum
  <1>3. Right(n, d, i, p) = 2 * (p * d) + 3 * d - 2 * (i * n) - n
    BY RightInt
  <1>4. Right(n, d, j, q) = 2 * (q * d) + 3 * d - 2 * (j * n) - n
    BY RightInt
  <1> QED
    BY <1>1, <1>2, <1>3, <1>4

\* The right pixel is the one that Sample chooses.
LEMMA DownSample ==
  ASSUME NEW n \in Nat, NEW d \in Nat, 0 < d, d < n,
         NEW i \in Nat, NEW p \in Nat, i < d, DownAt(n, d, i, p)
  PROVE  Sample(i, n, d) = [p |-> p, c |-> Right(n, d, i, p), base |-> 2 * d]
  <1> DEFINE T(q) == (2 * q + 3) * d - (2 * i + 1) * n >= 0
                     /\ (q > 0 => (2 * (q - 1) + 3) * d - (2 * i + 1) * n < 0)
  <1>1. \A q \in Int : (2 * q + 3) * d - (2 * i + 1) * n = Right(n, d, i, q)
    BY DEF Right
  <1>2. \A q \in Int : Right(n, d, i, q) = 2 * (q * d) + 3 * d - 2 * (i * n) - n
    BY RightInt
  <1>3. \A q \in Int : q * d \in Int
    OBVIOUS
  <1>4. \A q \in Int : (q - 1) * d = q * d - d
    BY ProdSum
  <1>5. i * n \in Int
    OBVIOUS
  <1>6. \A q \in Int : Right(n, d, i, q - 1) = Right(n, d, i, q) - 2 * d
    BY <1>2, <1>3, <1>4, <1>5
  <1>7. p <= n
    <2>1. CASE p = 0
      BY <2>1
    <2>2. CASE p > 0
      <3>1. 2 * (p * d) + d < 2 * (i * n) + n
        BY <2>2, <1>2, <1>3, <1>5 DEF DownAt
      <3>2. i * n <= (d - 1) * n
        BY ProdMono
      <3>3. (d - 1) * n = n * d - n
        BY ProdSum
      <3>4. n * d \in Int
        OBVIOUS
      <3>5. p * d < n * d
        BY <3>1, <3>2, <3>3, <3>4, <1>3, <1>5
      <3> QED
        BY <3>5, ProdLess
    <2> QED
      BY <2>1, <2>2
  <1>8. T(p)
    BY <1>1, <1>2, <1>3, <1>5, <1>6 DEF DownAt
  <1>9. ASSUME NEW q \in 0..n, T(q) PROVE q = p
    <2>1. Right(n, d, i, q) >= 0 /\ (q > 0 => Right(n, d, i, q) < 2 * d)
      BY <1>9, <1>1, <1>2, <1>3, <1>5, <1>6
    <2>2. Right(n, d, i, q) = 2 * (q * d) + 3 * d - 2 * (i * n) - n
      BY <1>2
    <2>3. Right(n, d, i, p) = 2 * (p * d) + 3 * d - 2 * (i * n) - n
      BY <1>2
    <2>4. CASE q < p
      <3>1. (q + 1) * d <= p * d
        BY <2>4, ProdMono
      <3>2. (q + 1) * d = q * d + d
        BY ProdSum
      <3> QED
        BY <3>1, <3>2, <2>1, <2>2, <2>3, <2>4, <1>3, <1>5 DEF DownAt
    <2>5. CASE p < q
      <3>1. (p + 1) * d <= q * d
        BY <2>5, ProdMono
      <3>2. (p + 1) * d = p * d + d
        BY ProdSum
      <3> QED
        BY <3>1, <3>2, <2>1, <2>2, <2>3, <2>5, <1>3, <1>5 DEF DownAt
    <2> QED
      BY <2>4, <2>5
  <1> DEFINE z == CHOOSE q \in 0..n : T(q)
  <1>10. z = p
    <2>1. p \in 0..n
      BY <1>7
    <2> HIDE DEF T
    <2> QED
      BY <2>1, <1>8, <1>9, Zenon
  <1>11. Sample(i, n, d) = [p |-> z, c |-> (2 * z + 3) * d - (2 * i + 1) * n, base |-> 2 * d]
    BY DEF Sample
  <1> HIDE DEF z
  <1> QED
    BY <1>10, <1>11 DEF Right

\* The pattern starts with it.
LEMMA DownStart ==
  ASSUME NEW n \in Nat, NEW d \in Nat, d < n, n < 2 * d
  PROVE  DownAt(n, d, 0, 0) /\ Right(n, d, 0, 0) = 3 * d - n
  BY DEF DownAt, Right

\* The weight it is blended with is a fraction below 1.
LEMMA DownWeight ==
  ASSUME NEW n \in Nat, NEW d \in Nat, d < n, n < 2 * d,
         NEW i \in Nat, NEW p \in Nat, DownAt(n, d, i, p)
  PROVE  Right(n, d, i, p) \in Nat /\ Right(n, d, i, p) < 2 * d
  <1>1. CASE p = 0
    <2>1. Right(n, d, i, 0) = 3 * d - 2 * (i * n) - n /\ i * n \in Nat
      BY RightInt
    <2> QED
      BY <1>1, <2>1 DEF DownAt
  <1>2. CASE p # 0
    BY <1>2, RightInt DEF DownAt
  <1> QED
    BY <1>1, <1>2

\* After d outputs it is pixel n.
LEMMA DownFull ==
  ASSUME NEW n \in Nat, NEW d \in Nat, d < n, n < 2 * d,
         NEW p \in Nat, DownAt(n, d, d, p)
  PROVE  p = n
  <1>1. Right(n, d, d, p) = 2 * (p * d) + 3 * d - 2 * (n * d) - n
    BY RightInt, ProdSum
  <1>2. p * d \in Int /\ n * d \in Int
    BY ProdSum
  <1>3. CASE p < n
    <2>1. (p + 1) * d <= n * d
      BY <1>3, ProdMono
    <2>2. (p + 1) * d = p * d + d
      BY ProdSum
    <2>3. Right(n, d, d, p) <= d - n
      BY <2>1, <2>2, <1>1, <1>2
    <2> QED
      BY <2>3, <1>1, <1>2 DEF DownAt
  <1>4. CASE n < p
    <2>1. (n + 1) * d <= p * d
      BY <1>4, ProdMono
    <2>2. (n + 1) * d = n * d + d
      BY ProdSum
    <2>3. Right(n, d, d, p) >= 5 * d - n
      BY <2>1, <2>2, <1>1, <1>2
    <2> QED
      BY <2>3, <1>1, <1>2, <1>4 DEF DownAt
  <1> QED
    BY <1>3, <1>4

-----------------------------------------------------------------------------
\* The weight of a fraction up to 1 is one that the block knows.
LEMMA WeightRange ==
  ASSUME NEW k \in Nat, NEW b \in Nat, 0 < b, k <= b
  PROVE  PpWeight(k, b) \in {0} \cup 2..PpSzCoef - 1
  <1> DEFINE a == k * 32 + b \div 2
  <1>1. a \in Nat /\ a < 33 * b
    OBVIOUS
  <1> PICK q \in Nat, r \in Nat : a \div b = q /\ a = q * b + r /\ r < b
    BY <1>1, DivMod
  <1>2. q < 33
    <2>1. q * b < 33 * b
      BY <1>1
    <2> QED
      BY <2>1, ProdLess
  <1>3. PpWeight(k, b) = IF q >= 31 THEN q - 1 ELSE IF q = 1 THEN 2 ELSE q
    BY DEF PpWeight, PpSzCoef
  <1> QED
    BY <1>2, <1>3 DEF PpSzCoef

-----------------------------------------------------------------------------
\* z is a combination of a and b.
Lin(z, a, b) == \E e, f \in Int : z = e * a + f * b

\* A round of pp_gcd: what the new numbers combine to is what the old ones did.
LEMMA LinStep ==
  ASSUME NEW a \in Nat, NEW b \in Nat, b > 0, NEW s \in Nat, NEW t \in Nat,
         Lin(a, s, t), Lin(b, s, t), Lin(s, a, b), Lin(t, a, b)
  PROVE  Lin(a % b, s, t) /\ Lin(s, b, a % b) /\ Lin(t, b, a % b)
  <1> PICK q \in Nat, r \in Nat : a % b = r /\ a = q * b + r
    BY DivMod
  <1>1. Lin(r, s, t)
    <2> PICK e \in Int, f \in Int : a = e * s + f * t
      BY DEF Lin
    <2> PICK g \in Int, h \in Int : b = g * s + h * t
      BY DEF Lin
    <2>1. r = a - q * b
      BY ProdSum
    <2>2. q * b = q * (g * s + h * t)
      OBVIOUS
    <2>3. @ = (q * g) * s + (q * h) * t
      OBVIOUS
    <2>4. r = (e - q * g) * s + (f - q * h) * t
      <3>1. (e - q * g) * s = e * s - (q * g) * s /\ (f - q * h) * t = f * t - (q * h) * t
        BY ProdSum
      <3> QED
        BY <2>1, <2>2, <2>3, <3>1
    <2>5. e - q * g \in Int /\ f - q * h \in Int
      OBVIOUS
    <2> QED
      BY <2>4, <2>5 DEF Lin
  <1>2. ASSUME NEW u \in Nat, Lin(u, a, b) PROVE Lin(u, b, r)
    <2> PICK e \in Int, f \in Int : u = e * a + f * b
      BY <1>2 DEF Lin
    <2>1. e * a = e * (q * b + r)
      OBVIOUS
    <2>2. @ = (e * q) * b + e * r
      OBVIOUS
    <2>3. u = (e * q + f) * b + e * r
      <3>1. (e * q + f) * b = (e * q) * b + f * b
        BY ProdSum
      <3> QED
        BY <2>1, <2>2, <3>1
    <2>4. e * q + f \in Int
      OBVIOUS
    <2> QED
      BY <2>3, <2>4 DEF Lin
  <1> QED
    BY <1>1, <1>2

\* Where pp_gcd begins.
LEMMA LinStart ==
  ASSUME NEW a \in Nat, NEW b \in Nat
  PROVE  Lin(a, a, b) /\ Lin(b, a, b) /\ Lin(a, b, a) /\ Lin(b, b, a)
  <1>1. a = 1 * a + 0 * b /\ b = 0 * a + 1 * b /\ a = 0 * b + 1 * a /\ b = 1 * b + 0 * a
    OBVIOUS
  <1> QED
    BY <1>1 DEF Lin

\* Where it ends: y divides every combination.
LEMMA LinDivides ==
  ASSUME NEW a \in Nat, NEW b \in Nat, b > 0, a % b = 0, NEW u \in Nat, u > 0, Lin(u, a, b)
  PROVE  \E k \in Nat : k > 0 /\ u = k * b /\ u \div b = k
  <1> PICK q \in Nat : a = q * b
    BY ModZero
  <1> PICK e \in Int, f \in Int : u = e * a + f * b
    BY DEF Lin
  <1> DEFINE k == e * q + f
  <1>1. k \in Int /\ u = k * b
    <2>1. e * a = e * (q * b)
      OBVIOUS
    <2>2. @ = (e * q) * b
      OBVIOUS
    <2>3. (e * q + f) * b = (e * q) * b + f * b
      BY ProdSum
    <2> QED
      BY <2>1, <2>2, <2>3
  <1> HIDE DEF k
  <1>2. k > 0
    <2>1. 0 * b < k * b
      BY <1>1
    <2> QED
      BY <2>1, <1>1, ProdLess
  <1>3. u \div b = k
    <2>1. u = k * b + 0
      BY <1>1
    <2> QED
      BY <2>1, <1>1, DivUnique
  <1> QED
    BY <1>1, <1>2, <1>3

\* Then y is the greatest common divisor: divided by it, the sizes are coprime and in
\* the same ratio as before.
LEMMA Reduced ==
  ASSUME NEW a \in Nat, NEW b \in Nat, b > 0, a % b = 0,
         NEW s \in Nat, NEW t \in Nat, s > 0, t > 0,
         Lin(b, s, t), Lin(s, a, b), Lin(t, a, b)
  PROVE  \E n, m \in Nat : /\ n = s \div b /\ m = t \div b
                           /\ n > 0 /\ m > 0 /\ n * t = m * s /\ Coprime(n, m)
  <1> PICK n \in Nat : n > 0 /\ s = n * b /\ s \div b = n
    BY LinDivides
  <1> PICK m \in Nat : m > 0 /\ t = m * b /\ t \div b = m
    BY LinDivides
  <1>1. n * t = m * s
    <2>1. n * (m * b) = m * (n * b)
      OBVIOUS
    <2> QED
      BY <2>1
  <1>2. Coprime(n, m)
    <2> PICK e \in Int, f \in Int : b = e * s + f * t
      BY DEF Lin
    <2> DEFINE k == e * n + f * m
    <2>1. k \in Int /\ 1 * b = k * b
      <3>1. e * s = e * (n * b) /\ f * t = f * (m * b)
        OBVIOUS
      <3>2. e * (n * b) = (e * n) * b /\ f * (m * b) = (f * m) * b
        OBVIOUS
      <3>3. (e * n + f * m) * b = (e * n) * b + (f * m) * b
        BY ProdSum
      <3> QED
        BY <3>1, <3>2, <3>3
    <2>2. k = 1
      <3> HIDE DEF k
      <3> QED
        BY <2>1, ProdCancel
    <2> QED
      BY <2>2 DEF Coprime
  <1> QED
    BY <1>1, <1>2

\* Coprime numbers have no common divisor but 1.
LEMMA CoprimeDivisor ==
  ASSUME NEW n \in Nat, NEW d \in Nat, Coprime(n, d),
         NEW k \in Nat, k > 0, n % k = 0, d % k = 0
  PROVE  k = 1
  <1> PICK a \in Int, b \in Int : a * n + b * d = 1
    BY DEF Coprime
  <1> PICK q \in Nat : n = q * k
    BY ModZero
  <1> PICK r \in Nat : d = r * k
    BY ModZero
  <1> DEFINE m == a * q + b * r
  <1>1. m \in Int /\ m * k = 1
    <2>1. a * n = a * (q * k) /\ b * d = b * (r * k)
      OBVIOUS
    <2>2. a * (q * k) = (a * q) * k /\ b * (r * k) = (b * r) * k
      OBVIOUS
    <2>3. (a * q + b * r) * k = (a * q) * k + (b * r) * k
      BY ProdSum
    <2> QED
      BY <2>1, <2>2, <2>3
  <1> HIDE DEF m
  <1>2. m > 0
    <2>1. 0 * k < m * k
      BY <1>1
    <2> QED
      BY <2>1, <1>1, ProdLess
  <1>3. k <= m * k
    <2>1. 1 * k <= m * k
      BY <1>1, <1>2, ProdMono
    <2> QED
      BY <2>1
  <1> QED
    BY <1>1, <1>3

\* A whole ratio in lowest terms has denominator 1.
LEMMA CoprimeOne ==
  ASSUME NEW n \in Nat, NEW d \in Nat, n > 0, d > 0, Coprime(n, d), NEW k \in Nat, n = k * d
  PROVE  d = 1
  <1>1. n % d = 0 /\ d % d = 0
    <2>1. n = k * d + 0 /\ d = 1 * d + 0
      OBVIOUS
    <2>2. n % d = 0
      BY <2>1, DivUnique
    <2>3. d % d = 0
      BY <2>1, DivUnique
    <2> QED
      BY <2>2, <2>3
  <1> QED
    BY <1>1, CoprimeDivisor

-----------------------------------------------------------------------------
(* The inductive invariant.  The parts named At... say, for each place in    *)
(* pp_scale_1d, how the registers depend on the position cur.                *)

\* pp_scale_1d is at work.
Scaling == {"scale", "loop", "advance", "emit", "skip", "while", "return"}

\* Sizes that pp_convert let through.
SizesOk == pc # "idle" => \A d \in Dirs : Src(d) \in Nat /\ Src(d) > 0 /\ Dst(d) \in Nat /\ Dst(d) > 0

\* pp_gcd: its two numbers and the two sizes are combinations of each other.
GcdOk ==
  pc = "gcd" =>
    /\ y > 0
    /\ Lin(x, Src(dir), Dst(dir)) /\ Lin(y, Src(dir), Dst(dir))
    /\ Lin(Src(dir), x, y) /\ Lin(Dst(dir), x, y)

\* Ratios that are known are those of the sizes, in lowest terms.
RatioOk ==
  \A d \in Dirs : Known(d) =>
    /\ num[d] > 0 /\ den[d] > 0
    /\ num[d] * Dst(d) = den[d] * Src(d)
    /\ Coprime(num[d], den[d])

\* Ratios that get a table are within the limits of the block.
LimitsOk == pc \in Scaling => \A d \in Dirs : PpRatioOk(num[d], den[d])

\* The table so far, and which part of it is being written.
Shape ==
  /\ Len(at) = Len(tbl)
  /\ hlen <= Len(tbl)
  /\ pc \in {"idle", "gcd", "ratio"} => tbl = <<>> /\ at = <<>> /\ hlen = 0 /\ cur = Start
  /\ pc = "ratio" => dir = "h"
  /\ pc \in Scaling => (dir = "h" <=> hlen = 0)
  /\ pc \in Scaling => cur = IF Len(tbl) = hlen THEN Start ELSE After(Len(tbl))
  /\ pc = "scale" => Len(tbl) = hlen
  /\ pc \in {"skip", "while", "return"} => Len(tbl) > hlen

\* The table of the width is whole once the height is at hand.
WidthWhole == hlen > 0 => After(hlen) = [p |-> num["h"], i |-> den["h"]]

\* The registers of the loop for less than 2:1 at input p and output i.
DownRegs(i, p) ==
  /\ v = (2 * p + 3) * D
  /\ out_pos = (2 * i + 1) * N
  /\ carry = N - D + 2 * (i * N - p * D)

\* At the head of the loop the registers are at output cur.i and input cur.p;
AtLoop ==
  pc = "loop" =>
    /\ N # D
    /\ N < D => UpAt(N, D, cur.i, cur.p, v) /\ cur.i < D
    /\ N >= 2 * D => v = 0 /\ cur = Start
    /\ D < N /\ N < 2 * D =>
         DownAt(N, D, cur.i, cur.p) /\ cur.i < D /\ DownRegs(cur.i, cur.p)

\* in the inner loop they are on the way to the next one, nxt pixels on;
AtAdvance ==
  pc = "advance" =>
    /\ D < N
    /\ N >= 2 * D => cur = Start /\ coeff = 1 /\ base = 2 /\ nxt \in 2..4 /\ v = N - nxt * D
    /\ N < 2 * D =>
         /\ DownAt(N, D, cur.i, cur.p) /\ cur.i < D
         /\ coeff = Right(N, D, cur.i, cur.p) /\ base = 2 * D
         /\ DownRegs(cur.i + 1, cur.p + nxt)
         /\ nxt <= 2
         /\ nxt = 0 \/ v - 2 * D < out_pos

\* behind it the weight is that of output cur.i, and nxt leads to the next one;
AtEmit ==
  pc = "emit" =>
    /\ base > 0 /\ coeff <= base
    /\ LET s == PpSample(cur.i, N, D)
       IN cur.p = s.p /\ PpWeight(coeff, base) = PpWeight(s.c, s.base)
    /\ N = D => nxt = 1 /\ cur = Start
    /\ N < D => nxt \in {0, 1} /\ cur.i < D /\ UpAt(N, D, cur.i + 1, cur.p + nxt, v)
    /\ N >= 2 * D => D = 1 /\ nxt = N /\ v = 0 /\ cur = Start
    /\ D < N /\ N < 2 * D =>
         /\ nxt <= 2 /\ cur.i < D
         /\ DownAt(N, D, cur.i + 1, cur.p + nxt) /\ DownRegs(cur.i + 1, cur.p + nxt)

\* 4:1 alone passes over pixels, of which nxt are left;
AtSkip ==
  pc = "skip" => N = 4 /\ D = 1 /\ v = 0 /\ nxt \in 1..3 /\ cur = [p |-> 4 - nxt, i |-> 1]

\* after the entry the registers are in step with cur again;
AtWhile ==
  pc = "while" =>
    /\ N = D => cur = [p |-> 1, i |-> 1]
    /\ N < D => UpAt(N, D, cur.i, cur.p, v) /\ cur.i \in 1..D
    /\ N >= 2 * D => v = 0 /\ cur = [p |-> N, i |-> D]
    /\ D < N /\ N < 2 * D =>
         DownAt(N, D, cur.i, cur.p) /\ cur.i \in 1..D /\ DownRegs(cur.i, cur.p)

\* and a pattern that is left is whole.
AtReturn == pc = "return" => cur = [p |-> N, i |-> D]

\* The entries written for this direction: one for each output, or four for 4:1.
Used == IF N = 4 * D THEN cur.p ELSE cur.i

\* The entries so far are as many as the outputs, so that a table that is full is one
\* that does not fit.
Counted ==
  /\ pc \in Scaling => Len(tbl) = hlen + Used
  /\ pc \in Scaling /\ dir = "v" => ~SameRatio
  /\ hlen > 0 => hlen = Needed("h")
  /\ RefusedRightly

\* The inductive invariant.
Regs == AtLoop /\ AtAdvance /\ AtEmit /\ AtSkip /\ AtWhile /\ AtReturn
Ratios == SizesOk /\ GcdOk /\ RatioOk /\ LimitsOk
Table == Shape /\ EntriesValid /\ Sampled /\ WidthWhole /\ WholePattern
TableInv == TableTypeOK /\ Ratios /\ Table /\ Counted /\ Regs

\* Sizes and ratios of the direction at hand.
LEMMA HereFacts ==
  ASSUME TableInv, pc \in Scaling
  PROVE  /\ N \in Nat /\ N > 0 /\ D \in Nat /\ D > 0 /\ Coprime(N, D) /\ PpRatioOk(N, D)
         /\ cur.i \in Nat /\ cur.p \in Nat
  <1>1. dir \in Dirs /\ Known(dir) /\ num[dir] \in Nat /\ den[dir] \in Nat
    BY DEF TableInv, TableTypeOK, Known, Scaling
  <1> QED
    BY <1>1 DEF TableInv, TableTypeOK, Ratios, RatioOk, LimitsOk, N, D, Positions

\* A ratio of 2:1 and more is 2:1 or 4:1.
LEMMA ExactRatio ==
  ASSUME TableInv, pc \in Scaling, N >= 2 * D
  PROVE  D = 1 /\ N \in {2, 4}
  <1>1. N \in Nat /\ N > 0 /\ D \in Nat /\ D > 0 /\ Coprime(N, D) /\ PpRatioOk(N, D)
    BY HereFacts
  <1> PICK n \in Nat : n = N
    BY <1>1
  <1> PICK d \in Nat : d = D
    BY <1>1
  <1>2. n > 0 /\ d > 0 /\ Coprime(n, d) /\ n >= 2 * d /\ (n <= 2 * d \/ n = 4 * d)
    BY <1>1 DEF PpRatioOk
  <1>3. n = 2 * d \/ n = 4 * d
    BY <1>2
  <1>4. d = 1
    BY <1>2, <1>3, CoprimeOne
  <1> QED
    BY <1>3, <1>4

\* 1:1 is 1:1.
LEMMA EqualRatio ==
  ASSUME TableInv, pc \in Scaling, N = D
  PROVE  D = 1
  <1>1. N \in Nat /\ N > 0 /\ D \in Nat /\ D > 0 /\ Coprime(N, D)
    BY HereFacts
  <1> PICK d \in Nat : d = D
    BY <1>1
  <1>2. d > 0 /\ Coprime(d, d) /\ d = 1 * d
    BY <1>1
  <1> QED
    BY <1>2, CoprimeOne

\* A step that only computes leaves ratios and table as they are.
LEMMA RegsFrame ==
  ASSUME TableInv, pc \in Scaling, pc' \in (Scaling \ {"scale"}) \cup {"fail"},
         pc' \in {"skip", "while", "return"} => pc \in {"skip", "while", "return"},
         UNCHANGED <<c, dir, num, den, tbl, at, cur, hlen, index>>
  PROVE  Ratios' /\ Table' /\ N' = N /\ D' = D /\ (pc' # "fail" => Counted')
  <1>1. N' = N /\ D' = D
    BY DEF N, D
  <1>2. \A d \in Dirs : Src(d)' = Src(d) /\ Dst(d)' = Dst(d) /\ Known(d)' = TRUE /\ Known(d) = TRUE
    BY DEF Src, Dst, Known, Scaling
  <1>3. Ratios'
    BY <1>2 DEF TableInv, Ratios, SizesOk, GcdOk, RatioOk, LimitsOk, Scaling
  <1>4. \A j : DirOf(j)' = DirOf(j) /\ After(j)' = After(j)
    BY DEF DirOf, After
  <1>5. Shape'
    BY <1>4 DEF TableInv, Table, Shape, Scaling
  <1>6. EntriesValid' /\ WidthWhole'
    BY <1>4 DEF TableInv, Table, EntriesValid, WidthWhole
  <1>7. Sampled'
    BY <1>4 DEF TableInv, Table, Sampled
  <1>8. WholePattern'
    BY DEF WholePattern, Scaling
  <1>9. ASSUME pc' # "fail" PROVE Counted'
    <2>1. Used' = Used
      BY <1>1 DEF Used
    <2>2. Needed("h")' = Needed("h") /\ SameRatio' = SameRatio
      BY DEF Needed, SameRatio
    <2>3. RefusedRightly'
      BY <1>9 DEF RefusedRightly, Scaling
    <2> QED
      BY <2>1, <2>2, <2>3 DEF TableInv, Counted
  <1> QED
    BY <1>1, <1>3, <1>5, <1>6, <1>7, <1>8, <1>9 DEF Table

\* pp_scale_1d before its loops: 1:1 goes to its entry, the others to output 0.
LEMMA Scale1dInv ==
  ASSUME TableInv, Scale1d
  PROVE  TableInv'
  <1>1. pc = "scale" /\ pc \in Scaling /\ cur = Start
    BY DEF Scale1d, Scaling, TableInv, Table, Shape
  <1>2. pc' \in {"emit", "loop"}
    <2>1. CASE N >= 2 * D
      <3>1. N \in {2, 4} /\ D = 1
        BY <1>1, <2>1, ExactRatio
      <3> QED
        BY <3>1 DEF Scale1d
    <2>2. CASE ~(N >= 2 * D)
      BY <2>2 DEF Scale1d
    <2> QED
      BY <2>1, <2>2
  <1>3. Ratios' /\ Table' /\ Counted' /\ N' = N /\ D' = D /\ cur' = Start /\ cur.i = 0 /\ cur.p = 0
    BY <1>1, <1>2, RegsFrame DEF Scale1d, Scaling, ratio, table, Start
  <1>4. N \in Nat /\ N > 0 /\ D \in Nat /\ D > 0
    BY <1>1, HereFacts
  <1>5. TableTypeOK'
    <2>1. /\ v' \in Nat /\ out_pos' \in Nat /\ carry' \in Int
          /\ coeff' \in Nat /\ base' \in Nat /\ nxt' \in Nat
      <3>1. /\ v \in Nat /\ out_pos \in Nat /\ carry \in Int
            /\ coeff \in Nat /\ base \in Nat /\ nxt \in Nat
        BY DEF TableInv, TableTypeOK
      <3>2. N - D \in Int /\ D + 2 * D \in Nat
        BY <1>4
      <3>3. v' \in {v, 0, D + 2 * D} /\ out_pos' \in {out_pos, N} /\ carry' \in {carry, N - D}
        BY DEF Scale1d
      <3>4. coeff' \in {coeff, 1} /\ base' \in {base, 1} /\ nxt' \in {nxt, 1}
        BY DEF Scale1d
      <3> QED
        BY <3>1, <3>2, <3>3, <3>4, <1>4
    <2>2. UNCHANGED <<c, dir, x, y, num, den, tbl, at, cur, hlen, index>>
      BY DEF Scale1d, ratio, table
    <2> QED
      BY <2>1, <2>2, <1>2 DEF TableInv, TableTypeOK
  <1>6. AtLoop'
    <2> SUFFICES ASSUME pc' = "loop" PROVE AtLoop'
      BY DEF AtLoop
    <2>1. CASE N < D
      <3>1. v' = 0
        BY <2>1, <1>4 DEF Scale1d
      <3>2. UpAt(N, D, 0, 0, 0)
        BY <1>4 DEF UpAt
      <3> QED
        BY <2>1, <3>1, <3>2, <1>3, <1>4 DEF AtLoop, Start
    <2>2. CASE N >= 2 * D
      BY <2>2, <1>3, <1>4 DEF Scale1d, AtLoop
    <2>3. CASE D < N /\ N < 2 * D
      <3>1. v' = D + 2 * D /\ out_pos' = N /\ carry' = N - D
        BY <2>3, <1>4 DEF Scale1d
      <3>2. DownAt(N, D, 0, 0)
        BY <2>3, <1>4, DownStart
      <3>3. DownRegs(0, 0)'
        <4> PICK n \in Nat : n = N
          BY <1>4
        <4> PICK d \in Nat : d = D
          BY <1>4
        <4>1. v' = 3 * d /\ out_pos' = n /\ carry' = n - d /\ N' = n /\ D' = d
          BY <3>1, <1>3
        <4> QED
          BY <4>1 DEF DownRegs
      <3> QED
        BY <2>3, <3>2, <3>3, <1>3, <1>4 DEF AtLoop, Start
    <2>4. CASE N = D
      BY <2>4, <1>4 DEF Scale1d
    <2> QED
      BY <2>1, <2>2, <2>3, <2>4, <1>4
  <1>7. AtEmit'
    <2> SUFFICES ASSUME pc' = "emit" PROVE AtEmit'
      BY DEF AtEmit
    <2>1. N = D /\ coeff' = 1 /\ base' = 1 /\ nxt' = 1
      BY DEF Scale1d
    <2>2. D = 1
      BY <2>1, <1>1, EqualRatio
    <2>3. PpSample(0, 1, 1) = [p |-> 0, c |-> 1, base |-> 1]
      BY DEF PpSample, Sample
    <2>4. N' = 1 /\ D' = 1 /\ cur'.i = 0 /\ cur'.p = 0
      BY <2>1, <2>2, <1>3 DEF Start
    <2> QED
      BY <2>1, <2>3, <2>4, <1>3 DEF AtEmit
  <1> QED
    BY <1>2, <1>3, <1>5, <1>6, <1>7 DEF TableInv, Regs, AtAdvance, AtSkip, AtWhile, AtReturn

\* A round of the scale-up computes the weight of this output and the way to the next.
LEMMA LoopUpInv ==
  ASSUME TableInv, LoopUp
  PROVE  TableInv'
  <1>1. pc = "loop" /\ pc \in Scaling /\ N < D
    BY DEF LoopUp, Scaling
  <1>2. pc' = "emit"
    BY DEF LoopUp
  <1>3. Ratios' /\ Table' /\ Counted' /\ N' = N /\ D' = D /\ cur' = cur
    BY <1>1, <1>2, RegsFrame DEF LoopUp, Scaling, ratio, table
  <1>4. N \in Nat /\ N > 0 /\ D \in Nat /\ D > 0 /\ cur.i \in Nat /\ cur.p \in Nat
    BY <1>1, HereFacts
  <1> PICK n \in Nat : n = N
    BY <1>4
  <1> PICK d \in Nat : d = D
    BY <1>4
  <1> PICK i \in Nat : i = cur.i
    BY <1>4
  <1> PICK p \in Nat : p = cur.p
    BY <1>4
  <1> PICK r \in Nat : r = v
    BY DEF TableInv, TableTypeOK
  <1>5. UpAt(n, d, i, p, r) /\ i < d /\ 0 < n /\ n < d
    BY <1>1, <1>4 DEF TableInv, Regs, AtLoop
  <1>6. /\ coeff' = d - r /\ base' = d
        /\ v' = IF r + n >= d THEN r + n - d ELSE r + n
        /\ nxt' = IF r + n >= d THEN 1 ELSE 0
    BY DEF LoopUp
  <1>7. r < d /\ coeff' \in Nat /\ base' \in Nat /\ v' \in Nat /\ nxt' \in {0, 1}
    BY <1>5, <1>6 DEF UpAt
  <1>8. TableTypeOK'
    BY <1>2, <1>7 DEF LoopUp, TableInv, TableTypeOK, ratio, table
  <1>9. UpAt(n, d, i + 1, p + nxt', v')
    <2>1. CASE r + n >= d
      BY <2>1, <1>5, <1>6, UpStep
    <2>2. CASE r + n < d
      BY <2>2, <1>5, <1>6, UpStep
    <2> QED
      BY <2>1, <2>2
  <1>10. PpSample(i, n, d) = [p |-> p, c |-> d - r, base |-> d]
    <2>1. n # 4 * d
      BY <1>5
    <2> QED
      BY <2>1, <1>5, UpSample DEF PpSample
  <1>11. AtEmit'
    BY <1>3, <1>5, <1>6, <1>7, <1>9, <1>10 DEF AtEmit
  <1> QED
    BY <1>2, <1>3, <1>8, <1>11 DEF TableInv, Regs, AtLoop, AtAdvance, AtSkip, AtWhile, AtReturn

\* 2:1 and 4:1 blend halves.
LEMMA LoopExactInv ==
  ASSUME TableInv, LoopExact
  PROVE  TableInv'
  <1>1. pc = "loop" /\ pc \in Scaling /\ N >= 2 * D
    BY DEF LoopExact, Scaling
  <1>2. pc' = "advance"
    BY DEF LoopExact
  <1>3. Ratios' /\ Table' /\ Counted' /\ N' = N /\ D' = D /\ cur' = cur
    BY <1>1, <1>2, RegsFrame DEF LoopExact, Scaling, ratio, table
  <1>4. N \in {2, 4} /\ D = 1
    BY <1>1, ExactRatio
  <1>5. v = 0 /\ cur = Start
    BY <1>1 DEF TableInv, Regs, AtLoop
  <1>6. v' = N - 2 /\ nxt' = 2 /\ coeff' = 1 /\ base' = 2
    BY <1>4, <1>5 DEF LoopExact
  <1>7. TableTypeOK'
    BY <1>2, <1>4, <1>6 DEF LoopExact, TableInv, TableTypeOK, ratio, table
  <1>8. AtAdvance'
    BY <1>3, <1>4, <1>5, <1>6 DEF AtAdvance
  <1> QED
    BY <1>2, <1>3, <1>7, <1>8 DEF TableInv, Regs, AtLoop, AtEmit, AtSkip, AtWhile, AtReturn

\* The inner loop of 2:1 and 4:1 counts the pixels of the ratio.
LEMMA AdvanceExactInv ==
  ASSUME TableInv, AdvanceExact
  PROVE  TableInv'
  <1>1. pc = "advance" /\ pc \in Scaling /\ N >= 2 * D
    BY DEF AdvanceExact, Scaling
  <1>2. pc' \in {"advance", "emit"}
    BY <1>1 DEF AdvanceExact
  <1>3. Ratios' /\ Table' /\ Counted' /\ N' = N /\ D' = D /\ cur' = cur
    BY <1>1, <1>2, RegsFrame DEF AdvanceExact, Scaling, ratio, table
  <1>4. N \in {2, 4} /\ D = 1
    BY <1>1, ExactRatio
  <1>5. cur = Start /\ coeff = 1 /\ base = 2 /\ nxt \in 2..4 /\ v = N - nxt
    BY <1>1, <1>4 DEF TableInv, Regs, AtAdvance
  <1>6. /\ coeff' = 1 /\ base' = 2
        /\ \/ v >= 1 /\ v' = v - 1 /\ nxt' = nxt + 1 /\ pc' = "advance"
           \/ v < 1 /\ v' = v /\ nxt' = nxt /\ pc' = "emit"
    BY <1>1, <1>4, <1>5 DEF AdvanceExact
  <1>7. TableTypeOK'
    <2>1. coeff' \in Nat /\ base' \in Nat
      BY <1>6
    <2>2. v' \in Nat /\ nxt' \in Nat
      <3>1. v \in Nat /\ nxt \in Nat
        BY DEF TableInv, TableTypeOK
      <3> QED
        BY <3>1, <1>6
    <2>3. UNCHANGED <<c, dir, x, y, num, den, out_pos, carry, tbl, at, cur, hlen, index>>
      BY DEF AdvanceExact, ratio, table
    <2> QED
      BY <2>1, <2>2, <2>3, <1>2 DEF TableInv, TableTypeOK
  <1>8. AtAdvance'
    BY <1>3, <1>4, <1>5, <1>6 DEF AtAdvance
  <1>9. AtEmit'
    <2> SUFFICES ASSUME pc' = "emit" PROVE AtEmit'
      BY DEF AtEmit
    <2>1. v' = 0 /\ nxt' = N /\ v \in Nat
      BY <1>4, <1>5, <1>6 DEF TableInv, TableTypeOK
    <2>2. Sample(0, 2, 1) = [p |-> 0, c |-> 1, base |-> 2]
      <3>1. DownAt(2, 1, 0, 0) /\ Right(2, 1, 0, 0) = 1
        BY DEF DownAt, Right
      <3> QED
        BY <3>1, DownSample
    <2>3. PpSample(0, N, D) = [p |-> 0, c |-> 1, base |-> 2]
      BY <2>2, <1>4 DEF PpSample
    <2>4. cur'.i = 0 /\ cur'.p = 0
      BY <1>3, <1>5 DEF Start
    <2> QED
      BY <1>3, <1>4, <1>5, <1>6, <2>1, <2>3, <2>4 DEF AtEmit
  <1> QED
    BY <1>2, <1>3, <1>7, <1>8, <1>9 DEF TableInv, Regs, AtLoop, AtSkip, AtWhile, AtReturn

\* A round of the scale-down computes the weight of this output.
LEMMA LoopDownInv ==
  ASSUME TableInv, LoopDown
  PROVE  TableInv'
  <1>1. pc = "loop" /\ pc \in Scaling /\ D < N /\ N < 2 * D
    BY DEF LoopDown, Scaling
  <1>2. pc' = "advance"
    BY DEF LoopDown
  <1>3. Ratios' /\ Table' /\ Counted' /\ N' = N /\ D' = D /\ cur' = cur
    BY <1>1, <1>2, RegsFrame DEF LoopDown, Scaling, ratio, table
  <1>4. N \in Nat /\ N > 0 /\ D \in Nat /\ D > 0 /\ cur.i \in Nat /\ cur.p \in Nat
    BY <1>1, HereFacts
  <1> PICK n \in Nat : n = N
    BY <1>4
  <1> PICK d \in Nat : d = D
    BY <1>4
  <1> PICK i \in Nat : i = cur.i
    BY <1>4
  <1> PICK p \in Nat : p = cur.p
    BY <1>4
  <1>5. /\ d < n /\ n < 2 * d /\ 0 < d /\ i < d /\ DownAt(n, d, i, p)
        /\ v = (2 * p + 3) * d /\ out_pos = (2 * i + 1) * n
        /\ carry = n - d + 2 * (i * n - p * d)
    BY <1>1, <1>4 DEF TableInv, Regs, AtLoop, DownRegs
  <1>6. Right(n, d, i, p) \in Nat /\ Right(n, d, i, p) < 2 * d
    BY <1>5, DownWeight
  <1>7. coeff' = Right(n, d, i, p) /\ base' = 2 * d /\ v' = v /\ nxt' = 0
    BY <1>5 DEF LoopDown, Right
  <1>8. out_pos' = (2 * (i + 1) + 1) * n /\ carry' = n - d + 2 * ((i + 1) * n - p * d)
    <2>1. out_pos' = out_pos + 2 * n /\ carry' = carry + 2 * n
      BY DEF LoopDown
    <2>2. (2 * (i + 1) + 1) * n = (2 * i + 1) * n + 2 * n /\ (i + 1) * n = i * n + n
      OBVIOUS
    <2>3. i * n \in Int /\ p * d \in Int /\ (2 * i + 1) * n \in Int
      OBVIOUS
    <2> QED
      BY <2>1, <2>2, <2>3, <1>5
  <1>9. TableTypeOK'
    <2>1. out_pos' \in Nat /\ carry' \in Int
      BY <1>8
    <2>2. UNCHANGED <<c, dir, x, y, num, den, v, tbl, at, cur, hlen, index>>
      BY DEF LoopDown, ratio, table
    <2>3. coeff' \in Nat /\ base' \in Nat /\ nxt' \in Nat
      BY <1>6, <1>7
    <2> QED
      BY <2>1, <2>2, <2>3, <1>2 DEF TableInv, TableTypeOK
  <1>10. AtAdvance'
    <2>1. DownRegs(i + 1, p)'
      BY <1>3, <1>5, <1>7, <1>8 DEF DownRegs
    <2> QED
      BY <2>1, <1>3, <1>5, <1>7 DEF AtAdvance
  <1> QED
    BY <1>2, <1>3, <1>9, <1>10 DEF TableInv, Regs, AtLoop, AtEmit, AtSkip, AtWhile, AtReturn

\* The inner loop of the scale-down stops at the right pixel of the next output.
LEMMA AdvanceDownInv ==
  ASSUME TableInv, AdvanceDown
  PROVE  TableInv'
  <1>1. pc = "advance" /\ pc \in Scaling /\ N < 2 * D
    BY DEF AdvanceDown, Scaling
  <1>2. pc' \in {"advance", "emit"}
    BY <1>1 DEF AdvanceDown
  <1>3. Ratios' /\ Table' /\ Counted' /\ N' = N /\ D' = D /\ cur' = cur
    BY <1>1, <1>2, RegsFrame DEF AdvanceDown, Scaling, ratio, table
  <1>4. N \in Nat /\ N > 0 /\ D \in Nat /\ D > 0 /\ cur.i \in Nat /\ cur.p \in Nat
    BY <1>1, HereFacts
  <1>0. PICK n \in Nat, d \in Nat, i \in Nat, p \in Nat, k \in Nat :
          n = N /\ d = D /\ i = cur.i /\ p = cur.p /\ k = nxt
    BY <1>4 DEF TableInv, TableTypeOK
  <1>5. /\ d < n /\ n < 2 * d /\ 0 < d /\ i < d /\ DownAt(n, d, i, p)
        /\ coeff = Right(n, d, i, p) /\ base = 2 * d
        /\ v = (2 * (p + k) + 3) * d /\ out_pos = (2 * (i + 1) + 1) * n
        /\ carry = n - d + 2 * ((i + 1) * n - (p + k) * d)
        /\ k <= 2
        /\ (k = 0 \/ v - 2 * d < out_pos)
    BY <1>0, <1>1, <1>4 DEF TableInv, Regs, AtAdvance, DownRegs
  <1>6. Right(n, d, i, p) \in Nat /\ Right(n, d, i, p) < 2 * d
    BY <1>5, DownWeight
  <1>7. v - out_pos = Right(n, d, i + 1, p + k)
    BY <1>0, <1>5 DEF Right
  <1>8. Right(n, d, i + 1, p + k) = Right(n, d, i, p) + 2 * (k * d) - 2 * n
    <2> PICK j \in Nat : j = i + 1
      OBVIOUS
    <2> PICK q \in Nat : q = p + k
      OBVIOUS
    <2>1. Right(n, d, j, q) = Right(n, d, i, p) + 2 * (q * d - p * d) - 2 * n
      BY RightBoth
    <2>2. q * d = p * d + k * d /\ p * d \in Int /\ k * d \in Int
      BY ProdSum
    <2> QED
      BY <2>1, <2>2, <1>6
  <1>9. v \in Nat /\ out_pos \in Nat /\ carry \in Int
    BY <1>0 DEF TableInv, TableTypeOK
  <1>10. CASE v < out_pos
    <2>1. /\ v' = v + 2 * d /\ carry' = carry - 2 * d /\ nxt' = k + 1 /\ pc' = "advance"
          /\ out_pos' = out_pos /\ coeff' = coeff /\ base' = base
      BY <1>0, <1>10, <1>1 DEF AdvanceDown
    <2>2. k <= 1
      <3>1. CASE k = 2
        BY <1>0, <3>1, <1>10, <1>7, <1>8, <1>6, <1>5, <1>9
      <3> QED
        BY <1>0, <3>1, <1>5
    <2>3. (2 * (p + (k + 1)) + 3) * d = (2 * (p + k) + 3) * d + 2 * d
      OBVIOUS
    <2>4. (p + (k + 1)) * d = (p + k) * d + d
      OBVIOUS
    <2>5. (p + k) * d \in Int /\ (i + 1) * n \in Int /\ (2 * (p + k) + 3) * d \in Int
      OBVIOUS
    <2>6. /\ v' = (2 * (p + (k + 1)) + 3) * d
          /\ carry' = n - d + 2 * ((i + 1) * n - (p + (k + 1)) * d)
      BY <1>0, <2>1, <2>3, <2>4, <2>5, <1>5
    <2>7. TableTypeOK'
      <3>1. v' \in Nat /\ carry' \in Int
        BY <1>0, <2>1, <1>9
      <3>2. UNCHANGED <<c, dir, x, y, num, den, tbl, at, cur, hlen, index>>
        BY <1>0 DEF AdvanceDown, ratio, table
      <3> QED
        BY <1>0, <3>1, <3>2, <2>1 DEF TableInv, TableTypeOK
    <2>8. DownRegs(i + 1, p + (k + 1))'
      BY <1>0, <2>1, <2>6, <1>3, <1>5 DEF DownRegs
    <2>9. AtAdvance'
      BY <1>0, <2>1, <2>2, <2>8, <1>3, <1>5, <1>9, <1>10 DEF AtAdvance
    <2> QED
      BY <1>0, <2>1, <2>7, <2>9, <1>3 DEF TableInv, Regs, AtLoop, AtEmit, AtSkip, AtWhile, AtReturn
  <1>11. CASE v >= out_pos
    <2>1. pc' = "emit" /\ UNCHANGED <<v, carry, nxt, out_pos, coeff, base>>
      BY <1>0, <1>11, <1>9 DEF AdvanceDown
    <2>2. UNCHANGED <<c, dir, x, y, num, den, tbl, at, cur, hlen, index>>
      BY <1>0 DEF AdvanceDown, ratio, table
    <2>3. TableTypeOK'
      BY <1>0, <2>1, <2>2 DEF TableInv, TableTypeOK
    <2>4. DownAt(n, d, i + 1, p + k)
      <3>1. CASE k = 0
        <4>1. Right(n, d, i + 1, p + k) < 2 * d
          BY <1>0, <3>1, <1>5, <1>6, <1>8
        <4> QED
          BY <1>0, <4>1, <1>7, <1>9, <1>11 DEF DownAt
      <3>2. CASE k # 0
        BY <1>0, <3>2, <1>5, <1>7, <1>9, <1>11 DEF DownAt
      <3> QED
        BY <1>0, <3>1, <3>2
    <2>5. DownRegs(i + 1, p + k)'
      BY <1>0, <2>1, <1>3, <1>5 DEF DownRegs
    <2>6. PpSample(i, n, d) = [p |-> p, c |-> Right(n, d, i, p), base |-> 2 * d]
      <3>1. n # 4 * d
        BY <1>5
      <3>2. Sample(i, n, d) = [p |-> p, c |-> Right(n, d, i, p), base |-> 2 * d]
        BY <1>5, DownSample
      <3>3. PpSample(i, n, d) = Sample(i, n, d)
        BY <3>1 DEF PpSample
      <3> QED
        BY <3>2, <3>3
    <2>7. AtEmit'
      BY <1>0, <2>1, <2>4, <2>5, <2>6, <1>3, <1>5, <1>6 DEF AtEmit
    <2> QED
      BY <1>0, <2>1, <2>3, <2>7, <1>3 DEF TableInv, Regs, AtLoop, AtAdvance, AtSkip, AtWhile, AtReturn
  <1> QED
    BY <1>0, <1>9, <1>10, <1>11

\* The loops end when the pattern is whole, and never before: by RoundTrip.
LEMMA WhileInv ==
  ASSUME TableInv, While
  PROVE  TableInv'
  <1>1. pc = "while" /\ pc \in Scaling
    BY DEF While, Scaling
  <1>2. pc' = IF More THEN "loop" ELSE "return"
    BY DEF While
  <1>3. Ratios' /\ Table' /\ Counted' /\ N' = N /\ D' = D /\ cur' = cur
    BY <1>1, <1>2, RegsFrame DEF While, Scaling, ratio, table
  <1>4. /\ N \in Nat /\ N > 0 /\ D \in Nat /\ D > 0 /\ cur.i \in Nat /\ cur.p \in Nat
        /\ Coprime(N, D) /\ cur = [p |-> cur.p, i |-> cur.i]
    BY <1>1, HereFacts DEF TableInv, TableTypeOK, Positions
  <1> PICK n \in Nat : n = N
    BY <1>4
  <1> PICK d \in Nat : d = D
    BY <1>4
  <1> PICK i \in Nat : i = cur.i
    BY <1>4
  <1> PICK p \in Nat : p = cur.p
    BY <1>4
  <1>5. UNCHANGED regs /\ TableTypeOK'
    BY <1>2 DEF While, TableInv, TableTypeOK, ratio, table, regs
  <1>6. CASE N = D
    <2>1. D = 1 /\ ~More /\ cur = [p |-> 1, i |-> 1]
      BY <1>1, <1>6, EqualRatio DEF More, TableInv, Regs, AtWhile
    <2>2. AtReturn'
      BY <2>1, <1>3, <1>6 DEF AtReturn
    <2> QED
      BY <2>1, <2>2, <1>2, <1>3, <1>5 DEF TableInv, Regs, AtLoop, AtAdvance, AtEmit, AtSkip, AtWhile
  <1>7. CASE N < D
    <2>1. UpAt(n, d, i, p, v) /\ i \in 1..d /\ v \in Nat /\ (More <=> v # 0) /\ n < d
      BY <1>1, <1>4, <1>7 DEF More, TableInv, Regs, AtWhile, TableTypeOK
    <2>2. CASE v # 0
      <3>1. i # d
        BY <2>1, <2>2, <1>4, UpFull
      <3>2. AtLoop'
        BY <2>1, <3>1, <1>3, <1>5 DEF AtLoop, regs
      <3> QED
        BY <2>1, <2>2, <3>2, <1>2, <1>3, <1>5
        DEF TableInv, Regs, AtReturn, AtAdvance, AtEmit, AtSkip, AtWhile
    <2>3. CASE v = 0
      <3>1. i * n = p * d
        <4>1. i * n \in Int /\ p * d \in Int
          OBVIOUS
        <4> QED
          BY <4>1, <2>1, <2>3 DEF UpAt
      <3>2. i = d /\ p = n
        BY <2>1, <3>1, <1>4, RoundTrip
      <3>3. AtReturn'
        BY <3>2, <1>3, <1>4 DEF AtReturn
      <3> QED
        BY <2>1, <2>3, <3>3, <1>2, <1>3, <1>5
        DEF TableInv, Regs, AtLoop, AtAdvance, AtEmit, AtSkip, AtWhile
    <2> QED
      BY <2>2, <2>3
  <1>8. CASE N >= 2 * D
    <2>1. ~More /\ cur = [p |-> N, i |-> D]
      BY <1>1, <1>4, <1>8 DEF More, TableInv, Regs, AtWhile
    <2>2. AtReturn'
      BY <2>1, <1>3 DEF AtReturn
    <2> QED
      BY <2>1, <2>2, <1>2, <1>3, <1>5 DEF TableInv, Regs, AtLoop, AtAdvance, AtEmit, AtSkip, AtWhile
  <1>9. CASE D < N /\ N < 2 * D
    <2>1. /\ DownAt(n, d, i, p) /\ i \in 1..d /\ DownRegs(i, p) /\ d < n /\ n < 2 * d
          /\ (More <=> carry # n - d)
      BY <1>1, <1>4, <1>9 DEF More, TableInv, Regs, AtWhile
    <2>2. carry = n - d + 2 * (i * n - p * d) /\ i * n \in Int /\ p * d \in Int
      BY <2>1 DEF DownRegs
    <2>3. CASE More
      <3>1. i # d
        <4> SUFFICES ASSUME i = d PROVE FALSE
          OBVIOUS
        <4>1. p = n
          BY <2>1, DownFull
        <4>2. i * n = p * d
          BY <4>1, ProdSum
        <4> QED
          BY <4>2, <2>1, <2>2, <2>3
      <3>2. AtLoop'
        <4>1. DownRegs(i, p)'
          BY <2>1, <1>3, <1>5 DEF DownRegs, regs
        <4> QED
          BY <2>1, <3>1, <4>1, <1>3 DEF AtLoop
      <3> QED
        BY <2>3, <3>2, <1>2, <1>3, <1>5 DEF TableInv, Regs, AtReturn, AtAdvance, AtEmit, AtSkip, AtWhile
    <2>4. CASE ~More
      <3>1. i * n = p * d
        <4>1. PICK a \in Int, b \in Int : a = i * n /\ b = p * d
          BY <2>2
        <4>2. n - d + 2 * (a - b) = n - d
          BY <4>1, <2>1, <2>2, <2>4
        <4>3. a = b
          BY <4>2, SameDistance
        <4> QED
          BY <4>1, <4>3
      <3>2. i = d /\ p = n
        BY <2>1, <3>1, <1>4, RoundTrip
      <3>3. AtReturn'
        BY <3>2, <1>3, <1>4 DEF AtReturn
      <3> QED
        BY <2>4, <3>3, <1>2, <1>3, <1>5 DEF TableInv, Regs, AtLoop, AtAdvance, AtEmit, AtSkip, AtWhile
    <2> QED
      BY <2>3, <2>4
  <1> QED
    BY <1>4, <1>6, <1>7, <1>8, <1>9

\* A new entry: it goes on from the one before and samples at cur.
LEMMA PushTable ==
  ASSUME TableInv, pc \in {"emit", "skip"}, pc' \in {"skip", "while"}, ~Full,
         NEW e \in Entries, Push(e), e.n \in 0..PpSzNxt-1, e.w \in {0} \cup 2..PpSzCoef-1,
         e.o => LET s == PpSample(cur.i, N, D)
                IN cur.p = s.p /\ e.w = PpWeight(s.c, s.base),
         UNCHANGED <<c, dir, num, den, hlen, index>>
  PROVE  Ratios' /\ Table' /\ N' = N /\ D' = D
  <1>1. N' = N /\ D' = D
    BY DEF N, D
  <1>2. \A d \in Dirs : Src(d)' = Src(d) /\ Dst(d)' = Dst(d) /\ Known(d)' = TRUE /\ Known(d) = TRUE
    BY DEF Src, Dst, Known
  <1>3. Ratios'
    BY <1>2 DEF TableInv, Ratios, SizesOk, GcdOk, RatioOk, LimitsOk, Scaling
  <1> PICK k \in Nat : k = Len(tbl)
    BY DEF TableInv, TableTypeOK
  <1>4. tbl \in Seq(Entries) /\ at \in Seq(Positions) /\ cur \in Positions /\ hlen \in Nat /\ dir \in Dirs
    BY DEF TableInv, TableTypeOK
  <1>5. Len(at) = k /\ hlen <= k /\ (dir = "h" <=> hlen = 0) /\ cur = IF k = hlen THEN Start ELSE After(k)
    BY DEF TableInv, Table, Shape, Scaling
  <1>6. k < 40
    BY DEF Full, PpTblMax
  <1>7. /\ Len(tbl') = k + 1 /\ Len(at') = k + 1
        /\ tbl'[k + 1] = e /\ at'[k + 1] = cur
        /\ \A j \in 1..k : tbl'[j] = tbl[j] /\ at'[j] = at[j]
        /\ cur' = [p |-> cur.p + e.n, i |-> cur.i + (IF e.o THEN 1 ELSE 0)]
    BY <1>4, <1>5 DEF Push
  <1>8. \A j \in 1..k : After(j)' = After(j)
    BY <1>7 DEF After
  <1>9. cur' = After(k + 1)'
    BY <1>7 DEF After
  <1>10. DirOf(k + 1) = dir /\ \A j : DirOf(j)' = DirOf(j)
    BY <1>4, <1>5 DEF DirOf, Dirs
  <1>11. Shape'
    BY <1>5, <1>7, <1>9, <1>4 DEF Shape, Scaling
  <1>12. EntriesValid'
    BY <1>6, <1>7 DEF TableInv, Table, EntriesValid, PpTblMax
  <1>13. WidthWhole'
    BY <1>4, <1>5, <1>8 DEF TableInv, Table, WidthWhole
  <1>14. Sampled'
    <2> SUFFICES ASSUME NEW j \in 1..k + 1
                 PROVE  /\ at'[j] = IF j \in {1, hlen + 1} THEN Start ELSE After(j - 1)'
                        /\ tbl'[j].o =>
                             LET s == PpSample(at'[j].i, num[DirOf(j)], den[DirOf(j)])
                             IN at'[j].p = s.p /\ tbl'[j].w = PpWeight(s.c, s.base)
      BY <1>7, <1>10 DEF Sampled
    <2>1. CASE j \in 1..k
      <3>1. tbl'[j] = tbl[j] /\ at'[j] = at[j]
        BY <2>1, <1>7
      <3>2. j # 1 => After(j - 1)' = After(j - 1)
        BY <2>1, <1>8
      <3>3. /\ at[j] = IF j \in {1, hlen + 1} THEN Start ELSE After(j - 1)
            /\ tbl[j].o =>
                 LET s == PpSample(at[j].i, num[DirOf(j)], den[DirOf(j)])
                 IN at[j].p = s.p /\ tbl[j].w = PpWeight(s.c, s.base)
        BY <2>1 DEF TableInv, Table, Sampled
      <3> QED
        BY <3>1, <3>2, <3>3
    <2>2. CASE j = k + 1
      <3>1. tbl'[j] = e /\ at'[j] = cur /\ DirOf(j) = dir
        BY <2>2, <1>7, <1>10
      <3>2. cur = IF j \in {1, hlen + 1} THEN Start ELSE After(j - 1)'
        <4>1. CASE k = hlen
          BY <4>1, <2>2, <1>5
        <4>2. CASE k # hlen
          <5>1. k \in 1..k /\ j - 1 = k /\ j # 1 /\ j # hlen + 1
            BY <4>2, <2>2, <1>4, <1>5
          <5> QED
            BY <5>1, <4>2, <1>5, <1>8
        <4> QED
          BY <4>1, <4>2
      <3> QED
        BY <3>1, <3>2 DEF N, D
    <2> QED
      BY <2>1, <2>2
  <1>15. WholePattern'
    BY DEF WholePattern
  <1> QED
    BY <1>1, <1>3, <1>11, <1>12, <1>13, <1>14, <1>15 DEF Table

\* A table that is full ends the call.
LEMMA NoRoomInv ==
  ASSUME TableInv, pc \in {"emit", "skip"}, NoRoom,
         UNCHANGED <<c, dir, x, y, ratio, v, out_pos, carry, coeff, base, hlen, index>>
  PROVE  TableInv'
  <1>1. pc' = "fail" /\ UNCHANGED <<c, dir, x, y, num, den, tbl, at, cur, hlen, index, nxt>>
    BY DEF NoRoom, ratio, table
  <1>2. Ratios' /\ Table'
    BY <1>1, RegsFrame DEF Scaling
  <1>3. TableTypeOK'
    BY <1>1 DEF TableInv, TableTypeOK
  <1>4. /\ N \in Nat /\ N > 0 /\ D \in Nat /\ D > 0 /\ cur.i \in Nat /\ cur.p \in Nat
        /\ Len(tbl) = hlen + Used /\ (dir = "v" => ~SameRatio) /\ (hlen > 0 => hlen = Needed("h"))
        /\ (dir = "h" <=> hlen = 0)
    BY HereFacts DEF Scaling, TableInv, Counted, Table, Shape
  <1>5. Used < Needed(dir)
    <2>1. CASE pc = "skip"
      BY <2>1 DEF TableInv, Regs, AtSkip, Used, Needed, N, D
    <2>2. CASE pc = "emit" /\ N = 4 * D
      <3>1. cur.p = 0
        BY <2>2, <1>4 DEF TableInv, Regs, AtEmit, Start
      <3> QED
        BY <3>1, <2>2 DEF Used, Needed, N, D
    <2>3. CASE pc = "emit" /\ N # 4 * D
      <3>1. cur.i < D
        BY <2>3, <1>4 DEF TableInv, Regs, AtEmit, Start
      <3> QED
        BY <3>1, <2>3 DEF Used, Needed, N, D
    <2> QED
      BY <2>1, <2>2, <2>3
  <1>6. TotalNeeded > PpTblMax
    <2>1. Len(tbl) \in Nat /\ Len(tbl) >= PpTblMax /\ PpTblMax \in Nat
      BY DEF NoRoom, Full, TableInv, TableTypeOK, PpTblMax
    <2>2. Needed("h") \in Nat /\ Needed("v") \in Nat /\ hlen \in Nat /\ dir \in Dirs
      BY DEF TableInv, TableTypeOK, Needed, Dirs
    <2>3. Used \in Nat
      BY <1>4 DEF Used
    <2>4. CASE dir = "h"
      BY <2>1, <2>2, <2>3, <2>4, <1>4, <1>5 DEF TotalNeeded
    <2>5. CASE dir = "v"
      BY <2>1, <2>2, <2>3, <2>5, <1>4, <1>5 DEF TotalNeeded
    <2> QED
      BY <2>2, <2>4, <2>5 DEF Dirs
  <1>7. Counted'
    <2>1. TotalNeeded' = TotalNeeded /\ Needed("h")' = Needed("h")
      BY <1>1 DEF TotalNeeded, Needed, SameRatio
    <2> QED
      BY <2>1, <1>1, <1>4, <1>6 DEF Counted, RefusedRightly, Scaling
  <1> QED
    BY <1>1, <1>2, <1>3, <1>7 DEF TableInv, Regs, AtLoop, AtAdvance, AtEmit, AtSkip, AtWhile, AtReturn

\* The entry that outputs.
LEMMA EmitInv ==
  ASSUME TableInv, Emit
  PROVE  TableInv'
  <1>1. pc = "emit" /\ pc \in Scaling
    BY DEF Emit, Scaling
  <1>2. UNCHANGED <<c, dir, x, y, num, den, ratio, v, out_pos, carry, coeff, base, hlen, index>>
    BY DEF Emit, ratio
  <1>3. /\ N \in Nat /\ N > 0 /\ D \in Nat /\ D > 0 /\ cur.i \in Nat /\ cur.p \in Nat
        /\ coeff \in Nat /\ base \in Nat /\ nxt \in Nat /\ base > 0 /\ coeff <= base
    BY <1>1, HereFacts DEF TableInv, TableTypeOK, Regs, AtEmit
  <1>4. AtEmit
    BY DEF TableInv, Regs
  <1>c. /\ Len(tbl) = hlen + Used /\ (dir = "v" => ~SameRatio) /\ (hlen > 0 => hlen = Needed("h"))
        /\ Len(tbl) \in Nat /\ hlen \in Nat
        /\ Needed("h")' = Needed("h") /\ SameRatio' = SameRatio
    BY <1>1, <1>2 DEF TableInv, Counted, TableTypeOK, Needed, SameRatio
  <1> PICK w \in {0} \cup 2..PpSzCoef - 1 : w = PpWeight(coeff, base)
    BY <1>3, WeightRange
  <1>5. w \in Nat
    BY DEF PpSzCoef
  <1>6. LET s == PpSample(cur.i, N, D) IN cur.p = s.p /\ w = PpWeight(s.c, s.base)
    BY <1>1, <1>4 DEF AtEmit
  <1>7. CASE NoRoom
    BY <1>1, <1>2, <1>7, NoRoomInv
  <1>8. CASE /\ ~Full /\ nxt < PpSzNxt /\ Push(Entry(w, nxt, TRUE))
             /\ pc' = "while" /\ nxt' = nxt
    <2> DEFINE e == Entry(w, nxt, TRUE)
    <2>1. e \in Entries /\ e.n = nxt /\ e.w = w /\ e.o = TRUE /\ e.n \in 0..PpSzNxt - 1
      BY <1>3, <1>5, <1>8 DEF Entry, Entries, PpSzNxt
    <2>2. Push(e)
      BY <1>8
    <2> HIDE DEF e
    <2>3. Ratios' /\ Table' /\ N' = N /\ D' = D
      BY <2>1, <2>2, <1>1, <1>2, <1>6, <1>8, PushTable
    <2>4. cur' = [p |-> cur.p + nxt, i |-> cur.i + 1]
      BY <2>1, <2>2 DEF Push
    <2>5. TableTypeOK'
      <3>1. tbl' \in Seq(Entries) /\ at' \in Seq(Positions)
        BY <2>1, <2>2 DEF Push, TableInv, TableTypeOK
      <3>2. cur' \in Positions
        BY <2>4, <1>3 DEF Positions
      <3> QED
        BY <3>1, <3>2, <1>2, <1>8 DEF TableInv, TableTypeOK
    <2>c. Counted'
      <3>1. N # 4 * D
        BY <1>1, <1>3, <1>4, <1>8 DEF AtEmit, PpSzNxt
      <3>2. Len(tbl') = Len(tbl) + 1
        BY <2>2 DEF Push, TableInv, TableTypeOK
      <3>3. Used' = Used + 1
        BY <3>1, <2>3, <2>4 DEF Used
      <3>4. Used \in Nat
        BY <1>3 DEF Used
      <3> QED
        BY <3>2, <3>3, <3>4, <1>2, <1>8, <1>c DEF Counted, RefusedRightly
    <2>6. AtWhile'
      <3>1. CASE N = D
        BY <3>1, <2>3, <2>4, <1>1, <1>3, <1>4 DEF AtEmit, AtWhile, Start
      <3>2. CASE N < D
        BY <3>2, <2>3, <2>4, <1>1, <1>2, <1>3, <1>4 DEF AtEmit, AtWhile
      <3>3. CASE N >= 2 * D
        BY <3>3, <2>3, <2>4, <1>1, <1>2, <1>3, <1>4 DEF AtEmit, AtWhile, Start
      <3>4. CASE D < N /\ N < 2 * D
        <4>1. /\ cur.i < D /\ DownAt(N, D, cur.i + 1, cur.p + nxt)
              /\ DownRegs(cur.i + 1, cur.p + nxt)
          BY <3>4, <1>1, <1>4 DEF AtEmit
        <4>2. cur'.i = cur.i + 1 /\ cur'.p = cur.p + nxt
          BY <2>4
        <4>3. DownRegs(cur.i, cur.p)'
          BY <4>1, <4>2, <2>3, <1>2 DEF DownRegs
        <4>4. DownAt(N', D', cur'.i, cur'.p) /\ cur'.i \in 1..D
          BY <4>1, <4>2, <2>3, <1>3
        <4> QED
          BY <3>4, <4>3, <4>4, <2>3, <1>3 DEF AtWhile
      <3> QED
        BY <3>1, <3>2, <3>3, <3>4, <1>3
    <2> QED
      BY <2>3, <2>5, <2>6, <2>c, <1>8 DEF TableInv, Regs, AtLoop, AtAdvance, AtEmit, AtSkip, AtReturn
  <1>9. CASE /\ ~Full /\ nxt >= PpSzNxt /\ Push(Entry(w, 1, TRUE))
             /\ pc' = "skip" /\ nxt' = nxt - 1
    <2> DEFINE e == Entry(w, 1, TRUE)
    <2>1. e \in Entries /\ e.n = 1 /\ e.w = w /\ e.o = TRUE /\ e.n \in 0..PpSzNxt - 1
      BY <1>5 DEF Entry, Entries, PpSzNxt
    <2>2. Push(e)
      BY <1>9
    <2> HIDE DEF e
    <2>3. Ratios' /\ Table' /\ N' = N /\ D' = D
      BY <2>1, <2>2, <1>1, <1>2, <1>6, <1>9, PushTable
    <2>4. N >= 2 * D
      BY <1>1, <1>3, <1>4, <1>9 DEF AtEmit, PpSzNxt
    <2>5. N \in {2, 4} /\ D = 1 /\ nxt = N /\ v = 0 /\ cur = Start
      BY <2>4, <1>1, <1>4, ExactRatio DEF AtEmit
    <2>6. nxt = 4 /\ N = 4 /\ nxt' = 3 /\ cur.p = 0 /\ cur.i = 0
      BY <2>5, <1>9 DEF PpSzNxt, Start
    <2>7. cur' = [p |-> 1, i |-> 1]
      BY <2>1, <2>2, <2>6 DEF Push
    <2>8. TableTypeOK'
      <3>1. tbl' \in Seq(Entries) /\ at' \in Seq(Positions)
        BY <2>1, <2>2 DEF Push, TableInv, TableTypeOK
      <3>2. cur' \in Positions
        BY <2>7 DEF Positions
      <3>3. nxt' \in Nat /\ pc' = "skip"
        BY <2>6, <1>9
      <3> QED
        BY <3>1, <3>2, <3>3, <1>2 DEF TableInv, TableTypeOK
    <2>c. Counted'
      <3>1. Len(tbl') = Len(tbl) + 1
        BY <2>2 DEF Push, TableInv, TableTypeOK
      <3>2. Used = 0 /\ Used' = 1
        BY <2>3, <2>5, <2>6, <2>7 DEF Used
      <3> QED
        BY <3>1, <3>2, <1>2, <1>9, <1>c DEF Counted, RefusedRightly
    <2>9. AtSkip'
      BY <2>3, <2>5, <2>6, <2>7, <1>2 DEF AtSkip
    <2> QED
      BY <2>3, <2>8, <2>9, <2>c, <1>9 DEF TableInv, Regs, AtLoop, AtAdvance, AtEmit, AtWhile, AtReturn
  <1> QED
    BY <1>7, <1>8, <1>9 DEF Emit

\* An entry of 4:1 that passes over a pixel.
LEMMA SkipInv ==
  ASSUME TableInv, Skip
  PROVE  TableInv'
  <1>1. pc = "skip" /\ pc \in Scaling
    BY DEF Skip, Scaling
  <1>2. UNCHANGED <<c, dir, x, y, num, den, ratio, v, out_pos, carry, coeff, base, hlen, index>>
    BY DEF Skip, ratio
  <1>3. N = 4 /\ D = 1 /\ v = 0 /\ nxt \in 1..3 /\ cur = [p |-> 4 - nxt, i |-> 1]
    BY <1>1 DEF TableInv, Regs, AtSkip
  <1>4. CASE NoRoom
    BY <1>1, <1>2, <1>4, NoRoomInv
  <1>5. CASE /\ ~Full /\ Push(Entry(0, 1, FALSE)) /\ nxt' = nxt - 1
             /\ pc' = IF nxt > 1 THEN "skip" ELSE "while"
    <2> DEFINE e == Entry(0, 1, FALSE)
    <2>1. e \in Entries /\ e.n = 1 /\ e.w = 0 /\ e.o = FALSE /\ e.n \in 0..PpSzNxt - 1
      BY DEF Entry, Entries, PpSzNxt
    <2>2. Push(e)
      BY <1>5
    <2> HIDE DEF e
    <2>3. Ratios' /\ Table' /\ N' = N /\ D' = D
      BY <2>1, <2>2, <1>1, <1>2, <1>5, PushTable
    <2>4. cur' = [p |-> 4 - nxt + 1, i |-> 1]
      BY <2>1, <2>2, <1>3 DEF Push
    <2>5. TableTypeOK'
      <3>1. tbl' \in Seq(Entries) /\ at' \in Seq(Positions)
        BY <2>1, <2>2 DEF Push, TableInv, TableTypeOK
      <3>2. cur' \in Positions /\ nxt' \in Nat
        BY <2>4, <1>3, <1>5 DEF Positions
      <3> QED
        BY <3>1, <3>2, <1>2, <1>5 DEF TableInv, TableTypeOK
    <2>6. AtSkip'
      BY <2>3, <2>4, <1>2, <1>3, <1>5 DEF AtSkip
    <2>7. AtWhile'
      BY <2>3, <2>4, <1>2, <1>3, <1>5 DEF AtWhile
    <2>8. Counted'
      <3>1. /\ Len(tbl) = hlen + Used /\ (dir = "v" => ~SameRatio) /\ (hlen > 0 => hlen = Needed("h"))
            /\ Len(tbl) \in Nat /\ hlen \in Nat
            /\ Needed("h")' = Needed("h") /\ SameRatio' = SameRatio
        BY <1>1, <1>2 DEF TableInv, Counted, TableTypeOK, Needed, SameRatio
      <3>2. Len(tbl') = Len(tbl) + 1
        BY <2>2 DEF Push, TableInv, TableTypeOK
      <3>3. Used = 4 - nxt /\ Used' = 4 - nxt + 1
        BY <2>3, <2>4, <1>3 DEF Used
      <3> QED
        BY <3>1, <3>2, <3>3, <1>2, <1>3, <1>5 DEF Counted, RefusedRightly
    <2> QED
      BY <2>3, <2>5, <2>6, <2>7, <2>8, <1>5 DEF TableInv, Regs, AtLoop, AtAdvance, AtEmit, AtReturn
  <1> QED
    BY <1>4, <1>5 DEF Skip

\* Nothing is in the table before the first ratio is within the limits.
LEMMA GcdFrame ==
  ASSUME TableInv, pc \in {"idle", "gcd", "ratio"}, pc' \in {"gcd", "ratio"},
         pc' = "ratio" => dir' = "h", UNCHANGED <<regs, table, hlen, index>>
  PROVE  Table' /\ Counted' /\ Regs' /\ LimitsOk'
  <1>1. tbl = <<>> /\ at = <<>> /\ hlen = 0 /\ cur = Start
    BY DEF TableInv, Table, Shape
  <1>2. tbl' = <<>> /\ at' = <<>> /\ hlen' = 0 /\ cur' = Start
    BY <1>1 DEF table
  <1>3. Shape' /\ EntriesValid' /\ Sampled' /\ WidthWhole'
    BY <1>2 DEF Shape, EntriesValid, Sampled, WidthWhole, Scaling, PpTblMax
  <1>4. WholePattern' /\ Regs' /\ LimitsOk'
    BY DEF WholePattern, LimitsOk, Scaling, Regs, AtLoop, AtAdvance, AtEmit, AtSkip, AtWhile, AtReturn
  <1>5. Counted'
    BY <1>2 DEF Counted, RefusedRightly, Scaling
  <1> QED
    BY <1>3, <1>4, <1>5 DEF Table

\* pp_gcd begins with two sizes of a picture.
LEMMA GcdOfLin ==
  ASSUME NEW a \in Nat, NEW b \in Nat, a > 0, b > 0, GcdOf(a, b)
  PROVE  /\ x' \in Nat /\ y' \in Nat /\ y' > 0
         /\ Lin(x', a, b) /\ Lin(y', a, b) /\ Lin(a, x', y') /\ Lin(b, x', y')
  <1>1. CASE a < b
    <2>1. x' = b /\ y' = a
      BY <1>1 DEF GcdOf
    <2> QED
      BY <2>1, LinStart
  <1>2. CASE ~(a < b)
    <2>1. x' = a /\ y' = b
      BY <1>2 DEF GcdOf
    <2> QED
      BY <2>1, LinStart
  <1> QED
    BY <1>1, <1>2

\* A call whose sizes are positive.
LEMMA BuildInv ==
  ASSUME TableInv, NEW g \in Calls, Build(g)
  PROVE  TableInv'
  <1>1. g \in [sw : Nat, sh : Nat, dw : Nat, dh : Nat]
    BY CallsAssumption
  <1>2. /\ pc = "idle" /\ pc' = "gcd" /\ c' = g /\ dir' = "h" /\ GcdOf(g.sw, g.dw)
        /\ UNCHANGED <<ratio, regs, table, hlen, index>>
    BY DEF Build
  <1>3. g.sw > 0 /\ g.sh > 0 /\ g.dw > 0 /\ g.dh > 0
    BY <1>1 DEF Build, PpGeometry
  <1>4. Table' /\ Counted' /\ Regs' /\ LimitsOk'
    BY <1>2, GcdFrame
  <1>5. /\ x' \in Nat /\ y' \in Nat /\ y' > 0
        /\ Lin(x', g.sw, g.dw) /\ Lin(y', g.sw, g.dw) /\ Lin(g.sw, x', y') /\ Lin(g.dw, x', y')
    BY <1>1, <1>2, <1>3, GcdOfLin
  <1>6. Src("h")' = g.sw /\ Dst("h")' = g.dw /\ Src("v")' = g.sh /\ Dst("v")' = g.dh
    BY <1>2 DEF Src, Dst
  <1>7. SizesOk'
    BY <1>1, <1>3, <1>6 DEF SizesOk, Dirs
  <1>8. GcdOk'
    BY <1>2, <1>5, <1>6 DEF GcdOk
  <1>9. RatioOk'
    BY <1>2 DEF RatioOk, Known
  <1>10. TableTypeOK'
    BY <1>1, <1>2, <1>5 DEF TableInv, TableTypeOK, Dirs, ratio, regs, table
  <1> QED
    BY <1>4, <1>7, <1>8, <1>9, <1>10 DEF TableInv, Ratios

\* A round of pp_gcd.
LEMMA GcdStepInv ==
  ASSUME TableInv, GcdStep
  PROVE  TableInv'
  <1>1. /\ pc = "gcd" /\ pc' = "gcd" /\ x' = y /\ y' = x % y /\ x % y # 0
        /\ UNCHANGED <<c, dir, ratio, regs, table, hlen, index>>
    BY DEF GcdStep
  <1>2. Table' /\ Counted' /\ Regs' /\ LimitsOk'
    BY <1>1, GcdFrame
  <1>3. \A d \in Dirs : Src(d)' = Src(d) /\ Dst(d)' = Dst(d) /\ Known(d)' = Known(d)
    BY <1>1 DEF Src, Dst, Known
  <1>4. SizesOk' /\ RatioOk'
    BY <1>1, <1>3 DEF TableInv, Ratios, SizesOk, RatioOk, ratio
  <1>5. x \in Nat /\ y \in Nat /\ y > 0 /\ dir \in Dirs
    BY <1>1 DEF TableInv, TableTypeOK, Ratios, GcdOk
  <1> PICK s \in Nat : s = Src(dir)
    BY <1>1, <1>5 DEF TableInv, Ratios, SizesOk
  <1> PICK t \in Nat : t = Dst(dir)
    BY <1>1, <1>5 DEF TableInv, Ratios, SizesOk
  <1>6. Lin(x, s, t) /\ Lin(y, s, t) /\ Lin(s, x, y) /\ Lin(t, x, y)
    BY <1>1 DEF TableInv, Ratios, GcdOk
  <1>7. Lin(x % y, s, t) /\ Lin(s, y, x % y) /\ Lin(t, y, x % y)
    BY <1>5, <1>6, LinStep
  <1>8. x % y \in Nat /\ x % y > 0
    BY <1>1, <1>5
  <1>9. GcdOk'
    BY <1>1, <1>3, <1>5, <1>6, <1>7, <1>8 DEF GcdOk
  <1>10. TableTypeOK'
    BY <1>1, <1>5, <1>8 DEF TableInv, TableTypeOK, ratio, regs, table
  <1> QED
    BY <1>2, <1>4, <1>9, <1>10 DEF TableInv, Ratios

\* pp_gcd returns and a ratio is known.
LEMMA GcdDoneInv ==
  ASSUME TableInv, GcdDone
  PROVE  TableInv'
  <1>1. /\ pc = "gcd" /\ x % y = 0
        /\ num' = [num EXCEPT ![dir] = Src(dir) \div y]
        /\ den' = [den EXCEPT ![dir] = Dst(dir) \div y]
        /\ UNCHANGED <<c, regs, table, hlen, index>>
    BY DEF GcdDone
  <1>2. \/ dir = "h" /\ pc' = "gcd" /\ dir' = "v" /\ GcdOf(c.sh, c.dh)
        \/ dir = "v" /\ pc' = "ratio" /\ dir' = "h" /\ UNCHANGED <<x, y>>
    BY DEF GcdDone, TableInv, TableTypeOK, Dirs
  <1>3. Table' /\ Counted' /\ Regs' /\ LimitsOk'
    BY <1>1, <1>2, GcdFrame
  <1>4. \A d \in Dirs : Src(d)' = Src(d) /\ Dst(d)' = Dst(d)
    BY <1>1 DEF Src, Dst
  <1>5. \A d \in Dirs : Src(d) \in Nat /\ Src(d) > 0 /\ Dst(d) \in Nat /\ Dst(d) > 0
    BY <1>1 DEF TableInv, Ratios, SizesOk
  <1>6. SizesOk'
    BY <1>4, <1>5 DEF SizesOk
  <1>7. x \in Nat /\ y \in Nat /\ y > 0 /\ dir \in Dirs /\ num \in [Dirs -> Nat] /\ den \in [Dirs -> Nat]
    BY <1>1 DEF TableInv, TableTypeOK, Ratios, GcdOk
  <1>0. PICK s \in Nat, t \in Nat, a \in Nat, b \in Nat :
          s = Src(dir) /\ t = Dst(dir) /\ a = x /\ b = y
    BY <1>5, <1>7
  <1>8. /\ b > 0 /\ a % b = 0 /\ s > 0 /\ t > 0
        /\ Lin(b, s, t) /\ Lin(s, a, b) /\ Lin(t, a, b)
    BY <1>0, <1>1, <1>5, <1>7 DEF TableInv, Ratios, GcdOk
  <1>9. PICK n \in Nat, m \in Nat : /\ n = s \div b /\ m = t \div b
                                   /\ n > 0 /\ m > 0 /\ n * t = m * s /\ Coprime(n, m)
    BY <1>8, Reduced
  <1>10. num' = [num EXCEPT ![dir] = n] /\ den' = [den EXCEPT ![dir] = m]
    BY <1>0, <1>1, <1>9
  <1>11. /\ num'[dir] > 0 /\ den'[dir] > 0
         /\ num'[dir] * Dst(dir) = den'[dir] * Src(dir)
         /\ Coprime(num'[dir], den'[dir])
    BY <1>0, <1>7, <1>9, <1>10
  <1>12. RatioOk'
    <2>1. CASE dir = "h"
      <3>1. \A d \in Dirs : Known(d)' => d = dir
        BY <1>2, <2>1 DEF Known
      <3> QED
        BY <3>1, <1>4, <1>11 DEF RatioOk
    <2>2. CASE dir = "v"
      <3>1. Known("h")
        BY <1>1, <2>2 DEF Known
      <3>2. num'["h"] = num["h"] /\ den'["h"] = den["h"]
        BY <1>1, <1>7, <2>2 DEF Dirs
      <3>3. /\ num["h"] > 0 /\ den["h"] > 0
            /\ num["h"] * Dst("h") = den["h"] * Src("h")
            /\ Coprime(num["h"], den["h"])
        BY <3>1 DEF TableInv, Ratios, RatioOk, Dirs
      <3>4. "h" \in Dirs /\ Src("h")' = Src("h") /\ Dst("h")' = Dst("h")
        BY <1>4 DEF Dirs
      <3>5. \A d \in Dirs : d = "h" \/ d = dir
        BY <2>2 DEF Dirs
      <3> QED
        BY <3>2, <3>3, <3>4, <3>5, <1>4, <1>7, <1>11 DEF RatioOk
    <2> QED
      BY <2>1, <2>2, <1>7 DEF Dirs
  <1>13. GcdOk' /\ x' \in Nat /\ y' \in Nat
    <2>1. CASE dir = "h"
      <3>1. Src("v") = c.sh /\ Dst("v") = c.dh /\ "v" \in Dirs
        BY DEF Src, Dst, Dirs
      <3>2. c.sh \in Nat /\ c.sh > 0 /\ c.dh \in Nat /\ c.dh > 0
        BY <3>1, <1>5
      <3>3. GcdOf(c.sh, c.dh) /\ dir' = "v"
        BY <1>2, <2>1
      <3>4. /\ x' \in Nat /\ y' \in Nat /\ y' > 0
            /\ Lin(x', c.sh, c.dh) /\ Lin(y', c.sh, c.dh) /\ Lin(c.sh, x', y') /\ Lin(c.dh, x', y')
        BY <3>2, <3>3, GcdOfLin
      <3>5. Src(dir)' = c.sh /\ Dst(dir)' = c.dh
        BY <3>3, <1>1 DEF Src, Dst
      <3> QED
        BY <3>4, <3>5 DEF GcdOk
    <2>2. CASE dir = "v"
      BY <2>2, <1>2, <1>7 DEF GcdOk
    <2> QED
      BY <2>1, <2>2, <1>7 DEF Dirs
  <1>14. TableTypeOK'
    <2>1. num' \in [Dirs -> Nat] /\ den' \in [Dirs -> Nat]
      BY <1>7, <1>10
    <2>2. pc' \in {"gcd", "ratio"} /\ dir' \in Dirs
      BY <1>2 DEF Dirs
    <2> QED
      BY <2>1, <2>2, <1>1, <1>13 DEF TableInv, TableTypeOK, regs, table
  <1> QED
    BY <1>3, <1>6, <1>12, <1>13, <1>14 DEF TableInv, Ratios

\* The limits of the block hold for what gets a table.
LEMMA CheckRatioInv ==
  ASSUME TableInv, CheckRatio
  PROVE  TableInv'
  <1>1. /\ pc = "ratio" /\ UNCHANGED <<c, dir, x, y, ratio, regs, table, hlen, index>>
        /\ pc' = IF \A d \in Dirs : PpRatioOk(num[d], den[d]) THEN "scale" ELSE "fail"
    BY DEF CheckRatio
  <1>2. \A d \in Dirs : Src(d)' = Src(d) /\ Dst(d)' = Dst(d) /\ Known(d)' = TRUE /\ Known(d) = TRUE
    BY <1>1 DEF Src, Dst, Known
  <1>3. SizesOk' /\ GcdOk' /\ RatioOk' /\ LimitsOk'
    <2>1. SizesOk' /\ GcdOk'
      BY <1>1, <1>2 DEF TableInv, Ratios, SizesOk, GcdOk
    <2>2. num' = num /\ den' = den
      BY <1>1 DEF ratio
    <2>3. RatioOk'
      BY <2>2, <1>2 DEF TableInv, Ratios, RatioOk
    <2>4. LimitsOk'
      BY <2>2, <1>1 DEF LimitsOk, Scaling
    <2> QED
      BY <2>1, <2>3, <2>4
  <1>4. tbl' = <<>> /\ at' = <<>> /\ hlen' = 0 /\ cur' = Start /\ dir' = "h"
    BY <1>1 DEF TableInv, Table, Shape, table
  <1>5. Shape' /\ EntriesValid' /\ Sampled' /\ WidthWhole'
    BY <1>1, <1>4 DEF Shape, EntriesValid, Sampled, WidthWhole, Scaling, PpTblMax
  <1>6. WholePattern' /\ Regs'
    BY <1>1 DEF WholePattern, Regs, AtLoop, AtAdvance, AtEmit, AtSkip, AtWhile, AtReturn
  <1>7. TableTypeOK'
    BY <1>1 DEF TableInv, TableTypeOK, ratio, regs, table
  <1>8. Counted'
    <2>1. num' = num /\ den' = den
      BY <1>1 DEF ratio
    <2>2. Used' = 0
      BY <1>4 DEF Used, Start
    <2> QED
      BY <2>1, <2>2, <1>1, <1>4 DEF Counted, RefusedRightly, Scaling
  <1> QED
    BY <1>3, <1>5, <1>6, <1>7, <1>8 DEF TableInv, Ratios, Table

\* A whole pattern of the width, and of the height if it has its own.
LEMMA ReturnInv ==
  ASSUME TableInv, Return
  PROVE  TableInv'
  <1>1. /\ pc = "return" /\ pc \in Scaling
        /\ UNCHANGED <<c, x, y, num, den, v, out_pos, carry, coeff, base, nxt, tbl, at>>
    BY DEF Return, Scaling, ratio, regs
  <1>2. \A d \in Dirs : Src(d)' = Src(d) /\ Dst(d)' = Dst(d)
    BY <1>1 DEF Src, Dst
  <1>3. pc' \in {"done", "scale"}
    BY DEF Return
  <1>4. \A d \in Dirs : Known(d)' = TRUE /\ Known(d) = TRUE
    BY <1>1, <1>3 DEF Known
  <1>5. Ratios'
    <2>1. SizesOk' /\ GcdOk'
      BY <1>1, <1>2, <1>3 DEF TableInv, Ratios, SizesOk, GcdOk
    <2>2. RatioOk'
      BY <1>1, <1>2, <1>4 DEF TableInv, Ratios, RatioOk
    <2>3. LimitsOk'
      BY <1>1 DEF TableInv, Ratios, LimitsOk
    <2> QED
      BY <2>1, <2>2, <2>3 DEF Ratios
  <1> PICK k \in Nat : k = Len(tbl)
    BY DEF TableInv, TableTypeOK
  <1>6. /\ tbl \in Seq(Entries) /\ at \in Seq(Positions) /\ hlen \in Nat /\ dir \in Dirs
        /\ Len(at) = k /\ k > hlen /\ (dir = "h" <=> hlen = 0)
        /\ cur = After(k) /\ cur = [p |-> N, i |-> D]
    BY <1>1 DEF TableInv, TableTypeOK, Table, Shape, Regs, AtReturn
  <1>7. \A j : After(j)' = After(j)
    BY <1>1 DEF After
  <1>8. EntriesValid'
    BY <1>1 DEF TableInv, Table, EntriesValid
  <1>9. at[1] = Start
    BY <1>6 DEF TableInv, Table, Sampled
  <1>c. Len(tbl) = hlen + Needed(dir) /\ (dir = "v" => ~SameRatio) /\ (hlen > 0 => hlen = Needed("h"))
    <2>1. Used = Needed(dir)
      <3>1. cur.p = N /\ cur.i = D
        BY <1>6
      <3>2. N \in Nat /\ D \in Nat /\ D > 0
        BY <1>1, HereFacts
      <3>3. N = 4 * D => N = 4
        <4>1. N = 4 * D => N >= 2 * D
          BY <3>2
        <4> QED
          BY <4>1, <1>1, ExactRatio
      <3> QED
        BY <3>1, <3>3 DEF Used, Needed, N, D
    <2> QED
      BY <2>1, <1>1 DEF TableInv, Counted
  <1>d. /\ Needed("h")' = Needed("h") /\ SameRatio' = SameRatio /\ TotalNeeded' = TotalNeeded
        /\ Needed("h") \in Nat /\ Needed("v") \in Nat
    BY <1>1 DEF Needed, SameRatio, TotalNeeded, TableInv, TableTypeOK, Dirs
  <1>10. CASE dir = "h"
    <2>1. hlen' = k /\ hlen = 0
      BY <1>6, <1>10 DEF Return
    <2>2. \A j \in 1..k : DirOf(j)' = "h" /\ DirOf(j) = "h"
      BY <2>1, <1>6 DEF DirOf
    <2>3. Sampled'
      <3> SUFFICES ASSUME NEW j \in 1..k
                   PROVE  /\ at[j] = IF j \in {1, k + 1} THEN Start ELSE After(j - 1)
                          /\ tbl[j].o =>
                               LET s == PpSample(at[j].i, num["h"], den["h"])
                               IN at[j].p = s.p /\ tbl[j].w = PpWeight(s.c, s.base)
        BY <2>1, <2>2, <1>1, <1>7 DEF Sampled
      <3>1. DirOf(j) = "h"
        BY <2>2
      <3> QED
        BY <3>1, <2>1 DEF TableInv, Table, Sampled
    <2>4. After(k) = [p |-> num["h"], i |-> den["h"]]
      BY <1>6, <1>10 DEF N, D
    <2>5. WidthWhole'
      BY <2>1, <2>4, <1>1, <1>7 DEF WidthWhole
    <2>6. CASE SameRatio
      <3>1. /\ pc' = "done" /\ UNCHANGED <<dir, cur>>
            /\ index' = [hend |-> k - 1, vstart |-> 0, vend |-> k - 1]
        BY <1>10, <2>6 DEF Return
      <3>2. TableTypeOK'
        <4>1. k - 1 \in Nat
          BY <1>6
        <4> QED
          BY <3>1, <4>1, <2>1, <1>1 DEF TableInv, TableTypeOK
      <3>3. Shape'
        BY <3>1, <2>1, <1>1, <1>6 DEF Shape, Scaling
      <3>4. WholePattern'
        <4>1. index'.hend = k - 1 /\ index'.vstart = 0 /\ index'.vend = k - 1
          BY <3>1
        <4>2. num["v"] = num["h"] /\ den["v"] = den["h"]
          BY <2>6 DEF SameRatio
        <4>3. (k - 1) + 1 = k /\ 0 + 1 = 1 /\ k > 0
          BY <1>6
        <4> QED
          BY <4>1, <4>2, <4>3, <2>4, <1>1, <1>6, <1>7, <1>9 DEF WholePattern
      <3>5. Counted'
        BY <3>1, <2>1, <2>6, <1>1, <1>10, <1>c, <1>d DEF Counted, RefusedRightly, TotalNeeded, Scaling
      <3> QED
        BY <3>1, <3>2, <3>3, <3>4, <3>5, <2>3, <2>5, <1>5, <1>8
        DEF TableInv, Table, Regs, AtLoop, AtAdvance, AtEmit, AtSkip, AtWhile, AtReturn
    <2>7. CASE ~SameRatio
      <3>1. pc' = "scale" /\ dir' = "v" /\ cur' = Start /\ index' = index
        BY <1>10, <2>7 DEF Return
      <3>2. TableTypeOK'
        BY <3>1, <2>1, <1>1 DEF TableInv, TableTypeOK, Dirs, Start, Positions
      <3>3. Shape'
        BY <3>1, <2>1, <1>1, <1>6 DEF Shape, Scaling
      <3>4. WholePattern'
        BY <3>1 DEF WholePattern
      <3>5. Counted'
        <4>1. Used' = 0
          BY <3>1 DEF Used, Start
        <4> QED
          BY <4>1, <3>1, <2>1, <2>7, <1>1, <1>6, <1>10, <1>c, <1>d DEF Counted, RefusedRightly
      <3> QED
        BY <3>1, <3>2, <3>3, <3>4, <3>5, <2>3, <2>5, <1>5, <1>8
        DEF TableInv, Table, Regs, AtLoop, AtAdvance, AtEmit, AtSkip, AtWhile, AtReturn
    <2> QED
      BY <2>6, <2>7
  <1>11. CASE dir = "v"
    <2>1. /\ pc' = "done" /\ UNCHANGED <<dir, cur, hlen>>
          /\ index' = [hend |-> hlen - 1, vstart |-> hlen, vend |-> k - 1]
      BY <1>11 DEF Return
    <2>2. hlen > 0 /\ hlen < k
      BY <1>6, <1>11
    <2>3. \A j : DirOf(j)' = DirOf(j)
      BY <2>1 DEF DirOf
    <2>4. Sampled'
      BY <2>1, <2>3, <1>1, <1>7 DEF TableInv, Table, Sampled
    <2>5. WidthWhole'
      BY <2>1, <1>1, <1>7 DEF TableInv, Table, WidthWhole
    <2>6. TableTypeOK'
      <3>1. hlen - 1 \in Nat /\ k - 1 \in Nat
        BY <1>6, <2>2
      <3> QED
        BY <3>1, <2>1, <1>1, <1>6 DEF TableInv, TableTypeOK
    <2>7. Shape'
      BY <2>1, <1>1, <1>6 DEF Shape, Scaling
    <2>8. WholePattern'
      <3>1. index'.hend = hlen - 1 /\ index'.vstart = hlen /\ index'.vend = k - 1
        BY <2>1
      <3>2. After(hlen) = [p |-> num["h"], i |-> den["h"]]
        BY <2>2 DEF TableInv, Table, WidthWhole
      <3>3. After(k) = [p |-> num["v"], i |-> den["v"]]
        BY <1>6, <1>11 DEF N, D
      <3>4. at[hlen + 1] = Start
        <4>1. hlen + 1 \in 1..Len(tbl)
          BY <2>2, <1>6
        <4> QED
          BY <4>1 DEF TableInv, Table, Sampled
      <3>5. (hlen - 1) + 1 = hlen /\ (k - 1) + 1 = k
        BY <1>6
      <3> QED
        BY <3>1, <3>2, <3>3, <3>4, <3>5, <2>2, <1>1, <1>6, <1>7, <1>9 DEF WholePattern
    <2>9. Counted'
      BY <2>1, <2>2, <1>1, <1>11, <1>c, <1>d DEF Counted, RefusedRightly, TotalNeeded, Scaling
    <2> QED
      BY <2>1, <2>4, <2>5, <2>6, <2>7, <2>8, <2>9, <1>5, <1>8
      DEF TableInv, Table, Regs, AtLoop, AtAdvance, AtEmit, AtSkip, AtWhile, AtReturn
  <1> QED
    BY <1>6, <1>10, <1>11 DEF Dirs

\* Before a call, and after one.
LEMMA IdleInv ==
  ASSUME Init
  PROVE  TableInv
  <1>1. TableTypeOK
    BY DEF Init, TableTypeOK, NoSizes, NoIndex, Start, Positions, Dirs
  <1>2. Ratios
    BY DEF Init, Ratios, SizesOk, GcdOk, RatioOk, LimitsOk, Known, Scaling
  <1>3. Shape /\ EntriesValid /\ Sampled /\ WidthWhole /\ WholePattern
    BY DEF Init, Shape, EntriesValid, Sampled, WidthWhole, WholePattern, Scaling, PpTblMax
  <1>4. Regs
    BY DEF Init, Regs, AtLoop, AtAdvance, AtEmit, AtSkip, AtWhile, AtReturn
  <1>5. Counted
    BY DEF Init, Counted, RefusedRightly, Scaling
  <1> QED
    BY <1>1, <1>2, <1>3, <1>4, <1>5 DEF TableInv, Table

\* Leave is where Init is.
LEMMA LeaveInv ==
  ASSUME Leave
  PROVE  TableInv'
  <1>1. TableTypeOK'
    BY DEF Leave, TableTypeOK, NoSizes, NoIndex, Start, Positions, Dirs
  <1>2. Ratios'
    BY DEF Leave, Ratios, SizesOk, GcdOk, RatioOk, LimitsOk, Known, Scaling
  <1>3. Shape' /\ EntriesValid' /\ Sampled' /\ WidthWhole' /\ WholePattern'
    BY DEF Leave, Shape, EntriesValid, Sampled, WidthWhole, WholePattern, Scaling, PpTblMax
  <1>4. Regs'
    BY DEF Leave, Regs, AtLoop, AtAdvance, AtEmit, AtSkip, AtWhile, AtReturn
  <1>5. Counted'
    BY DEF Leave, Counted, RefusedRightly, Scaling
  <1> QED
    BY <1>1, <1>2, <1>3, <1>4, <1>5 DEF TableInv, Table

\* A stuttering step.
LEMMA StutterInv ==
  ASSUME TableInv, UNCHANGED vars
  PROVE  TableInv'
  <1>1. UNCHANGED <<pc, c, dir, x, y, num, den, v, out_pos, carry, coeff, base, nxt, tbl, at, cur, hlen, index>>
    BY DEF vars, ratio, regs, table
  <1>2. TableTypeOK'
    BY <1>1 DEF TableInv, TableTypeOK
  <1>3. \A d \in Dirs : Src(d)' = Src(d) /\ Dst(d)' = Dst(d) /\ Known(d)' = Known(d)
    BY <1>1 DEF Src, Dst, Known
  <1>4. Src(dir)' = Src(dir) /\ Dst(dir)' = Dst(dir) /\ N' = N /\ D' = D
    BY <1>1 DEF Src, Dst, N, D
  <1>5. Ratios'
    BY <1>1, <1>3, <1>4 DEF TableInv, Ratios, SizesOk, GcdOk, RatioOk, LimitsOk
  <1>6. \A j : DirOf(j)' = DirOf(j) /\ After(j)' = After(j)
    BY <1>1 DEF DirOf, After
  <1>7. Shape' /\ EntriesValid' /\ WidthWhole' /\ WholePattern'
    BY <1>1, <1>6 DEF TableInv, Table, Shape, EntriesValid, WidthWhole, WholePattern
  <1>8. Sampled'
    BY <1>1, <1>6 DEF TableInv, Table, Sampled
  <1>9. AtLoop' /\ AtAdvance' /\ AtSkip' /\ AtWhile' /\ AtReturn'
    BY <1>1, <1>4 DEF TableInv, Regs, AtLoop, AtAdvance, AtSkip, AtWhile, AtReturn, DownRegs
  <1>10. AtEmit'
    BY <1>1, <1>4 DEF TableInv, Regs, AtEmit, DownRegs
  <1>11. Counted'
    <2>1. /\ Used' = Used /\ SameRatio' = SameRatio
          /\ Needed("h")' = Needed("h") /\ TotalNeeded' = TotalNeeded
      BY <1>1, <1>4 DEF Used, Needed, SameRatio, TotalNeeded
    <2> QED
      BY <2>1, <1>1 DEF TableInv, Counted, RefusedRightly
  <1> QED
    BY <1>2, <1>5, <1>7, <1>8, <1>9, <1>10, <1>11 DEF TableInv, Table, Regs

\* Every step of pp_build_resize keeps the invariant.
LEMMA NextInv ==
  ASSUME TableInv, [Next]_vars
  PROVE  TableInv'
  <1>1. ASSUME Step PROVE TableInv'
    BY <1>1, GcdStepInv, GcdDoneInv, CheckRatioInv, Scale1dInv, LoopUpInv, LoopExactInv, LoopDownInv,
       AdvanceExactInv, AdvanceDownInv, EmitInv, SkipInv, WhileInv, ReturnInv, LeaveInv
    DEF Step
  <1> QED
    BY <1>1, BuildInv, StutterInv DEF Next

\* The inductive invariant holds for all sizes: loop positions of pp_scale_1d,
\* combinations of pp_gcd, and the table written so far.
THEOREM TableInductive == Spec => []TableInv
  <1>1. Init => TableInv
    BY IdleInv
  <1>2. TableInv /\ [Next]_vars => TableInv'
    BY NextInv
  <1> QED
    BY <1>1, <1>2, PTL DEF Spec

\* Bezout's identity rules out a common divisor.
LEMMA InvLowestTerms ==
  ASSUME TableInv
  PROVE  LowestTerms
  <1> SUFFICES ASSUME NEW d \in Dirs, Known(d)
               PROVE  /\ num[d] * Dst(d) = den[d] * Src(d)
                      /\ \A k \in 1..num[d] : num[d] % k = 0 /\ den[d] % k = 0 => k = 1
    BY DEF LowestTerms
  <1>1. num[d] * Dst(d) = den[d] * Src(d) /\ Coprime(num[d], den[d])
    BY DEF TableInv, Ratios, RatioOk
  <1> PICK n \in Nat : n = num[d]
    BY DEF TableInv, TableTypeOK
  <1> PICK m \in Nat : m = den[d]
    BY DEF TableInv, TableTypeOK
  <1>2. ASSUME NEW k \in 1..n, n % k = 0, m % k = 0 PROVE k = 1
    <2>1. k \in Nat /\ k > 0 /\ Coprime(n, m)
      BY <1>1, <1>2
    <2> QED
      BY <2>1, <1>2, CoprimeDivisor
  <1> QED
    BY <1>1, <1>2

\* For every size of picture: the state of pp_build_resize is well typed, the table it
\* builds resizes the picture, and no picture that the block could resize is refused.
THEOREM TableSafe == Spec => [](TableTypeOK /\ TableCorrect /\ RefusalJust)
  <1>1. TableInv => TableTypeOK /\ TableCorrect
    BY DEF TableInv, Table, TableCorrect
  <1>2. TableInv => RefusalJust
    BY InvLowestTerms DEF TableInv, Counted, RefusalJust
  <1> QED
    BY <1>1, <1>2, TableInductive, PTL

-----------------------------------------------------------------------------
\* How to show that one rank is lower than another.
LEMMA LowerAt ==
  ASSUME NEW a, NEW b, \A k \in 1..4 : a[k] \in Nat /\ b[k] \in Nat,
         \/ a[1] < b[1]
         \/ a[1] = b[1] /\ a[2] < b[2]
         \/ a[1] = b[1] /\ a[2] = b[2] /\ a[3] < b[3]
         \/ a[1] = b[1] /\ a[2] = b[2] /\ a[3] = b[3] /\ a[4] < b[4]
  PROVE  Lower(a, b)
  <1>1. ASSUME NEW k \in 1..4, a[k] < b[k], \A j \in 1..k-1 : a[j] = b[j]
        PROVE  Lower(a, b)
    BY <1>1 DEF Lower
  <1>2. CASE a[1] < b[1]
    <2>1. \A j \in 1..1-1 : a[j] = b[j]
      OBVIOUS
    <2> QED
      BY <2>1, <1>1, <1>2
  <1>3. CASE a[1] = b[1] /\ a[2] < b[2]
    <2>1. \A j \in 1..2-1 : a[j] = b[j]
      <3>1. \A j \in 1..2-1 : j = 1
        OBVIOUS
      <3> QED
        BY <3>1, <1>3
    <2> QED
      BY <2>1, <1>1, <1>3
  <1>4. CASE a[1] = b[1] /\ a[2] = b[2] /\ a[3] < b[3]
    <2>1. \A j \in 1..3-1 : a[j] = b[j]
      <3>1. \A j \in 1..3-1 : j = 1 \/ j = 2
        OBVIOUS
      <3> QED
        BY <3>1, <1>4
    <2> QED
      BY <2>1, <1>1, <1>4
  <1>5. CASE a[1] = b[1] /\ a[2] = b[2] /\ a[3] = b[3] /\ a[4] < b[4]
    <2>1. \A j \in 1..4-1 : a[j] = b[j]
      <3>1. \A j \in 1..4-1 : j = 1 \/ j = 2 \/ j = 3
        OBVIOUS
      <3> QED
        BY <3>1, <1>5
    <2> QED
      BY <2>1, <1>1, <1>5
  <1> QED
    BY <1>2, <1>3, <1>4, <1>5

\* The entries there is room for, and the rank as naturals.
Room == PpTblMax - Len(tbl)
RankOk == Part \in Nat /\ Room \in Nat /\ Place \in Nat /\ Rounds \in Nat

\* The four parts of the rank are naturals: the table has room for no negative number
\* of entries.
LEMMA RankNat ==
  ASSUME TableInv
  PROVE  RankOk
  <1>1. Part \in Nat /\ Place \in Nat
    BY DEF Part, Place
  <1>2. Room \in Nat
    BY DEF TableInv, TableTypeOK, Table, EntriesValid, PpTblMax, Room
  <1>3. Rounds \in Nat
    <2>1. v \in Nat /\ out_pos \in Nat /\ y \in Nat
      BY DEF TableInv, TableTypeOK
    <2> QED
      BY <2>1 DEF Rounds
  <1> QED
    BY <1>1, <1>2, <1>3 DEF RankOk

\* A step lowers the rank in one of four ways.
LEMMA RankLower ==
  ASSUME RankOk, RankOk',
         \/ Part' < Part
         \/ Part' = Part /\ Room' < Room
         \/ Part' = Part /\ Room' = Room /\ Place' < Place
         \/ Part' = Part /\ Room' = Room /\ Place' = Place /\ Rounds' < Rounds
  PROVE  Lower(Rank', Rank)
  <1>1. /\ Rank[1] = Part /\ Rank[2] = Room /\ Rank[3] = Place /\ Rank[4] = Rounds
        /\ Rank'[1] = Part' /\ Rank'[2] = Room' /\ Rank'[3] = Place' /\ Rank'[4] = Rounds'
    BY DEF Rank, Room
  <1>2. \A k \in 1..4 : k = 1 \/ k = 2 \/ k = 3 \/ k = 4
    OBVIOUS
  <1>3. \A k \in 1..4 : Rank'[k] \in Nat /\ Rank[k] \in Nat
    BY <1>1, <1>2 DEF RankOk
  <1> QED
    BY <1>1, <1>3, LowerAt

\* The rounds of pp_gcd: remainders get smaller.
LEMMA GcdStepLower ==
  ASSUME TableInv, GcdStep, RankOk, RankOk'
  PROVE  Lower(Rank', Rank)
  <1>1. pc = "gcd" /\ pc' = "gcd" /\ dir' = dir /\ tbl' = tbl /\ y' = x % y
    BY DEF GcdStep, table
  <1>2. x \in Nat /\ y \in Nat /\ y > 0
    BY <1>1 DEF TableInv, TableTypeOK, Ratios, GcdOk
  <1>3. x % y < y
    BY <1>2
  <1>4. Part' = Part /\ Room' = Room /\ Place' = Place
    BY <1>1 DEF Part, Room, Place
  <1>5. Rounds' < Rounds
    BY <1>1, <1>3 DEF Rounds
  <1> QED
    BY <1>4, <1>5, RankLower

\* The steps that go from one part of pp_build_resize to the next.
LEMMA PartLower ==
  ASSUME TableInv, RankOk, RankOk', GcdDone \/ CheckRatio \/ Return \/ Leave
  PROVE  Lower(Rank', Rank)
  <1>1. dir = "h" \/ dir = "v"
    BY DEF TableInv, TableTypeOK, Dirs
  <1>2. pc = "ratio" => dir = "h"
    BY DEF TableInv, Table, Shape
  <1>3. Part' < Part
    <2>1. CASE GcdDone
      BY <2>1, <1>1 DEF GcdDone, Part
    <2>2. CASE CheckRatio
      BY <2>2, <1>2 DEF CheckRatio, Part
    <2>3. CASE Return
      BY <2>3, <1>1 DEF Return, Part
    <2>4. CASE Leave
      BY <2>4 DEF Leave, Part
    <2> QED
      BY <2>1, <2>2, <2>3, <2>4
  <1> QED
    BY <1>3, RankLower

\* The steps that go on within a round of pp_scale_1d.
LEMMA PlaceLower ==
  ASSUME TableInv, RankOk, RankOk', Scale1d \/ LoopUp \/ LoopExact \/ LoopDown \/ While
  PROVE  Lower(Rank', Rank)
  <1>1. dir' = dir /\ tbl' = tbl
    BY DEF Scale1d, LoopUp, LoopExact, LoopDown, While, table
  <1>2. \/ pc \in {"scale", "while"} /\ pc' \in {"emit", "loop", "fail", "return"}
        \/ pc = "loop" /\ pc' \in {"emit", "advance"}
    BY DEF Scale1d, LoopUp, LoopExact, LoopDown, While
  <1>3. Room' = Room
    BY <1>1 DEF Room
  <1>4. CASE pc' = "fail"
    <2>1. Part' < Part
      BY <1>2, <1>4 DEF Part
    <2> QED
      BY <2>1, RankLower
  <1>5. CASE pc' # "fail"
    <2>1. Part' = Part
      BY <1>1, <1>2, <1>5 DEF Part
    <2>2. Place' < Place
      BY <1>2, <1>5 DEF Place
    <2> QED
      BY <2>1, <2>2, <1>3, RankLower
  <1> QED
    BY <1>4, <1>5

\* The rounds of the two inner loops: the pixels to go on by get fewer.
LEMMA AdvanceLower ==
  ASSUME TableInv, RankOk, RankOk', AdvanceExact \/ AdvanceDown
  PROVE  Lower(Rank', Rank)
  <1>1. pc = "advance" /\ pc \in Scaling /\ pc' \in {"advance", "emit"}
    BY DEF AdvanceExact, AdvanceDown, Scaling
  <1>2. UNCHANGED <<dir, num, den, tbl>>
    BY DEF AdvanceExact, AdvanceDown, ratio, table
  <1>3. N' = N /\ D' = D
    BY <1>2 DEF N, D
  <1>4. N \in Nat /\ D \in Nat /\ D > 0 /\ v \in Nat /\ out_pos \in Nat
    BY <1>1, HereFacts DEF TableInv, TableTypeOK
  <1>5. Part' = Part /\ Room' = Room
    BY <1>1, <1>2 DEF Part, Room
  <1>6. CASE pc' = "emit"
    <2>1. Place' < Place
      BY <1>1, <1>6 DEF Place
    <2> QED
      BY <2>1, <1>5, RankLower
  <1>7. CASE pc' = "advance"
    <2>1. Place' = Place
      BY <1>1, <1>7 DEF Place
    <2>2. CASE AdvanceExact
      <3>1. N >= 2 * D /\ v >= D /\ v' = v - D
        BY <2>2, <1>7 DEF AdvanceExact
      <3>2. ~(N < 2 * D)
        BY <3>1, <1>4
      <3>3. Rounds = v
        BY <3>1, <3>2, <1>1 DEF Rounds
      <3>4. Rounds' = v'
        BY <3>1, <3>2, <1>3, <1>7 DEF Rounds
      <3>5. Rounds' < Rounds
        BY <3>1, <3>3, <3>4, <1>4
      <3> QED
        BY <3>5, <2>1, <1>5, RankLower
    <2>3. CASE AdvanceDown
      <3>1. N < 2 * D /\ v < out_pos /\ v' = v + 2 * D /\ out_pos' = out_pos
        BY <2>3, <1>7 DEF AdvanceDown
      <3>2. ~(N >= 2 * D)
        BY <3>1, <1>4
      <3>3. Rounds = out_pos - v
        BY <3>1, <3>2, <1>1 DEF Rounds
      <3>4. Rounds' = IF v + 2 * D < out_pos THEN out_pos - (v + 2 * D) ELSE 0
        BY <3>1, <3>2, <1>3, <1>7 DEF Rounds
      <3>5. Rounds' < Rounds
        BY <3>1, <3>3, <3>4, <1>4
      <3> QED
        BY <3>5, <2>1, <1>5, RankLower
    <2> QED
      BY <2>2, <2>3
  <1> QED
    BY <1>1, <1>6, <1>7

\* An entry takes room; without room the call ends.
LEMMA EntryLower ==
  ASSUME TableInv, RankOk, RankOk', Emit \/ Skip
  PROVE  Lower(Rank', Rank)
  <1>1. pc \in {"emit", "skip"} /\ dir' = dir
    BY DEF Emit, Skip
  <1>2. \/ pc' = "fail"
        \/ pc' \in {"skip", "while"} /\ \E e : tbl' = Append(tbl, e)
    BY DEF Emit, Skip, NoRoom, Push
  <1>3. CASE pc' = "fail"
    <2>1. Part' < Part
      BY <1>1, <1>3 DEF Part
    <2> QED
      BY <2>1, RankLower
  <1>4. CASE pc' # "fail"
    <2>1. Part' = Part
      BY <1>1, <1>2, <1>4 DEF Part
    <2>2. Room' < Room
      <3>1. PICK e : tbl' = Append(tbl, e)
        BY <1>2, <1>4
      <3>2. tbl \in Seq(Entries)
        BY DEF TableInv, TableTypeOK
      <3>3. Len(tbl') = Len(tbl) + 1 /\ Len(tbl) \in Nat
        BY <3>1, <3>2
      <3> QED
        BY <3>3 DEF Room, PpTblMax
    <2> QED
      BY <2>1, <2>2, RankLower
  <1> QED
    BY <1>3, <1>4

\* For all sizes: every step of pp_build_resize, in whatever loop, brings the call nearer
\* to its end.
THEOREM TableProgress == Spec => Progress
  <1>1. TableInv => RankOk
    BY RankNat
  <1>2. TableInv /\ RankOk /\ RankOk' /\ [Next]_vars => [pc # "idle" => Lower(Rank', Rank)]_vars
    <2> SUFFICES ASSUME TableInv, RankOk, RankOk', Next, pc # "idle"
                 PROVE  Lower(Rank', Rank)
      OBVIOUS
    <2>1. Step
      BY DEF Next, Build
    <2> QED
      BY <2>1, GcdStepLower, PartLower, PlaceLower, AdvanceLower, EntryLower DEF Step
  <1> QED
    BY <1>1, <1>2, TableInductive, PTL DEF Spec, Progress
=============================================================================
