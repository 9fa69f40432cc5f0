----------------------------- MODULE RangeProofs ----------------------------
(***************************************************************************)
(* A lookup in the table of IP ranges finds what its address was last      *)
(* given, for every number of bytes of an address, for bytes of any number *)
(* of bits, any ranges and any values: what the blocks of a range are, and *)
(* what splitting and storing an entry of the trie does to a lookup.       *)
(***************************************************************************)
EXTENDS RangeTable, WellFoundedInduction, TLAPS

----------------------------------------------------------------------------
\* Numbers, and what is repeated.

LEMMA AllNumbers ==
  ASSUME NEW P \in SUBSET Nat, 0 \in P, \A n \in P : n + 1 \in P
  PROVE  P = Nat
<1> SUFFICES ASSUME Nat \ P # {} PROVE FALSE
  OBVIOUS
<1>1. PICK n \in Nat \ P : \A m \in Nat \ P : <<m, n>> \notin OpToRel(<, Nat)
  BY NatLessThanWellFounded, WFMin
<1>2. n # 0 /\ n \in Nat
  BY <1>1
<1>3. n - 1 \in Nat /\ n - 1 < n /\ n = (n - 1) + 1
  BY <1>2
<1>4. <<n - 1, n>> \in OpToRel(<, Nat)
  BY <1>2, <1>3 DEF OpToRel
<1>5. n - 1 \in P
  BY <1>1, <1>3, <1>4
<1> QED
  BY <1>1, <1>3, <1>5

\* A set of numbers has a least one.
LEMMA LeastNumber ==
  ASSUME NEW S \in SUBSET Nat, NEW s \in S
  PROVE  \E n \in S : \A m \in S : n <= m
<1> DEFINE P == {k \in Nat : \A m \in S : m >= k}
<1> SUFFICES ASSUME \A n \in S : \E m \in S : m < n PROVE FALSE
  OBVIOUS
<1>1. 0 \in P
  OBVIOUS
<1>2. ASSUME NEW k \in P PROVE k + 1 \in P
  <2>1. k \notin S
    OBVIOUS
  <2> QED
    BY <2>1
<1> HIDE DEF P
<1>3. P = Nat
  BY <1>1, <1>2, AllNumbers DEF P
<1>4. s + 1 \in P
  BY <1>3
<1> QED
  BY <1>4 DEF P

\* Repeating a step: what the rounds of a loop make of a state they keep in S.
Repeated(f, base, step, N) == f = [k \in 0 .. N |-> IF k = 0 THEN base ELSE step[k][f[k - 1]]]

LEMMA Repeats ==
  ASSUME NEW S, NEW base \in S, NEW N \in Nat, NEW step \in [1 .. N -> [S -> S]]
  PROVE  \E f \in [0 .. N -> S] : Repeated(f, base, step, N)
<1> DEFINE Has(n) == \E f \in [0 .. n -> S] : Repeated(f, base, step, n)
           P == {n \in Nat : n <= N => Has(n)}
<1>1. 0 \in P
  <2> DEFINE f == [k \in 0 .. 0 |-> base]
  <2>1. f \in [0 .. 0 -> S] /\ Repeated(f, base, step, 0)
    BY DEF Repeated
  <2> QED
    BY <2>1
<1>2. ASSUME NEW n \in P PROVE n + 1 \in P
  <2> SUFFICES ASSUME n + 1 <= N PROVE Has(n + 1)
    OBVIOUS
  <2>1. PICK f \in [0 .. n -> S] : Repeated(f, base, step, n)
    OBVIOUS
  <2> DEFINE g == [k \in 0 .. n + 1 |-> IF k = 0 THEN base ELSE step[k][f[k - 1]]]
  <2>2. \A k \in 0 .. n : g[k] = f[k]
    BY <2>1 DEF Repeated
  <2>3. \A k \in 1 .. n + 1 : k - 1 \in 0 .. n /\ k \in 1 .. N
    OBVIOUS
  <2>4. g \in [0 .. n + 1 -> S]
    <3>1. ASSUME NEW k \in 1 .. n + 1 PROVE step[k][f[k - 1]] \in S
      BY <2>3, <2>1
    <3> QED
      BY <3>1
  <2>5. g = [k \in 0 .. n + 1 |-> IF k = 0 THEN base ELSE step[k][g[k - 1]]]
    <3>1. ASSUME NEW k \in 0 .. n + 1, k # 0 PROVE step[k][f[k - 1]] = step[k][g[k - 1]]
      <4> HIDE DEF g
      <4>1. k - 1 \in 0 .. n
        BY <3>1
      <4>2. g[k - 1] = f[k - 1]
        BY <2>2, <4>1
      <4> QED
        BY <4>2
    <3> QED
      BY <3>1
  <2> QED
    BY <2>4, <2>5 DEF Repeated
<1> HIDE DEF Has
<1>3. P = Nat
  BY <1>1, <1>2, AllNumbers
<1> QED
  BY <1>3 DEF Has

----------------------------------------------------------------------------
\* Powers.

\* The function by which Power is defined.
PowerIs(f, b, n) == f = [k \in 0 .. n |-> IF k = 0 THEN 1 ELSE b * f[k - 1]]
Powers(b, n) == CHOOSE f : PowerIs(f, b, n)

LEMMA PowerIsLast ==
  ASSUME NEW b, NEW n
  PROVE  Power(b, n) = Powers(b, n)[n]
BY DEF Power, Powers, PowerIs

LEMMA PowersAre ==
  ASSUME NEW b \in Nat, NEW n \in Nat
  PROVE  PowerIs(Powers(b, n), b, n)
<1> DEFINE step == [k \in 1 .. n |-> [x \in Nat |-> b * x]]
<1>1. step \in [1 .. n -> [Nat -> Nat]]
  OBVIOUS
<1>2. PICK f \in [0 .. n -> Nat] : Repeated(f, 1, step, n)
  <2> HIDE DEF step
  <2> QED
    BY <1>1, Repeats
<1>3. f = [k \in 0 .. n |-> IF k = 0 THEN 1 ELSE b * f[k - 1]]
  <2>1. \A k \in 0 .. n : k # 0 => k \in 1 .. n /\ k - 1 \in 0 .. n
    OBVIOUS
  <2>2. \A k \in 1 .. n : step[k][f[k - 1]] = b * f[k - 1]
    BY <2>1
  <2> HIDE DEF step
  <2> QED
    BY <1>2, <2>1, <2>2 DEF Repeated
<1> QED
  BY <1>3 DEF Powers, PowerIs

\* A power is one factor more than the power before.
LEMMA PowerStep ==
  ASSUME NEW b \in Nat, NEW n \in Nat
  PROVE  Power(b, 0) = 1 /\ Power(b, n + 1) = b * Power(b, n)
<1>1. Power(b, 0) = 1
  <2>1. PowerIs(Powers(b, 0), b, 0)
    BY PowersAre
  <2> QED
    BY <2>1, PowerIsLast DEF PowerIs
<1> DEFINE f == Powers(b, n)
           g == Powers(b, n + 1)
           P == {k \in Nat : k <= n => f[k] = g[k]}
<1>2. PowerIs(f, b, n) /\ PowerIs(g, b, n + 1)
  BY PowersAre
<1> HIDE DEF f, g
<1>3. 0 \in P
  BY <1>2 DEF PowerIs
<1>4. ASSUME NEW k \in P PROVE k + 1 \in P
  <2> SUFFICES ASSUME k + 1 <= n PROVE f[k + 1] = g[k + 1]
    OBVIOUS
  <2>1. f[k] = g[k] /\ k + 1 \in 0 .. n /\ k + 1 \in 0 .. n + 1 /\ (k + 1) - 1 = k
    OBVIOUS
  <2>2. f[k + 1] = b * f[k]
    BY <1>2, <2>1 DEF PowerIs
  <2>3. g[k + 1] = b * g[k]
    BY <1>2, <2>1 DEF PowerIs
  <2> QED
    BY <2>1, <2>2, <2>3
<1> HIDE DEF P
<1>5. P = Nat
  BY <1>3, <1>4, AllNumbers DEF P
<1>6. f[n] = g[n]
  BY <1>5 DEF P
<1>7. g[n + 1] = b * g[n]
  BY <1>2 DEF PowerIs
<1> QED
  BY <1>1, <1>6, <1>7, PowerIsLast DEF f, g

LEMMA PowerType ==
  ASSUME NEW b \in Nat \ {0}, NEW n \in Nat
  PROVE  Power(b, n) \in Nat \ {0}
<1> DEFINE P == {k \in Nat : Power(b, k) \in Nat \ {0}}
<1>1. 0 \in P
  BY PowerStep
<1>2. ASSUME NEW k \in P PROVE k + 1 \in P
  <2>1. Power(b, k + 1) = b * Power(b, k)
    BY PowerStep
  <2>2. Power(b, k) \in Nat \ {0}
    OBVIOUS
  <2>3. \A x, y \in Nat \ {0} : x * y \in Nat \ {0}
    OBVIOUS
  <2> QED
    BY <2>1, <2>2, <2>3
<1> HIDE DEF P
<1>3. P = Nat
  BY <1>1, <1>2, AllNumbers DEF P
<1> QED
  BY <1>3 DEF P

LEMMA PowerAdds ==
  ASSUME NEW b \in Nat \ {0}, NEW m \in Nat, NEW n \in Nat
  PROVE  Power(b, m + n) = Power(b, m) * Power(b, n)
<1> DEFINE P == {k \in Nat : Power(b, m + k) = Power(b, m) * Power(b, k)}
<1>1. 0 \in P
  BY PowerStep, PowerType
<1>2. ASSUME NEW k \in P PROVE k + 1 \in P
  <2>1. Power(b, k + 1) = b * Power(b, k) /\ Power(b, (m + k) + 1) = b * Power(b, m + k)
    BY PowerStep
  <2>2. Power(b, m + k) = Power(b, m) * Power(b, k)
    OBVIOUS
  <2>3. Power(b, m) \in Nat /\ Power(b, k) \in Nat
    BY PowerType
  <2>4. \A x, y, z \in Nat : z * (x * y) = x * (z * y)
    OBVIOUS
  <2>5. (m + k) + 1 = m + (k + 1)
    OBVIOUS
  <2> QED
    BY <2>1, <2>2, <2>3, <2>4, <2>5
<1> HIDE DEF P
<1>3. P = Nat
  BY <1>1, <1>2, AllNumbers DEF P
<1> QED
  BY <1>3 DEF P

\* Powers of a base above 1 grow without end.
LEMMA PowerGrows ==
  ASSUME NEW b \in Nat, b > 1, NEW n \in Nat
  PROVE  Power(b, n) > n
<1> DEFINE P == {k \in Nat : Power(b, k) > k}
<1>1. 0 \in P
  BY PowerStep
<1>2. ASSUME NEW k \in P PROVE k + 1 \in P
  <2>1. Power(b, k + 1) = b * Power(b, k)
    BY PowerStep
  <2>2. Power(b, k) \in Nat /\ Power(b, k) > k
    BY PowerType
  <2>3. \A y \in Nat : y > k => b * y > k + 1
    OBVIOUS
  <2> QED
    BY <2>1, <2>2, <2>3
<1> HIDE DEF P
<1>3. P = Nat
  BY <1>1, <1>2, AllNumbers DEF P
<1> QED
  BY <1>3 DEF P

Twos == {Power(2, i) : i \in Nat}

\* Of two powers of two the smaller divides the larger.
LEMMA TwosDivide ==
  ASSUME NEW x \in Twos, NEW y \in Twos, x <= y
  PROVE  /\ x \in Nat \ {0} /\ y \in Nat \ {0}
         /\ \E u \in Nat \ {0} : y = x * u
<1>1. PICK i \in Nat, j \in Nat : x = Power(2, i) /\ y = Power(2, j)
  BY DEF Twos
<1>2. x \in Nat \ {0} /\ y \in Nat \ {0}
  BY <1>1, PowerType
<1>3. CASE i <= j
  <2>1. j - i \in Nat /\ j = i + (j - i)
    BY <1>3
  <2>2. Power(2, j) = Power(2, i) * Power(2, j - i) /\ Power(2, j - i) \in Nat \ {0}
    BY <2>1, PowerAdds, PowerType
  <2> QED
    BY <1>1, <1>2, <2>2
<1>4. CASE j < i
  <2>1. i - j \in Nat /\ i = j + (i - j) /\ i - j > 0
    BY <1>4
  <2>2. Power(2, i) = Power(2, j) * Power(2, i - j) /\ Power(2, i - j) \in Nat
    BY <2>1, PowerAdds, PowerType
  <2>3. Power(2, i - j) > 1
    BY <2>1, <2>2, PowerGrows
  <2>4. \A p, q \in Nat : p # 0 /\ q > 1 => p * q > p
    OBVIOUS
  <2>5. x > y
    BY <1>1, <1>2, <2>2, <2>3, <2>4
  <2> QED
    BY <1>2, <2>5
<1> QED
  BY <1>3, <1>4

\* A power of a power of two is one.
LEMMA PowersOfTwos ==
  ASSUME NEW b \in Twos, NEW n \in Nat
  PROVE  Power(b, n) \in Twos
<1>1. PICK i \in Nat : b = Power(2, i)
  BY DEF Twos
<1>2. b \in Nat \ {0}
  BY <1>1, PowerType
<1> DEFINE P == {k \in Nat : Power(b, k) \in Twos}
<1>3. 0 \in P
  BY <1>2, PowerStep DEF Twos
<1>4. ASSUME NEW k \in P PROVE k + 1 \in P
  <2>1. Power(b, k + 1) = b * Power(b, k)
    BY <1>2, PowerStep
  <2>2. PICK j \in Nat : Power(b, k) = Power(2, j)
    BY DEF Twos
  <2>3. Power(2, i + j) = Power(2, i) * Power(2, j) /\ i + j \in Nat
    BY PowerAdds
  <2> QED
    BY <1>1, <2>1, <2>2, <2>3 DEF Twos
<1> HIDE DEF P
<1>5. P = Nat
  BY <1>3, <1>4, AllNumbers DEF P
<1> QED
  BY <1>5 DEF P

----------------------------------------------------------------------------
\* The bytes of an address.

LEMMA Sizes ==
  /\ RtBase \in Nat /\ RtBase > 1 /\ RtBase \in Twos
  /\ RtBytes \in Nat /\ RtBytes > 0
<1>1. PICK bits \in 1 .. RtBase : RtBase = Power(2, bits)
  BY RtAssumption
<1>2. bits \in Nat /\ bits > 0
  BY RtAssumption
<1>3. Power(2, bits) > bits
  BY <1>2, PowerGrows
<1> QED
  BY <1>1, <1>2, <1>3, RtAssumption DEF Twos

\* The value of a byte with k bytes to its right.
Weight(k) == Power(RtBase, k)

LEMMA Weights ==
  ASSUME NEW k \in Nat
  PROVE  /\ Weight(k) \in Nat \ {0} /\ Weight(k) \in Twos
         /\ Weight(k + 1) = RtBase * Weight(k)
         /\ Weight(0) = 1
<1>1. RtBase \in Nat \ {0} /\ RtBase \in Twos
  BY Sizes
<1>2. Power(RtBase, k) \in Nat \ {0}
  BY <1>1, PowerType
<1>3. Power(RtBase, k) \in Twos
  BY <1>1, PowersOfTwos
<1>4. Power(RtBase, k + 1) = RtBase * Power(RtBase, k) /\ Power(RtBase, 0) = 1
  BY <1>1, PowerStep
<1> QED
  BY <1>2, <1>3, <1>4 DEF Weight

\* Division by d: the one number that goes d times into a, and what is left.
LEMMA Divides ==
  ASSUME NEW a \in Nat, NEW d \in Nat \ {0}
  PROVE  /\ a \div d \in Nat /\ a % d \in 0 .. d - 1
         /\ a = d * (a \div d) + (a % d)
         /\ \A q \in Nat, r \in 0 .. d - 1 : a = d * q + r => q = a \div d /\ r = a % d
OBVIOUS

\* Dividing by d and then by e is dividing by their product.
LEMMA DividesTwice ==
  ASSUME NEW a \in Nat, NEW d \in Nat \ {0}, NEW e \in Nat \ {0}
  PROVE  (a \div d) \div e = a \div (e * d) /\ e * d \in Nat \ {0}
<1> DEFINE q == a \div d
           r == a % d
           s == q \div e
           t == q % e
<1>1. q \in Nat /\ r \in 0 .. d - 1 /\ a = d * q + r
  BY Divides
<1>2. s \in Nat /\ t \in 0 .. e - 1 /\ q = e * s + t
  <2> HIDE DEF q
  <2> QED
    BY <1>1, Divides
<1>3. e * d \in Nat \ {0}
  OBVIOUS
<1> HIDE DEF q, r, s, t
<1>4. a = (e * d) * s + (d * t + r)
  <2>1. d * (e * s + t) = (e * d) * s + d * t
    BY <1>2
  <2> QED
    BY <1>1, <1>2, <2>1
<1>5. d * t + r \in 0 .. (e * d) - 1
  <2>1. d * t <= d * (e - 1) /\ d * t \in Nat
    BY <1>2
  <2>2. d * (e - 1) = e * d - d
    OBVIOUS
  <2> QED
    BY <1>1, <1>3, <2>1, <2>2
<1>6. s = a \div (e * d)
  <2> DEFINE f == e * d
             u == d * t + r
  <2>1. f \in Nat \ {0} /\ u \in 0 .. f - 1 /\ a = f * s + u
    BY <1>3, <1>4, <1>5
  <2> HIDE DEF f, u
  <2>2. s = a \div f
    BY <2>1, <1>2, Divides
  <2> QED
    BY <2>2 DEF f
<1> QED
  BY <1>3, <1>6 DEF q, s

\* A byte of an address is what it adds to the bytes before it.
LEMMA Bytes ==
  ASSUME NEW a \in Nat
  PROVE  /\ ToPath(a) \in [1 .. RtBytes -> Points]
         /\ \A i \in 1 .. RtBytes :
              /\ RtBytes - i \in Nat
              /\ ToPath(a)[i] = (a \div Weight(RtBytes - i)) % RtBase
              /\ a \div Weight(RtBytes - i) =
                   RtBase * (a \div Weight((RtBytes - i) + 1)) + ToPath(a)[i]
<1>1. \A i \in 1 .. RtBytes : RtBytes - i \in Nat
  BY Sizes
<1>2. ASSUME NEW k \in Nat
      PROVE  /\ (a \div Weight(k)) % RtBase \in Points
             /\ a \div Weight(k) = RtBase * (a \div Weight(k + 1)) + ((a \div Weight(k)) % RtBase)
  <2>1. Weight(k) \in Nat \ {0} /\ Weight(k + 1) = RtBase * Weight(k)
    BY Weights
  <2> DEFINE q == a \div Weight(k)
  <2>2. q \in Nat
    BY <2>1, Divides
  <2>3. q \div RtBase = a \div (RtBase * Weight(k))
    BY <2>1, DividesTwice, Sizes
  <2> HIDE DEF q
  <2>4. q % RtBase \in 0 .. RtBase - 1 /\ q = RtBase * (q \div RtBase) + (q % RtBase)
    BY <2>2, Divides, Sizes
  <2> QED
    BY <2>1, <2>3, <2>4 DEF q, Points
<1> QED
  BY <1>1, <1>2 DEF ToPath, Weight

LEMMA InAddresses ==
  /\ Addresses = 0 .. Weight(RtBytes) - 1
  /\ \A a \in Addresses : a \in Nat /\ a \div Weight(RtBytes) = 0
<1>1. Weight(RtBytes) \in Nat \ {0}
  BY Weights, Sizes
<1>2. Addresses = 0 .. Weight(RtBytes) - 1
  BY DEF Addresses, Weight
<1>3. ASSUME NEW a \in Addresses PROVE a \in Nat /\ a \div Weight(RtBytes) = 0
  <2>1. a \in Nat /\ a \in 0 .. Weight(RtBytes) - 1 /\ a = Weight(RtBytes) * 0 + a
    BY <1>1, <1>2
  <2> QED
    BY <2>1, <1>1, Divides
<1> QED
  BY <1>2, <1>3

\* Addresses have the same first j bytes when they are the same without the rest.
LEMMA SameBytes ==
  ASSUME NEW a \in Addresses, NEW b \in Addresses, NEW j \in 0 .. RtBytes
  PROVE  (\A i \in 1 .. j : ToPath(a)[i] = ToPath(b)[i])
           <=> a \div Weight(RtBytes - j) = b \div Weight(RtBytes - j)
<1> DEFINE Same(k) == (\A i \in 1 .. k : ToPath(a)[i] = ToPath(b)[i])
                        <=> a \div Weight(RtBytes - k) = b \div Weight(RtBytes - k)
           P == {k \in Nat : k <= RtBytes => Same(k)}
<1>1. 0 \in P
  BY InAddresses, Sizes
<1>2. ASSUME NEW k \in P PROVE k + 1 \in P
  <2> SUFFICES ASSUME k + 1 <= RtBytes PROVE Same(k + 1)
    OBVIOUS
  <2>1. Same(k)
    BY Sizes
  <2> DEFINE i == k + 1
             d == Weight(RtBytes - i)
             e == Weight((RtBytes - i) + 1)
  <2>2. i \in 1 .. RtBytes /\ (RtBytes - i) + 1 = RtBytes - k /\ RtBytes - i \in Nat
    BY Sizes
  <2>3. /\ a \div d = RtBase * (a \div e) + ToPath(a)[i] /\ ToPath(a)[i] \in Points
        /\ b \div d = RtBase * (b \div e) + ToPath(b)[i] /\ ToPath(b)[i] \in Points
    <3>1. i \in 1 .. RtBytes /\ a \in Nat /\ b \in Nat
      BY <2>2, InAddresses
    <3> HIDE DEF i
    <3> QED
      BY <3>1, Bytes
  <2>4. a \div e \in Nat /\ b \div e \in Nat
    <3>1. e \in Nat \ {0}
      BY <2>2, Weights
    <3> HIDE DEF e
    <3> QED
      BY <3>1, InAddresses, Divides
  <2>5. a \div d = b \div d <=> a \div e = b \div e /\ ToPath(a)[i] = ToPath(b)[i]
    <3>1. \A x, y \in Nat, r, s \in 0 .. RtBase - 1 :
            RtBase * x + r = RtBase * y + s <=> x = y /\ r = s
      <4> SUFFICES ASSUME NEW x \in Nat, NEW y \in Nat,
                          NEW r \in 0 .. RtBase - 1, NEW s \in 0 .. RtBase - 1,
                          RtBase * x + r = RtBase * y + s
                   PROVE  x = y /\ r = s
        OBVIOUS
      <4> DEFINE n == RtBase * x + r
      <4>1. n \in Nat /\ n = RtBase * x + r /\ n = RtBase * y + s
        BY Sizes
      <4>2. RtBase \in Nat \ {0}
        BY Sizes
      <4> HIDE DEF n
      <4>3. \A m \in Nat, t \in 0 .. RtBase - 1 :
              n = RtBase * m + t => m = n \div RtBase /\ t = n % RtBase
        BY <4>1, <4>2, Divides
      <4>4. x = n \div RtBase /\ r = n % RtBase
        BY <4>1, <4>3
      <4>5. y = n \div RtBase /\ s = n % RtBase
        BY <4>1, <4>3
      <4> QED
        BY <4>4, <4>5
    <3> DEFINE p == a \div e
               q == b \div e
               u == ToPath(a)[i]
               w == ToPath(b)[i]
    <3>2. p \in Nat /\ q \in Nat /\ u \in 0 .. RtBase - 1 /\ w \in 0 .. RtBase - 1
      BY <2>3, <2>4 DEF Points
    <3>3. a \div d = RtBase * p + u /\ b \div d = RtBase * q + w
      BY <2>3
    <3> HIDE DEF p, q, u, w, i, d, e
    <3>4. a \div d = b \div d <=> p = q /\ u = w
      BY <3>1, <3>2, <3>3
    <3> QED
      BY <3>4 DEF p, q, u, w
  <2>6. (\A h \in 1 .. k + 1 : ToPath(a)[h] = ToPath(b)[h])
          <=> (\A h \in 1 .. k : ToPath(a)[h] = ToPath(b)[h]) /\ ToPath(a)[k + 1] = ToPath(b)[k + 1]
    OBVIOUS
  <2>7. e = Weight(RtBytes - k)
    BY <2>2
  <2> HIDE DEF d, e
  <2> QED
    BY <2>1, <2>5, <2>6, <2>7 DEF d
<1> HIDE DEF P, Same
<1>3. P = Nat
  BY <1>1, <1>2, AllNumbers DEF P
<1>4. Same(j)
  BY <1>3, Sizes DEF P
<1> QED
  BY <1>4 DEF Same

----------------------------------------------------------------------------
\* Blocks.

\* The bytes that a length leaves free: the largest power of the base in it.
LEMMA WholeBytesAre ==
  ASSUME NEW size \in Nat, size > 0, size <= Weight(RtBytes)
  PROVE  /\ WholeBytes(size) \in 0 .. RtBytes
         /\ Weight(WholeBytes(size)) <= size /\ size < Weight(WholeBytes(size) + 1)
<1> DEFINE S == {k \in Nat : size < Weight(k + 1)}
<1>1. size \in S
  <2>1. Weight(size + 1) > size + 1 /\ Weight(size + 1) \in Nat
    BY Sizes, PowerGrows, Weights DEF Weight
  <2> QED
    BY <2>1
<1>2. PICK k \in S : \A m \in S : k <= m
  <2> HIDE DEF S
  <2>1. S \in SUBSET Nat
    BY DEF S
  <2> QED
    BY <1>1, <2>1, LeastNumber
<1>3. k \in Nat /\ size < Weight(k + 1)
  OBVIOUS
<1>4. Weight(k) <= size
  <2>1. CASE k = 0
    BY <2>1, Weights
  <2>2. CASE k # 0
    <3>1. k - 1 \in Nat /\ (k - 1) + 1 = k /\ Weight(k) \in Nat
      BY <2>2, <1>3, Weights
    <3>2. k - 1 \notin S
      BY <1>2, <3>1
    <3> QED
      BY <3>1, <3>2
  <2> QED
    BY <2>1, <2>2
<1>5. k <= RtBytes
  <2> SUFFICES ASSUME k > RtBytes PROVE FALSE
    BY <1>3, Sizes
  <2>1. RtBytes \notin S
    BY <1>2, <1>3, Sizes
  <2>2. size >= Weight(RtBytes + 1) /\ Weight(RtBytes + 1) = RtBase * Weight(RtBytes)
    BY <2>1, Sizes, Weights
  <2>3. Weight(RtBytes) \in Nat \ {0}
    BY Sizes, Weights
  <2>4. \A x \in Nat \ {0} : RtBase * x > x
    BY Sizes
  <2> QED
    BY <2>2, <2>3, <2>4, Sizes
<1>6. k \in 0 .. RtBytes /\ Power(RtBase, k) <= size /\ size < Power(RtBase, k + 1)
  BY <1>3, <1>4, <1>5, Sizes DEF Weight
<1> HIDE DEF S
<1> QED
  BY <1>6 DEF WholeBytes, Weight

\* The next block of a range is a power of two long, starts at a multiple of its
\* length and is in the range.
LEMMA NextLengthIs ==
  ASSUME NEW lower \in Nat, NEW upper \in Nat, lower <= upper
  PROVE  /\ NextLength(lower, upper) \in Twos
         /\ NextLength(lower, upper) \in Nat \ {0}
         /\ lower % NextLength(lower, upper) = 0
         /\ lower + NextLength(lower, upper) - 1 <= upper
<1> DEFINE last == upper - lower + 1
           S == {k \in Nat : ~ GoesOn(lower, upper, k + 1)}
           Fits(k) == /\ ~ GoesOn(lower, upper, k + 1)
                      /\ \A j \in 1 .. k : GoesOn(lower, upper, j)
           rounds == CHOOSE k \in 0 .. last : Fits(k)
<1>1. last \in Nat
  OBVIOUS
<1>2. last \in S
  <2>1. Power(2, last + 1) > last + 1 /\ Power(2, last + 1) \in Nat
    <3> HIDE DEF last
    <3> QED
      BY <1>1, PowerGrows, PowerType
  <2> QED
    BY <1>1, <2>1 DEF GoesOn
<1>3. PICK k \in S : \A m \in S : k <= m
  <2>1. S \in SUBSET Nat
    OBVIOUS
  <2> HIDE DEF S
  <2> QED
    BY <1>2, <2>1, LeastNumber
<1>4. k \in 0 .. last /\ Fits(k)
  <2>1. k \in Nat /\ k <= last /\ ~ GoesOn(lower, upper, k + 1)
    BY <1>2, <1>3
  <2>2. ASSUME NEW j \in 1 .. k PROVE GoesOn(lower, upper, j)
    <3>1. j - 1 \in Nat /\ j - 1 < k /\ (j - 1) + 1 = j
      BY <2>1
    <3>2. j - 1 \notin S
      BY <1>3, <2>1, <3>1
    <3> QED
      BY <3>1, <3>2
  <2> QED
    BY <1>1, <2>1, <2>2
<1> HIDE DEF Fits
<1>5. rounds \in 0 .. last /\ Fits(rounds)
  BY <1>4
<1>6. NextLength(lower, upper) = Power(2, rounds)
  BY DEF NextLength, Fits
<1> DEFINE s == Power(2, rounds)
<1> HIDE DEF rounds, S
<1>7. rounds \in Nat /\ s \in Nat \ {0} /\ s \in Twos
  <2>1. rounds \in Nat
    <3> HIDE DEF last
    <3> QED
      BY <1>5, <1>1
  <2> QED
    BY <2>1, PowerType DEF Twos
<1>8. CASE rounds = 0
  BY <1>6, <1>7, <1>8, PowerStep
<1>9. CASE rounds # 0
  <2>1. GoesOn(lower, upper, rounds)
    BY <1>5, <1>7, <1>9 DEF Fits
  <2>2. lower + s - 1 <= upper /\ lower % ((lower + s - 1) - lower + 1) = 0
    BY <2>1 DEF GoesOn, ValidBlock
  <2>3. (lower + s - 1) - lower + 1 = s
    BY <1>7
  <2> QED
    BY <1>6, <1>7, <2>2, <2>3
<1> QED
  BY <1>8, <1>9

\* Of numbers cut into pieces of length Q: a block of u pieces that starts at
\* a multiple of its length, and w blocks of a piece of the next level.
Pieces(Q, u, w, l, lower) ==
  /\ lower \div Q = (u * w) * (l \div w) + u * (l % w)
  /\ (lower + Q * u - 1) \div Q = (u * w) * (l \div w) + (u * (l % w) + u - 1)
  /\ u * (l % w) \in Nat /\ u * (l % w) + u - 1 \in Nat
  /\ u * (l % w) + u - 1 <= u * w - 1
  /\ \A a \in Nat : a \in lower .. lower + Q * u - 1
       <=> a \div Q \in (lower \div Q) .. ((lower + Q * u - 1) \div Q)

LEMMA BlockPieces ==
  ASSUME NEW Q \in Nat \ {0}, NEW u \in Nat \ {0}, NEW w \in Nat \ {0}, NEW l \in Nat,
         NEW lower, lower = (Q * u) * l
  PROVE  Pieces(Q, u, w, l, lower)
<1>1. lower \in Nat /\ lower = Q * (u * l) + 0 /\ u * l \in Nat
  OBVIOUS
<1>2. lower \div Q = u * l
  BY <1>1, Divides
<1>3. lower + Q * u - 1 \in Nat /\ u * l + u - 1 \in Nat
  OBVIOUS
<1>4. lower + Q * u - 1 = Q * (u * l + u - 1) + (Q - 1)
  <2>1. Q * (u * l + u - 1) = Q * (u * l) + Q * u - Q
    BY <1>1
  <2> QED
    BY <1>1, <2>1
<1>5. (lower + Q * u - 1) \div Q = u * l + u - 1
  <2> DEFINE b == lower + Q * u - 1
             n == u * l + u - 1
  <2>1. b \in Nat /\ n \in Nat /\ Q - 1 \in 0 .. Q - 1 /\ b = Q * n + (Q - 1)
    BY <1>3, <1>4
  <2> HIDE DEF b, n
  <2>2. \A q \in Nat, r \in 0 .. Q - 1 : b = Q * q + r => q = b \div Q
    BY <2>1, Divides
  <2>3. n = b \div Q
    BY <2>1, <2>2
  <2> QED
    BY <2>3 DEF b, n
<1>6. /\ l \div w \in Nat /\ l % w \in 0 .. w - 1 /\ l = w * (l \div w) + (l % w)
  BY Divides
<1>7. u * l = (u * w) * (l \div w) + u * (l % w)
  <2> DEFINE c == l \div w
             r == l % w
  <2>1. c \in Nat /\ r \in 0 .. w - 1 /\ l = w * c + r
    BY <1>6
  <2> HIDE DEF c, r
  <2>2. u * (w * c + r) = (u * w) * c + u * r
    BY <2>1
  <2> QED
    BY <2>1, <2>2 DEF c, r
<1>8. u * (l % w) \in Nat /\ u * (l % w) <= u * (w - 1) /\ u * (w - 1) = u * w - u
  <2> DEFINE r == l % w
  <2>1. r \in 0 .. w - 1
    BY <1>6
  <2> HIDE DEF r
  <2> QED
    BY <2>1 DEF r
<1>9. ASSUME NEW a \in Nat
      PROVE  a \in lower .. lower + Q * u - 1 <=> a \div Q \in (u * l) .. (u * l + u - 1)
  <2> DEFINE x == a \div Q
             r == a % Q
             n == u * l
  <2>1. x \in Nat /\ r \in 0 .. Q - 1 /\ a = Q * x + r /\ n \in Nat
    BY <1>1, Divides
  <2>2. lower = Q * n /\ lower + Q * u - 1 = Q * (n + u - 1) + (Q - 1)
    BY <1>1, <1>4
  <2> HIDE DEF x, r, n
  <2>3. x >= n => Q * x >= Q * n
    BY <2>1
  <2>4. x < n => Q * x + Q <= Q * n
    BY <2>1
  <2>5. x <= n + u - 1 => Q * x <= Q * (n + u - 1)
    BY <2>1
  <2>6. x > n + u - 1 => Q * x >= Q * (n + u - 1) + Q
    BY <2>1
  <2>7. Q * x \in Nat /\ Q * n \in Nat /\ Q * (n + u - 1) \in Nat /\ n + u - 1 \in Nat
    BY <2>1
  <2>8. a >= lower <=> x >= n
    BY <2>1, <2>2, <2>3, <2>4, <2>7
  <2>9. a <= lower + Q * u - 1 <=> x <= n + u - 1
    BY <2>1, <2>2, <2>5, <2>6, <2>7
  <2> QED
    BY <2>1, <2>8, <2>9, <1>1, <1>3 DEF x, n
<1>10. u * l + u - 1 = (u * w) * (l \div w) + (u * (l % w) + u - 1)
  BY <1>1, <1>6, <1>7, <1>8
<1>11. u * (l % w) + u - 1 \in Nat /\ u * (l % w) + u - 1 <= u * w - 1
  BY <1>8
<1> QED
  BY <1>2, <1>5, <1>7, <1>8, <1>9, <1>10, <1>11 DEF Pieces

LEMMA Cancels ==
  ASSUME NEW q \in Nat \ {0}, NEW x \in Nat, NEW y \in Nat, q * x = q * y
  PROVE  x = y
OBVIOUS

\* Two numbers in places are compared place by place.
LEMMA PlacesFrom ==
  ASSUME NEW b \in Nat \ {0}, NEW c \in Nat, NEW x \in Nat,
         NEW d \in 0 .. b - 1, NEW e \in 0 .. b - 1, NEW f \in 0 .. b - 1
  PROVE  /\ b * x + d = b * c + e => x = c /\ d = e
         /\ b * x + d \in (b * c + e) .. (b * c + f) <=> x = c /\ d \in e .. f
<1>1. x < c => b * x + b <= b * c
  OBVIOUS
<1>2. x > c => b * x >= b * c + b
  OBVIOUS
<1>3. b * x \in Nat /\ b * c \in Nat
  OBVIOUS
<1>4. CASE x < c
  BY <1>1, <1>3, <1>4
<1>5. CASE x > c
  BY <1>2, <1>3, <1>5
<1>6. CASE x = c
  BY <1>3, <1>6
<1> QED
  BY <1>4, <1>5, <1>6

LEMMA TwosType ==
  ASSUME NEW x \in Twos
  PROVE  x \in Nat \ {0}
BY PowerType DEF Twos

\* The addresses of a block are those that have its first bytes and, at the
\* level it is stored at, one of its points.
LEMMA BlockBytes ==
  ASSUME NEW lower \in Nat, NEW size \in Twos, lower % size = 0,
         lower + size - 1 \in Addresses, size < Weight(RtBytes)
  PROVE  LET at == RtBytes - WholeBytes(size)
             from == ToPath(lower)
             to == ToPath(lower + size - 1)
         IN /\ at \in 1 .. RtBytes
            /\ from[at] \in Points /\ to[at] \in Points /\ from[at] <= to[at]
            /\ \A a \in Addresses : a \in lower .. lower + size - 1
                 <=> /\ \A i \in 1 .. at - 1 : ToPath(a)[i] = from[i]
                     /\ ToPath(a)[at] \in from[at] .. to[at]
<1> DEFINE m == WholeBytes(size)
           at == RtBytes - m
           last == lower + size - 1
           Q == Weight(m)
           R == Weight(m + 1)
<1>1. size \in Nat \ {0}
  BY TwosType
<1>2. /\ m \in 0 .. RtBytes /\ Q <= size /\ size < R
  <2>1. Weight(RtBytes) \in Nat
    BY Sizes, Weights
  <2>2. size \in Nat /\ size > 0 /\ size <= Weight(RtBytes)
    BY <1>1, <2>1
  <2> QED
    BY <2>2, WholeBytesAre
<1>3. m \in Nat /\ Q \in Nat \ {0} /\ R \in Nat \ {0} /\ Q \in Twos /\ R \in Twos /\ R = RtBase * Q
  <2>1. m \in Nat
    BY <1>2, Sizes
  <2> HIDE DEF m
  <2> QED
    BY <2>1, Weights
<1>4. m < RtBytes
  <2>1. m # RtBytes
    BY <1>1, <1>2, Sizes, Weights
  <2> QED
    BY <1>2, <2>1, Sizes
<1>5. at \in 1 .. RtBytes /\ RtBytes - at = m /\ RtBytes - (at - 1) = m + 1 /\ at - 1 \in 0 .. RtBytes
  <2> HIDE DEF m
  <2> QED
    BY <1>3, <1>4, Sizes
<1> HIDE DEF m
<1>6. PICK u \in Nat \ {0} : size = Q * u
  BY <1>2, <1>3, TwosDivide
<1>7. PICK w \in Nat \ {0} : R = size * w
  <2>1. size <= R
    BY <1>1, <1>2, <1>3
  <2> HIDE DEF R
  <2> QED
    BY <1>3, <2>1, TwosDivide
<1>8. RtBase = u * w
  <2>1. Q * RtBase = Q * (u * w)
    BY <1>3, <1>6, <1>7, Sizes
  <2>2. u * w \in Nat
    OBVIOUS
  <2> HIDE DEF Q
  <2> QED
    BY <1>3, <2>1, <2>2, Sizes, Cancels
<1> DEFINE l == lower \div size
<1>9. l \in Nat /\ lower = size * l
  <2>1. l \in Nat /\ lower = size * l + (lower % size)
    BY <1>1, Divides
  <2> HIDE DEF l
  <2> QED
    BY <1>1, <2>1
<1> HIDE DEF l, Q, R
<1> DEFINE c == l \div w
           fd == u * (l % w)
           td == fd + u - 1
<1>10. /\ lower \div Q = RtBase * c + fd /\ last \div Q = RtBase * c + td
       /\ fd \in Nat /\ td \in Nat /\ td <= RtBase - 1 /\ fd <= td
       /\ \A a \in Nat : a \in lower .. last <=> a \div Q \in (lower \div Q) .. (last \div Q)
  <2>1. lower = (Q * u) * l
    BY <1>6, <1>9
  <2>2. /\ lower \div Q = (u * w) * (l \div w) + u * (l % w)
        /\ (lower + Q * u - 1) \div Q = (u * w) * (l \div w) + (u * (l % w) + u - 1)
        /\ u * (l % w) \in Nat /\ u * (l % w) + u - 1 \in Nat
        /\ u * (l % w) + u - 1 <= u * w - 1
        /\ \A a \in Nat : a \in lower .. lower + Q * u - 1
             <=> a \div Q \in (lower \div Q) .. ((lower + Q * u - 1) \div Q)
    <3>1. Q \in Nat \ {0} /\ l \in Nat /\ u \in Nat \ {0} /\ w \in Nat \ {0}
      BY <1>3, <1>9
    <3>2. Pieces(Q, u, w, l, lower)
      BY ONLY <3>1, <2>1, BlockPieces
    <3> QED
      BY <3>2 DEF Pieces
  <2>3. fd <= td
    BY <2>2
  <2> QED
    BY <1>6, <1>8, <2>2, <2>3
<1>11. c \in Nat /\ fd \in 0 .. RtBase - 1 /\ td \in 0 .. RtBase - 1
  <2>1. c \in Nat
    BY <1>9, Divides
  <2> HIDE DEF c, fd, td
  <2> QED
    BY <2>1, <1>10, Sizes
<1>12. lower \in Addresses /\ last \in Addresses
  <2>1. Weight(RtBytes) \in Nat
    BY Sizes, Weights
  <2> QED
    BY <1>1, <2>1, InAddresses
<1>13. ASSUME NEW a \in Addresses
       PROVE  /\ ToPath(a)[at] \in 0 .. RtBase - 1 /\ a \div R \in Nat /\ a \div Q \in Nat
              /\ a \div Q = RtBase * (a \div R) + ToPath(a)[at]
              /\ (\A i \in 1 .. at - 1 : ToPath(a)[i] = ToPath(lower)[i])
                   <=> a \div R = lower \div R
  <2>1. a \in Nat
    BY InAddresses
  <2>2. ToPath(a)[at] \in Points /\ a \div Q = RtBase * (a \div R) + ToPath(a)[at]
    <3> HIDE DEF at
    <3>1. ToPath(a) \in [1 .. RtBytes -> Points]
      BY <2>1, Bytes
    <3>2. a \div Weight(RtBytes - at) = RtBase * (a \div Weight((RtBytes - at) + 1)) + ToPath(a)[at]
      BY <1>5, <2>1, Bytes
    <3> QED
      BY <1>5, <3>1, <3>2 DEF Q, R
  <2>3. (\A i \in 1 .. at - 1 : ToPath(a)[i] = ToPath(lower)[i])
           <=> a \div Weight(RtBytes - (at - 1)) = lower \div Weight(RtBytes - (at - 1))
    <3> DEFINE j == at - 1
    <3>1. j \in 0 .. RtBytes
      BY <1>5
    <3> HIDE DEF j
    <3>2. (\A i \in 1 .. j : ToPath(a)[i] = ToPath(lower)[i])
            <=> a \div Weight(RtBytes - j) = lower \div Weight(RtBytes - j)
      BY <1>12, <3>1, SameBytes
    <3> QED
      BY <3>2 DEF j
  <2>4. a \div R \in Nat /\ a \div Q \in Nat
    BY <2>1, <1>3, Divides
  <2> QED
    BY <1>5, <2>2, <2>3, <2>4 DEF Points, R
<1> HIDE DEF c, fd, td, at, last
<1>14. ASSUME NEW a \in Addresses, NEW d \in {fd, td}, a \div Q = RtBase * c + d
       PROVE  a \div R = c /\ ToPath(a)[at] = d
  <2> DEFINE x == a \div R
             e == ToPath(a)[at]
  <2>1. /\ e \in 0 .. RtBase - 1 /\ x \in Nat /\ a \div Q = RtBase * x + e
    BY <1>13
  <2> HIDE DEF x, e
  <2>2. RtBase * x + e = RtBase * c + d /\ d \in 0 .. RtBase - 1 /\ RtBase \in Nat \ {0}
    BY <1>11, <1>14, <2>1, Sizes
  <2>3. x = c /\ e = d
    BY <1>11, <2>1, <2>2, PlacesFrom
  <2> QED
    BY <2>3 DEF x, e
<1>15. lower \div R = c /\ ToPath(lower)[at] = fd /\ ToPath(last)[at] = td
  BY <1>10, <1>12, <1>14
<1>16. ASSUME NEW a \in Addresses
       PROVE  a \in lower .. last
                <=> /\ \A i \in 1 .. at - 1 : ToPath(a)[i] = ToPath(lower)[i]
                    /\ ToPath(a)[at] \in fd .. td
  <2> DEFINE x == a \div R
             d == ToPath(a)[at]
  <2>1. /\ d \in 0 .. RtBase - 1 /\ x \in Nat /\ a \div Q = RtBase * x + d /\ a \in Nat
        /\ (\A i \in 1 .. at - 1 : ToPath(a)[i] = ToPath(lower)[i]) <=> x = c
    BY <1>13, <1>15, InAddresses
  <2>2. a \in lower .. last <=> a \div Q \in (RtBase * c + fd) .. (RtBase * c + td)
    BY <1>10, <2>1
  <2> HIDE DEF x, d
  <2>3. RtBase * x + d \in (RtBase * c + fd) .. (RtBase * c + td) <=> x = c /\ d \in fd .. td
    BY <1>11, <2>1, Sizes, PlacesFrom
  <2> QED
    BY <2>1, <2>2, <2>3 DEF d
<1>17. fd \in Points /\ td \in Points /\ fd <= td
  BY <1>10, <1>11 DEF Points
<1> QED
  BY <1>5, <1>15, <1>16, <1>17 DEF at, m, last

----------------------------------------------------------------------------
\* Paths.

\* The first k points of a path.
Prefix(p, k) == [i \in 1 .. k |-> p[i]]

LEMMA PathLength ==
  ASSUME NEW n \in Nat, NEW p \in [1 .. n -> Points]
  PROVE  p \in Seq(Points) /\ Len(p) = n
OBVIOUS

LEMMA PrefixIs ==
  ASSUME NEW n \in Nat, NEW p \in [1 .. n -> Points], NEW k \in 0 .. n
  PROVE  SubSeq(p, 1, k) = Prefix(p, k) /\ Prefix(p, k) \in [1 .. k -> Points]
BY DEF Prefix

LEMMA PrefixTwice ==
  ASSUME NEW n \in Nat, NEW p \in [1 .. n -> Points], NEW k \in 0 .. n
  PROVE  /\ Prefix(p, n) = p
         /\ \A j \in 0 .. k : Prefix(Prefix(p, k), j) = Prefix(p, j)
BY DEF Prefix

LEMMA AppendIs ==
  ASSUME NEW n \in Nat, NEW p \in [1 .. n -> Points], NEW x \in Points
  PROVE  /\ Append(p, x) \in [1 .. n + 1 -> Points]
         /\ Append(p, x)[n + 1] = x
         /\ \A k \in 0 .. n : Prefix(Append(p, x), k) = Prefix(p, k)
<1>1. p \in Seq(Points) /\ Len(p) = n
  BY PathLength
<1>2. Append(p, x) \in Seq(Points) /\ Len(Append(p, x)) = n + 1
  BY <1>1
<1>3. Append(p, x)[n + 1] = x /\ \A i \in 1 .. n : Append(p, x)[i] = p[i]
  BY <1>1
<1>4. Append(p, x) \in [1 .. n + 1 -> Points]
  <2>1. \A s \in Seq(Points) : s \in [1 .. Len(s) -> Points]
    OBVIOUS
  <2> QED
    BY <1>2, <2>1
<1>5. ASSUME NEW k \in 0 .. n PROVE Prefix(Append(p, x), k) = Prefix(p, k)
  <2>1. \A i \in 1 .. k : i \in 1 .. n
    OBVIOUS
  <2> QED
    BY <1>3, <2>1 DEF Prefix
<1> QED
  BY <1>3, <1>4, <1>5

\* One point more.
LEMMA PrefixGrows ==
  ASSUME NEW n \in Nat, NEW p \in [1 .. n -> Points], NEW k \in Nat, k < n
  PROVE  /\ Append(Prefix(p, k), p[k + 1]) = Prefix(p, k + 1)
         /\ \A x \in Points : Append(Prefix(p, k), x) = Prefix(p, k + 1) <=> p[k + 1] = x
<1> DEFINE b == Prefix(p, k)
           c == Prefix(p, k + 1)
<1>1. b \in [1 .. k -> Points] /\ p[k + 1] \in Points
  BY DEF Prefix
<1>2. c \in [1 .. k + 1 -> Points] /\ c[k + 1] = p[k + 1] /\ \A i \in 1 .. k : c[i] = b[i]
  BY DEF Prefix
<1>3. ASSUME NEW x \in Points
      PROVE  /\ Append(b, x) \in [1 .. k + 1 -> Points]
             /\ Append(b, x)[k + 1] = x
             /\ \A i \in 1 .. k : Append(b, x)[i] = b[i]
  <2> HIDE DEF b
  <2>1. Append(b, x) \in [1 .. k + 1 -> Points] /\ Append(b, x)[k + 1] = x
    BY <1>1, AppendIs
  <2>2. b \in Seq(Points) /\ Len(b) = k
    BY <1>1, PathLength
  <2>3. \A i \in 1 .. k : Append(b, x)[i] = b[i]
    BY <2>2
  <2> QED
    BY <2>1, <2>3
<1> HIDE DEF b, c
<1>4. ASSUME NEW x \in Points, p[k + 1] = x PROVE Append(b, x) = c
  <2>1. \A i \in 1 .. k + 1 : i \in 1 .. k \/ i = k + 1
    OBVIOUS
  <2>2. \A i \in 1 .. k + 1 : Append(b, x)[i] = c[i]
    BY <1>2, <1>3, <1>4, <2>1
  <2> QED
    BY <1>2, <1>3, <2>2
<1>5. ASSUME NEW x \in Points, Append(b, x) = c PROVE p[k + 1] = x
  BY <1>2, <1>3, <1>5
<1> QED
  BY <1>1, <1>4, <1>5 DEF b, c

LEMMA PathIs ==
  ASSUME NEW p \in Paths
  PROVE  /\ Len(p) \in 1 .. RtBytes /\ Len(p) \in Nat /\ p \in [1 .. Len(p) -> Points]
         /\ \A k \in 1 .. Len(p) : Prefix(p, k) \in Paths /\ Len(Prefix(p, k)) = k
<1>1. PICK n \in 1 .. RtBytes : p \in [1 .. n -> Points]
  BY DEF Paths
<1>2. n \in Nat
  BY Sizes
<1>3. Len(p) = n
  BY <1>1, <1>2, PathLength
<1>4. ASSUME NEW k \in 1 .. n PROVE Prefix(p, k) \in Paths /\ Len(Prefix(p, k)) = k
  <2>1. k \in 0 .. n /\ k \in Nat /\ k \in 1 .. RtBytes
    BY <1>2, Sizes
  <2>2. Prefix(p, k) \in [1 .. k -> Points]
    BY <1>1, <1>2, <2>1, PrefixIs
  <2>3. Len(Prefix(p, k)) = k
    BY <2>1, <2>2, PathLength
  <2> QED
    BY <2>1, <2>2, <2>3 DEF Paths
<1> QED
  BY <1>1, <1>2, <1>3, <1>4

\* What is above a path.
LEMMA AboveIs ==
  ASSUME NEW p \in Paths, NEW path \in Paths
  PROVE  path \in Above(p) <=> Len(path) < Len(p) /\ Prefix(p, Len(path)) = path
<1>1. /\ Len(p) \in Nat /\ p \in [1 .. Len(p) -> Points]
      /\ \A k \in 1 .. Len(p) : Len(Prefix(p, k)) = k
      /\ Len(path) \in Nat /\ Len(path) > 0
  BY PathIs, Sizes
<1>2. \A k \in 1 .. Len(p) - 1 : k \in 0 .. Len(p) /\ k \in 1 .. Len(p)
  BY <1>1
<1>3. ASSUME NEW k \in 1 .. Len(p) - 1
      PROVE  SubSeq(p, 1, k) = Prefix(p, k) /\ Len(Prefix(p, k)) = k
  <2> DEFINE n == Len(p)
  <2>1. n \in Nat /\ k \in 0 .. n /\ p \in [1 .. n -> Points]
    BY <1>1, <1>2
  <2> HIDE DEF n
  <2>2. SubSeq(p, 1, k) = Prefix(p, k)
    BY <2>1, PrefixIs
  <2> QED
    BY <1>1, <1>2, <2>2
<1>4. ASSUME path \in Above(p) PROVE Len(path) < Len(p) /\ Prefix(p, Len(path)) = path
  <2>1. PICK k \in 1 .. Len(p) - 1 : path = SubSeq(p, 1, k)
    BY <1>4 DEF Above
  <2>2. path = Prefix(p, k) /\ Len(path) = k
    BY <1>3, <2>1
  <2> QED
    BY <1>1, <2>2
<1>5. ASSUME Len(path) < Len(p), Prefix(p, Len(path)) = path PROVE path \in Above(p)
  <2>1. Len(path) \in 1 .. Len(p) - 1
    BY <1>1, <1>5
  <2>2. path = SubSeq(p, 1, Len(path))
    BY <1>3, <1>5, <2>1
  <2> QED
    BY <2>1, <2>2 DEF Above
<1> QED
  BY <1>4, <1>5

----------------------------------------------------------------------------
\* Tries.

Shapes == UNION {[D -> RtValues \cup {RtDict}] : D \in SUBSET Paths}

\* Above an entry there are dictionaries, and at the last level there are none.
Tries ==
  {t \in Shapes : \A p \in DOMAIN t :
     /\ \A k \in 1 .. Len(p) - 1 : Prefix(p, k) \in DOMAIN t /\ t[Prefix(p, k)] = RtDict
     /\ Len(p) = RtBytes => t[p] # RtDict}

Keys == [1 .. RtBytes -> Points]

\* The value on the way to a key.
Found(t, q) ==
  {v \in RtValues : \E k \in 1 .. RtBytes : Prefix(q, k) \in DOMAIN t /\ t[Prefix(q, k)] = v}

\* On the way there are dictionaries, down to level k.
Way(t, path, k) ==
  \A j \in 1 .. k : Prefix(path, j) \in DOMAIN t /\ t[Prefix(path, j)] = RtDict

LEMMA Shaped ==
  ASSUME NEW D \in SUBSET Paths, NEW t, t = [p \in D |-> t[p]],
         \A p \in D : t[p] \in RtValues \cup {RtDict}
  PROVE  t \in Shapes
<1>1. t \in [D -> RtValues \cup {RtDict}]
  OBVIOUS
<1> QED
  BY <1>1 DEF Shapes

LEMMA TrieShape ==
  ASSUME NEW t \in Tries
  PROVE  /\ DOMAIN t \in SUBSET Paths /\ t = [p \in DOMAIN t |-> t[p]]
         /\ \A p \in DOMAIN t :
              /\ p \in Paths /\ t[p] \in RtValues \cup {RtDict}
              /\ \A k \in 1 .. Len(p) - 1 : Prefix(p, k) \in DOMAIN t /\ t[Prefix(p, k)] = RtDict
              /\ Len(p) = RtBytes => t[p] # RtDict
<1>1. PICK D \in SUBSET Paths : t \in [D -> RtValues \cup {RtDict}]
  BY DEF Tries, Shapes
<1>2. DOMAIN t = D
  BY <1>1
<1> QED
  BY <1>1, <1>2 DEF Tries

LEMMA KeyPrefix ==
  ASSUME NEW q \in Keys, NEW k \in 1 .. RtBytes
  PROVE  /\ Prefix(q, k) \in Paths /\ Len(Prefix(q, k)) = k
         /\ \A j \in 1 .. k : Prefix(Prefix(q, k), j) = Prefix(q, j)
<1>1. q \in Paths /\ Len(q) = RtBytes
  <2>1. RtBytes \in Nat /\ RtBytes \in 1 .. RtBytes
    BY Sizes
  <2>2. q \in Paths
    BY <2>1 DEF Keys, Paths
  <2> QED
    BY <2>1, <2>2, PathLength DEF Keys
<1>2. k \in 0 .. RtBytes /\ RtBytes \in Nat /\ k \in 1 .. Len(q) /\ \A j \in 1 .. k : j \in 0 .. k
  BY <1>1, Sizes
<1>3. q \in [1 .. RtBytes -> Points]
  BY DEF Keys
<1>4. Prefix(q, k) \in Paths /\ Len(Prefix(q, k)) = k
  BY <1>1, <1>2, PathIs
<1>5. \A j \in 0 .. k : Prefix(Prefix(q, k), j) = Prefix(q, j)
  BY <1>2, <1>3, PrefixTwice
<1> QED
  BY <1>2, <1>4, <1>5

\* A value made a dictionary is found as before, for every point.
LEMMA SplitKeeps ==
  ASSUME NEW t \in Tries, NEW path \in Paths, Len(path) < RtBytes,
         Way(t, path, Len(path) - 1)
  PROVE  /\ Split(t, path) \in Tries
         /\ Way(Split(t, path), path, Len(path))
         /\ \A q \in Keys : Found(Split(t, path), q) = Found(t, q)
<1> DEFINE d == DOMAIN t
           n == Len(path)
           whole == path \in d /\ t[path] # RtDict
           given == IF whole THEN {Append(path, x) : x \in Points} ELSE {}
           s == Split(t, path)
<1>1. /\ n \in 1 .. RtBytes /\ n \in Nat /\ path \in [1 .. n -> Points]
      /\ \A k \in 1 .. n : Prefix(path, k) \in Paths /\ Len(Prefix(path, k)) = k
      /\ Prefix(path, n) = path
  <2>1. /\ n \in 1 .. RtBytes /\ n \in Nat /\ path \in [1 .. n -> Points]
        /\ \A k \in 1 .. n : Prefix(path, k) \in Paths /\ Len(Prefix(path, k)) = k
    BY PathIs
  <2> HIDE DEF n
  <2>2. n \in 0 .. n
    BY <2>1
  <2> QED
    BY <2>1, <2>2, PrefixTwice
<1>2. /\ d \in SUBSET Paths
      /\ \A p \in d :
           /\ p \in Paths /\ t[p] \in RtValues \cup {RtDict}
           /\ \A k \in 1 .. Len(p) - 1 : Prefix(p, k) \in d /\ t[Prefix(p, k)] = RtDict
           /\ Len(p) = RtBytes => t[p] # RtDict
  BY TrieShape
<1>3. /\ DOMAIN s = d \cup {path} \cup given
      /\ \A p \in DOMAIN s :
           s[p] = IF p = path THEN RtDict ELSE IF p \in given THEN t[path] ELSE t[p]
      /\ s = [p \in DOMAIN s |-> s[p]]
  BY DEF Split
<1>4. RtDict \notin RtValues
  BY RtAssumption
<1>5. ASSUME NEW p \in given
      PROVE  /\ whole /\ p \in Paths /\ Len(p) = n + 1 /\ p[n + 1] \in Points
             /\ p = Append(path, p[n + 1])
             /\ \A k \in 1 .. n : Prefix(p, k) = Prefix(path, k)
  <2>1. whole
    OBVIOUS
  <2>2. PICK x \in Points : p = Append(path, x)
    OBVIOUS
  <2> HIDE DEF given, n, d
  <2>3. /\ p \in [1 .. n + 1 -> Points] /\ p[n + 1] = x
        /\ \A k \in 0 .. n : Prefix(p, k) = Prefix(path, k)
    BY <1>1, <2>2, AppendIs
  <2>4. n + 1 \in 1 .. RtBytes /\ n + 1 \in Nat
    BY <1>1, Sizes DEF n
  <2>5. p \in Paths
    BY <2>3, <2>4 DEF Paths
  <2>6. Len(p) = n + 1
    BY <2>3, <2>4, PathLength
  <2>7. \A k \in 1 .. n : k \in 0 .. n
    BY <1>1
  <2> QED
    BY <2>1, <2>2, <2>3, <2>5, <2>6, <2>7
<1>6. ASSUME NEW x \in Points, whole PROVE Append(path, x) \in given
  BY <1>6
<1>7. given \cap d = {}
  <2> SUFFICES ASSUME NEW p \in given, p \in d PROVE FALSE
    OBVIOUS
  <2>1. whole /\ Len(p) = n + 1 /\ Prefix(p, n) = path
    BY <1>1, <1>5
  <2> HIDE DEF given
  <2>2. n \in 1 .. Len(p) - 1
    BY <1>1, <2>1
  <2> QED
    BY <1>2, <2>1, <2>2
<1> HIDE DEF given, s, n, d
\* An entry that was a dictionary is one.
<1>8. ASSUME NEW p \in d, t[p] = RtDict PROVE p \in DOMAIN s /\ s[p] = RtDict
  BY <1>3, <1>7, <1>8
<1>9. \A k \in 1 .. n : Prefix(path, k) \in DOMAIN s /\ s[Prefix(path, k)] = RtDict
  <2>1. \A k \in 1 .. n : k \in 1 .. n - 1 \/ k = n
    BY <1>1
  <2>2. path \in DOMAIN s /\ s[path] = RtDict
    BY <1>3
  <2>3. \A k \in 1 .. n - 1 : Prefix(path, k) \in d /\ t[Prefix(path, k)] = RtDict
    BY DEF Way, n, d
  <2> QED
    BY <1>1, <1>8, <2>1, <2>2, <2>3
<1>10. s \in Tries
  <2>1. DOMAIN s \in SUBSET Paths
    BY <1>2, <1>3, <1>5
  <2>2. ASSUME NEW p \in DOMAIN s
        PROVE  /\ s[p] \in RtValues \cup {RtDict}
               /\ \A k \in 1 .. Len(p) - 1 : Prefix(p, k) \in DOMAIN s /\ s[Prefix(p, k)] = RtDict
               /\ Len(p) = RtBytes => s[p] # RtDict
    <3>1. CASE p = path
      <4>1. \A k \in 1 .. Len(p) - 1 : k \in 1 .. n
        BY <1>1, <3>1 DEF n
      <4> QED
        BY <1>3, <1>9, <3>1, <4>1
    <3>2. CASE p \in given /\ p # path
      <4>1. s[p] = t[path] /\ path \in d /\ t[path] # RtDict
        BY <1>3, <1>5, <3>2 DEF d
      <4>2. \A k \in 1 .. Len(p) - 1 : k \in 1 .. n /\ Prefix(p, k) = Prefix(path, k)
        BY <1>1, <1>5, <3>2
      <4> QED
        BY <1>2, <1>9, <4>1, <4>2
    <3>3. CASE p \in d /\ p \notin given /\ p # path
      <4>1. s[p] = t[p]
        BY <1>3, <3>3
      <4>2. \A k \in 1 .. Len(p) - 1 : Prefix(p, k) \in DOMAIN s /\ s[Prefix(p, k)] = RtDict
        BY <1>2, <1>8, <3>3
      <4> QED
        BY <1>2, <3>3, <4>1, <4>2
    <3> QED
      BY <1>3, <3>1, <3>2, <3>3
  <2>3. s \in Shapes
    BY <1>3, <2>1, <2>2, Shaped
  <2> QED
    BY <2>2, <2>3 DEF Tries
<1>11. ASSUME NEW q \in Keys PROVE Found(s, q) = Found(t, q)
  <2>0. \A k \in 1 .. RtBytes :
          /\ Len(Prefix(q, k)) = k
          /\ \A j \in 1 .. k : Prefix(Prefix(q, k), j) = Prefix(q, j)
    BY KeyPrefix
  <2>1. ASSUME NEW v \in RtValues, NEW k \in 1 .. RtBytes,
               Prefix(q, k) \in DOMAIN s, s[Prefix(q, k)] = v
        PROVE  \E j \in 1 .. RtBytes : Prefix(q, j) \in d /\ t[Prefix(q, j)] = v
    <3> DEFINE p == Prefix(q, k)
    <3>1. p # path
      BY <1>3, <1>4, <2>1
    <3>2. CASE p \in given
      <4>1. whole /\ v = t[path] /\ k = n + 1 /\ Prefix(p, n) = path
        BY <1>1, <1>3, <1>5, <2>0, <2>1, <3>1, <3>2
      <4>2. n \in 1 .. k
        BY <1>1, <4>1
      <4>3. Prefix(q, n) = path /\ n \in 1 .. RtBytes
        BY <1>1, <2>0, <4>1, <4>2
      <4> QED
        BY <4>1, <4>3
    <3>3. CASE p \notin given
      BY <1>3, <2>1, <3>1, <3>3
    <3> QED
      BY <3>2, <3>3
  <2>2. ASSUME NEW v \in RtValues, NEW k \in 1 .. RtBytes,
               Prefix(q, k) \in d, t[Prefix(q, k)] = v
        PROVE  \E j \in 1 .. RtBytes : Prefix(q, j) \in DOMAIN s /\ s[Prefix(q, j)] = v
    <3> DEFINE p == Prefix(q, k)
    <3>1. CASE p = path
      <4>1. whole /\ t[path] = v /\ k = n
        BY <1>4, <2>0, <2>2, <3>1 DEF d, n
      <4>2. n + 1 \in 1 .. RtBytes /\ n < RtBytes
        BY <1>1, Sizes DEF n
      <4>3. q \in [1 .. RtBytes -> Points] /\ q[n + 1] \in Points
        BY <4>2 DEF Keys
      <4>4. Append(path, q[n + 1]) = Prefix(q, n + 1)
        <5>1. Append(Prefix(q, n), q[n + 1]) = Prefix(q, n + 1)
          BY <1>1, <4>2, <4>3, Sizes, PrefixGrows
        <5> QED
          BY <3>1, <4>1, <5>1
      <4>5. Prefix(q, n + 1) \in given
        BY <1>6, <4>1, <4>3, <4>4
      <4>6. Prefix(q, n + 1) # path
        BY <1>1, <2>0, <4>2 DEF n
      <4>7. Prefix(q, n + 1) \in DOMAIN s /\ s[Prefix(q, n + 1)] = v
        BY <1>3, <4>1, <4>5, <4>6
      <4> QED
        BY <4>2, <4>7
    <3>2. CASE p # path
      <4>1. p \notin given
        BY <1>7, <2>2
      <4> QED
        BY <1>3, <2>2, <3>2, <4>1
    <3> QED
      BY <3>1, <3>2
  <2> QED
    BY <2>1, <2>2 DEF Found, d
<1> QED
  BY <1>9, <1>10, <1>11 DEF Way, s, n

\* What was stored is found by the keys it stands above, and what the others
\* find is the same.
LEMMA StoreFinds ==
  ASSUME NEW t \in Tries, NEW path \in Paths, Way(t, path, Len(path) - 1), NEW v \in RtValues
  PROVE  /\ Store(t, path, v) \in Tries
         /\ \A q \in Keys : Found(Store(t, path, v), q) =
              IF Prefix(q, Len(path)) = path THEN {v} ELSE Found(t, q)
<1> DEFINE d == DOMAIN t
           n == Len(path)
           below == From(path, t)
           s == Store(t, path, v)
<1>1. /\ n \in 1 .. RtBytes /\ n \in Nat /\ path \in [1 .. n -> Points]
      /\ \A k \in 1 .. n : Prefix(path, k) \in Paths /\ Len(Prefix(path, k)) = k
  BY PathIs
<1>2. /\ d \in SUBSET Paths
      /\ \A p \in d :
           /\ p \in Paths /\ t[p] \in RtValues \cup {RtDict}
           /\ \A k \in 1 .. Len(p) - 1 : Prefix(p, k) \in d /\ t[Prefix(p, k)] = RtDict
           /\ Len(p) = RtBytes => t[p] # RtDict
  BY TrieShape
<1>3. /\ DOMAIN s = (d \ below) \cup {path}
      /\ \A p \in DOMAIN s : s[p] = IF p = path THEN v ELSE t[p]
      /\ s = [p \in DOMAIN s |-> s[p]]
  BY DEF Store
<1>4. RtDict \notin RtValues
  BY RtAssumption
<1>5. \A p \in d : p \in below <=> p = path \/ (n < Len(p) /\ Prefix(p, n) = path)
  BY <1>2, AboveIs DEF From
<1>6. \A k \in 1 .. n - 1 :
        /\ Prefix(path, k) \in d /\ t[Prefix(path, k)] = RtDict
        /\ Prefix(path, k) \notin below /\ Prefix(path, k) # path
  <2>1. ASSUME NEW k \in 1 .. n - 1 PROVE Len(Prefix(path, k)) = k /\ k < n
    BY <1>1
  <2> QED
    BY <1>1, <1>5, <2>1 DEF Way
<1> HIDE DEF d, n, below, s
<1>7. s \in Tries
  <2>1. DOMAIN s \in SUBSET Paths
    BY <1>2, <1>3
  <2>2. ASSUME NEW p \in DOMAIN s
        PROVE  /\ s[p] \in RtValues \cup {RtDict}
               /\ \A k \in 1 .. Len(p) - 1 : Prefix(p, k) \in DOMAIN s /\ s[Prefix(p, k)] = RtDict
               /\ Len(p) = RtBytes => s[p] # RtDict
    <3>1. CASE p = path
      BY <1>3, <1>4, <1>6, <3>1 DEF n
    <3>2. CASE p # path
      <4>1. s[p] = t[p] /\ p \in d /\ p \notin below
        BY <1>3, <3>2
      <4>2. ASSUME NEW k \in 1 .. Len(p) - 1
            PROVE  Prefix(p, k) \in DOMAIN s /\ s[Prefix(p, k)] = RtDict
        <5>1. p \in [1 .. Len(p) -> Points] /\ Len(p) \in Nat /\ Prefix(p, k) \in d
              /\ t[Prefix(p, k)] = RtDict /\ Len(Prefix(p, k)) = k
          BY <1>2, <4>1, PathIs
        <5>2. \A j \in 0 .. k : Prefix(Prefix(p, k), j) = Prefix(p, j)
          <6>1. k \in 0 .. Len(p)
            BY <5>1
          <6> QED
            BY <5>1, <6>1, PrefixTwice
        <5>3. Prefix(p, k) # path
          <6> SUFFICES ASSUME Prefix(p, k) = path PROVE FALSE
            OBVIOUS
          <6>1. k = n /\ n < Len(p)
            BY <5>1 DEF n
          <6> QED
            BY <1>5, <4>1, <6>1
        <5>4. Prefix(p, k) \notin below
          <6> SUFFICES ASSUME n < k, Prefix(Prefix(p, k), n) = path PROVE FALSE
            BY <1>5, <5>1, <5>3
          <6>1. n \in 0 .. k /\ n < Len(p)
            BY <1>1, <5>1
          <6> QED
            BY <1>5, <4>1, <5>2, <6>1
        <5> QED
          BY <1>3, <5>1, <5>3, <5>4
      <4> QED
        BY <1>2, <4>1, <4>2
    <3> QED
      BY <3>1, <3>2
  <2>3. s \in Shapes
    BY <1>3, <2>1, <2>2, Shaped
  <2> QED
    BY <2>2, <2>3 DEF Tries
<1>8. ASSUME NEW q \in Keys
      PROVE  Found(s, q) = IF Prefix(q, n) = path THEN {v} ELSE Found(t, q)
  <2>0. \A k \in 1 .. RtBytes :
          /\ Len(Prefix(q, k)) = k
          /\ \A j \in 1 .. k : Prefix(Prefix(q, k), j) = Prefix(q, j)
    BY KeyPrefix
  <2>1. CASE Prefix(q, n) = path
    <3>1. v \in Found(s, q)
      BY <1>1, <1>3, <2>1 DEF Found
    <3>2. ASSUME NEW w \in RtValues, NEW k \in 1 .. RtBytes,
                 Prefix(q, k) \in DOMAIN s, s[Prefix(q, k)] = w
          PROVE  w = v
      <4>1. CASE k < n
        <5>1. k \in 1 .. n - 1 /\ k \in 1 .. n
          BY <1>1, <4>1
        <5>2. Prefix(q, k) = Prefix(path, k)
          BY <1>1, <2>0, <2>1, <5>1
        <5> QED
          BY <1>3, <1>4, <1>6, <3>2, <5>1, <5>2
      <4>2. CASE k = n
        BY <1>3, <2>1, <3>2, <4>2
      <4>3. CASE k > n
        <5>1. Prefix(Prefix(q, k), n) = path /\ Len(Prefix(q, k)) = k
          BY <1>1, <2>0, <2>1, <4>3
        <5>2. Prefix(q, k) # path
          BY <1>1, <4>3, <5>1 DEF n
        <5> QED
          BY <1>3, <1>5, <3>2, <4>3, <5>1, <5>2
      <4> QED
        BY <1>1, <4>1, <4>2, <4>3
    <3> QED
      BY <2>1, <3>1, <3>2 DEF Found
  <2>2. CASE Prefix(q, n) # path
    <3>1. ASSUME NEW k \in 1 .. RtBytes
          PROVE  Prefix(q, k) # path /\ (Prefix(q, k) \in d => Prefix(q, k) \notin below)
      <4>1. Prefix(q, k) # path
        BY <2>0, <2>2 DEF n
      <4>2. n < k => Prefix(Prefix(q, k), n) = Prefix(q, n)
        BY <1>1, <2>0
      <4> QED
        BY <1>5, <2>0, <2>2, <4>1, <4>2
    <3>2. \A k \in 1 .. RtBytes :
            /\ Prefix(q, k) \in DOMAIN s <=> Prefix(q, k) \in d
            /\ Prefix(q, k) \in d => s[Prefix(q, k)] = t[Prefix(q, k)]
      BY <1>3, <3>1
    <3> QED
      BY <2>2, <3>2 DEF Found, d
  <2> QED
    BY <2>1, <2>2
<1> QED
  BY <1>7, <1>8 DEF s, n

----------------------------------------------------------------------------
\* Adding a path, a block and a range.

\* s is t with v stored at a path.
StoredBelow(s, t, path, v) ==
  /\ s \in Tries
  /\ \A q \in Keys : Found(s, q) = IF Prefix(q, Len(path)) = path THEN {v} ELSE Found(t, q)

LEMMA SplitOnTheWay ==
  ASSUME NEW t \in Tries, NEW path \in Paths, NEW k \in 1 .. Len(path) - 1, Way(t, path, k - 1)
  PROVE  /\ SubSeq(path, 1, k) = Prefix(path, k)
         /\ Split(t, Prefix(path, k)) \in Tries
         /\ Way(Split(t, Prefix(path, k)), path, k)
         /\ \A q \in Keys : Found(Split(t, Prefix(path, k)), q) = Found(t, q)
<1> DEFINE n == Len(path)
           p == Prefix(path, k)
<1>1. /\ n \in 1 .. RtBytes /\ n \in Nat /\ path \in [1 .. n -> Points] /\ k \in 1 .. n
      /\ p \in Paths /\ Len(p) = k
  <2>1. k \in 1 .. Len(path)
    BY PathIs
  <2> QED
    BY <2>1, PathIs
<1> HIDE DEF n
<1>2. k \in 0 .. n /\ k < RtBytes /\ k \in Nat
  BY <1>1, Sizes DEF n
<1>3. SubSeq(path, 1, k) = p
  BY <1>1, <1>2, PrefixIs
<1>4. \A j \in 0 .. k : Prefix(p, j) = Prefix(path, j)
  BY <1>1, <1>2, PrefixTwice
<1> HIDE DEF p
<1>5. Way(t, p, Len(p) - 1)
  BY <1>1, <1>2, <1>4 DEF Way
<1>6. /\ Split(t, p) \in Tries /\ Way(Split(t, p), p, k)
      /\ \A q \in Keys : Found(Split(t, p), q) = Found(t, q)
  BY <1>1, <1>2, <1>5, SplitKeeps
<1>7. Way(Split(t, p), path, k)
  BY <1>2, <1>4, <1>6 DEF Way
<1> QED
  BY <1>3, <1>6, <1>7 DEF p

\* The functions by which AddPath is defined.
WalkIs(f, trie, path) ==
  f = [k \in 0 .. Len(path) - 1 |-> IF k = 0 THEN trie ELSE Split(f[k - 1], SubSeq(path, 1, k))]
Walk(trie, path) == CHOOSE f : WalkIs(f, trie, path)

LEMMA AddPathIsWalk ==
  ASSUME NEW trie, NEW path, NEW v
  PROVE  AddPath(trie, path, v) = Store(Walk(trie, path)[Len(path) - 1], path, v)
BY DEF AddPath, Walk, WalkIs

\* The way to a path may be made of dictionaries without a lookup noticing.
LEMMA AddPathFinds ==
  ASSUME NEW t \in Tries, NEW path \in Paths, NEW v \in RtValues
  PROVE  StoredBelow(AddPath(t, path, v), t, path, v)
<1> DEFINE N == Len(path) - 1
           step == [k \in 1 .. N |->
                      [s \in Tries |-> IF Way(s, path, k - 1) THEN Split(s, Prefix(path, k)) ELSE s]]
           Kept(s, k) == /\ s \in Tries /\ Way(s, path, k)
                         /\ \A q \in Keys : Found(s, q) = Found(t, q)
<1>1. N \in Nat
  BY PathIs
<1>2. step \in [1 .. N -> [Tries -> Tries]]
  BY SplitOnTheWay
<1>3. PICK f \in [0 .. N -> Tries] : Repeated(f, t, step, N)
  <2> HIDE DEF step, N
  <2> QED
    BY <1>1, <1>2, Repeats
<1>4. \A k \in 1 .. N, s \in Tries :
        Way(s, path, k - 1) => step[k][s] = Split(s, SubSeq(path, 1, k))
  <2> SUFFICES ASSUME NEW k \in 1 .. N, NEW s \in Tries, Way(s, path, k - 1)
               PROVE  step[k][s] = Split(s, SubSeq(path, 1, k))
    OBVIOUS
  <2>1. step[k][s] = Split(s, Prefix(path, k))
    OBVIOUS
  <2> HIDE DEF step
  <2>2. SubSeq(path, 1, k) = Prefix(path, k)
    BY SplitOnTheWay
  <2> QED
    BY <2>1, <2>2
<1> HIDE DEF step
<1>5. ASSUME NEW k \in 1 .. N, NEW s, Kept(s, k - 1)
      PROVE  Kept(Split(s, SubSeq(path, 1, k)), k)
  <2>1. s \in Tries /\ Way(s, path, k - 1) /\ \A q \in Keys : Found(s, q) = Found(t, q)
    BY <1>5
  <2>2. k \in 1 .. Len(path) - 1
    OBVIOUS
  <2>3. /\ SubSeq(path, 1, k) = Prefix(path, k)
        /\ Split(s, Prefix(path, k)) \in Tries
        /\ Way(Split(s, Prefix(path, k)), path, k)
        /\ \A q \in Keys : Found(Split(s, Prefix(path, k)), q) = Found(s, q)
    BY <2>1, <2>2, SplitOnTheWay
  <2> QED
    BY <2>1, <2>3
<1>6. Kept(t, 0)
  BY DEF Way
<1> HIDE DEF N, Kept
<1> DEFINE P == {k \in Nat : k <= N => Kept(f[k], k)}
<1>7. f[0] = t /\ \A k \in 1 .. N : k - 1 \in 0 .. N /\ f[k] = step[k][f[k - 1]]
  BY <1>1, <1>3 DEF Repeated
<1>8. 0 \in P
  BY <1>6, <1>7
<1>9. ASSUME NEW k \in P PROVE k + 1 \in P
  <2> SUFFICES ASSUME k + 1 <= N PROVE Kept(f[k + 1], k + 1)
    OBVIOUS
  <2>1. k + 1 \in 1 .. N /\ (k + 1) - 1 = k /\ Kept(f[k], k)
    BY <1>1
  <2>2. f[k] \in Tries /\ Way(f[k], path, k)
    BY <2>1 DEF Kept
  <2>3. f[k + 1] = Split(f[k], SubSeq(path, 1, k + 1))
    BY <1>4, <1>7, <2>1, <2>2
  <2> QED
    BY <1>5, <2>1, <2>3
<1> HIDE DEF P
<1>10. P = Nat
  BY <1>8, <1>9, AllNumbers DEF P
<1>11. \A k \in 0 .. N : Kept(f[k], k)
  BY <1>1, <1>10 DEF P
<1>12. \A k \in 1 .. N : f[k] = Split(f[k - 1], SubSeq(path, 1, k))
  BY <1>4, <1>7, <1>11 DEF Kept
<1>13. WalkIs(f, t, path)
  <2>1. f = [k \in 0 .. N |-> f[k]]
    BY <1>3
  <2>2. \A k \in 0 .. N : f[k] = IF k = 0 THEN t ELSE Split(f[k - 1], SubSeq(path, 1, k))
    BY <1>7, <1>12
  <2> QED
    BY <2>1, <2>2 DEF WalkIs, N
<1> DEFINE g == Walk(t, path)
           Q == {k \in Nat : k <= N => g[k] = f[k]}
<1>14. g = [k \in 0 .. N |-> IF k = 0 THEN t ELSE Split(g[k - 1], SubSeq(path, 1, k))]
  <2>1. WalkIs(g, t, path)
    BY <1>13 DEF Walk
  <2> HIDE DEF g
  <2> QED
    BY <2>1 DEF WalkIs, N
<1> HIDE DEF g
<1>15. 0 \in Q
  BY <1>1, <1>7, <1>14
<1>16. ASSUME NEW k \in Q PROVE k + 1 \in Q
  <2> SUFFICES ASSUME k + 1 <= N PROVE g[k + 1] = f[k + 1]
    OBVIOUS
  <2>1. k + 1 \in 1 .. N /\ k + 1 \in 0 .. N /\ (k + 1) - 1 = k /\ g[k] = f[k] /\ k + 1 # 0
    BY <1>1
  <2>2. g[k + 1] = Split(g[k], SubSeq(path, 1, k + 1))
    BY <1>14, <2>1
  <2>3. f[k + 1] = Split(f[k], SubSeq(path, 1, k + 1))
    BY <1>12, <2>1
  <2> QED
    BY <2>1, <2>2, <2>3
<1> HIDE DEF Q
<1>17. Q = Nat
  BY <1>15, <1>16, AllNumbers DEF Q
<1>18. Kept(g[N], N)
  BY <1>1, <1>11, <1>17 DEF Q
<1>19. Way(g[N], path, Len(path) - 1) /\ g[N] \in Tries
  BY <1>18 DEF Kept, N
<1>20. /\ Store(g[N], path, v) \in Tries
       /\ \A q \in Keys : Found(Store(g[N], path, v), q) =
            IF Prefix(q, Len(path)) = path THEN {v} ELSE Found(g[N], q)
  BY <1>19, StoreFinds
<1>21. AddPath(t, path, v) = Store(g[N], path, v)
  BY AddPathIsWalk DEF g, N
<1>22. \A q \in Keys : Found(g[N], q) = Found(t, q)
  BY <1>18 DEF Kept
<1> QED
  BY <1>20, <1>21, <1>22 DEF StoredBelow

\* The points lo, lo + 1, ... below a path, one path after the other.
PointPath(base, lo, k) == Append(base, lo + k - 1)
PointsIs(f, trie, base, lo, N, v) ==
  f = [k \in 0 .. N |-> IF k = 0 THEN trie ELSE AddPath(f[k - 1], PointPath(base, lo, k), v)]
AddPoints(trie, base, lo, N, v) == CHOOSE f : PointsIs(f, trie, base, lo, N, v)

LEMMA AddBlockIsPoints ==
  ASSUME NEW trie, NEW lower, NEW size, NEW v, WholeBytes(size) # RtBytes, RtBytes \in Nat,
         WholeBytes(size) \in Int
  PROVE  LET at == RtBytes - WholeBytes(size)
             from == ToPath(lower)
             N == ToPath(lower + size - 1)[at] - from[at] + 1
         IN AddBlock(trie, lower, size, v)
              = AddPoints(trie, SubSeq(from, 1, at - 1), from[at], N, v)[N]
<1>1. RtBytes - WholeBytes(size) # 0
  OBVIOUS
<1> QED
  BY <1>1 DEF AddBlock, AddPoints, PointsIs, PointPath

\* s is t with v stored at points lo, lo + 1, ... at a level, below base.
PointsStored(s, t, v, at, base, lo, N) ==
  /\ s \in Tries
  /\ \A q \in Keys : Found(s, q) =
       IF Prefix(q, at - 1) = base /\ q[at] \in lo .. lo + N - 1 THEN {v} ELSE Found(t, q)

LEMMA PointsFind ==
  ASSUME NEW t \in Tries, NEW v \in RtValues, NEW at \in 1 .. RtBytes,
         NEW base \in [1 .. at - 1 -> Points],
         NEW lo \in Points, NEW N \in Nat, lo + N - 1 \in Points
  PROVE  PointsStored(AddPoints(t, base, lo, N, v)[N], t, v, at, base, lo, N)
<1> DEFINE path(k) == PointPath(base, lo, k)
           step == [k \in 1 .. N |-> [s \in Tries |-> AddPath(s, path(k), v)]]
<1>0. at \in Nat /\ at - 1 \in Nat /\ lo \in Nat
  BY Sizes DEF Points
<1>1. ASSUME NEW k \in 1 .. N
      PROVE  /\ path(k) \in Paths /\ Len(path(k)) = at
             /\ \A q \in Keys : Prefix(q, at) = path(k) <=> Prefix(q, at - 1) = base /\ q[at] = lo + k - 1
  <2> DEFINE n == at - 1
             x == lo + k - 1
             p == path(k)
  <2>1. n \in Nat /\ n + 1 = at /\ n < RtBytes
    BY <1>0, Sizes
  <2>2. x \in Points
    BY <1>0, Sizes DEF Points
  <2> HIDE DEF n, x
  <2>3. /\ p \in [1 .. n + 1 -> Points] /\ p[n + 1] = x
        /\ \A j \in 0 .. n : Prefix(p, j) = Prefix(base, j)
    BY <2>1, <2>2, AppendIs DEF PointPath, n, x
  <2>4. p = Append(base, x)
    BY DEF PointPath, x
  <2>5. p \in Paths /\ Len(p) = at
    <3> HIDE DEF p
    <3>1. p \in [1 .. at -> Points]
      BY <2>1, <2>3
    <3> QED
      BY <1>0, <3>1, PathLength DEF Paths
  <2>6. ASSUME NEW q \in Keys
        PROVE  Prefix(q, at) = p <=> Prefix(q, n) = base /\ q[at] = x
    <3>1. q \in [1 .. RtBytes -> Points] /\ RtBytes \in Nat
      BY Sizes DEF Keys
    <3>2. \A y \in Points : Append(Prefix(q, n), y) = Prefix(q, n + 1) <=> q[n + 1] = y
      BY <2>1, <3>1, PrefixGrows
    <3>3. ASSUME Prefix(q, at) = p PROVE Prefix(q, n) = base
      <4>1. n \in 0 .. at /\ at \in 0 .. RtBytes /\ n \in 0 .. n
        BY <1>0, <2>1, Sizes
      <4>2. Prefix(Prefix(q, at), n) = Prefix(q, n)
        BY <3>1, <4>1, PrefixTwice
      <4>3. Prefix(p, n) = Prefix(base, n)
        BY <2>3, <4>1
      <4>4. Prefix(base, n) = base
        BY <2>1, PrefixTwice DEF n
      <4> QED
        BY <3>3, <4>2, <4>3, <4>4
    <3> HIDE DEF p
    <3> QED
      BY <2>1, <2>2, <2>4, <3>2, <3>3
  <2> QED
    BY <2>5, <2>6 DEF n, x
<1>2. \A k \in 1 .. N, s \in Tries : StoredBelow(AddPath(s, path(k), v), s, path(k), v)
  BY <1>1, AddPathFinds
<1>3. step \in [1 .. N -> [Tries -> Tries]]
  BY <1>2 DEF StoredBelow
<1>4. PICK f \in [0 .. N -> Tries] : Repeated(f, t, step, N)
  <2> HIDE DEF step
  <2> QED
    BY <1>3, Repeats
<1>5. \A k \in 1 .. N, s \in Tries : step[k][s] = AddPath(s, path(k), v)
  OBVIOUS
<1> HIDE DEF step
<1>6. PointsIs(f, t, base, lo, N, v)
  <2>1. \A k \in 1 .. N : k - 1 \in 0 .. N /\ f[k - 1] \in Tries
    OBVIOUS
  <2>2. \A k \in 1 .. N : step[k][f[k - 1]] = AddPath(f[k - 1], path(k), v)
    BY <1>5, <2>1
  <2>3. \A k \in 0 .. N : f[k] = IF k = 0 THEN t ELSE AddPath(f[k - 1], path(k), v)
    BY <1>4, <2>2 DEF Repeated
  <2>4. f = [k \in 0 .. N |-> f[k]]
    OBVIOUS
  <2> QED
    BY <2>3, <2>4 DEF PointsIs
<1> DEFINE g == AddPoints(t, base, lo, N, v)
           Has(k) == PointsStored(g[k], t, v, at, base, lo, k)
           P == {k \in Nat : k <= N => Has(k)}
<1>7. PointsIs(g, t, base, lo, N, v)
  BY <1>6 DEF AddPoints
<1> HIDE DEF g, path
<1>8. g[0] = t /\ \A k \in 1 .. N : g[k] = AddPath(g[k - 1], path(k), v)
  BY <1>7 DEF PointsIs, path
<1>9. 0 \in P
  <2>1. lo .. lo + 0 - 1 = {}
    BY <1>0
  <2> QED
    BY <1>8, <2>1 DEF PointsStored
<1> HIDE DEF Has
<1>10. ASSUME NEW k \in P PROVE k + 1 \in P
  <2> SUFFICES ASSUME k + 1 <= N PROVE Has(k + 1)
    OBVIOUS
  <2>1. k + 1 \in 1 .. N /\ (k + 1) - 1 = k /\ Has(k)
    OBVIOUS
  <2>0. g[k] \in Tries
    BY <2>1 DEF Has, PointsStored
  <2>2. g[k + 1] = AddPath(g[k], path(k + 1), v)
    BY <1>8, <2>1
  <2>3. StoredBelow(g[k + 1], g[k], path(k + 1), v)
    BY <1>2, <2>0, <2>1, <2>2
  <2>4. ASSUME NEW q \in Keys
        PROVE  Found(g[k + 1], q) =
                 IF Prefix(q, at - 1) = base /\ q[at] \in lo .. lo + (k + 1) - 1
                 THEN {v} ELSE Found(t, q)
    <3>1. Found(g[k + 1], q) =
            IF Prefix(q, at - 1) = base /\ q[at] = lo + (k + 1) - 1 THEN {v} ELSE Found(g[k], q)
      BY <1>1, <2>1, <2>3 DEF StoredBelow
    <3>2. Found(g[k], q) =
            IF Prefix(q, at - 1) = base /\ q[at] \in lo .. lo + k - 1 THEN {v} ELSE Found(t, q)
      BY <2>1 DEF Has, PointsStored
    <3>3. q[at] \in Nat
      BY Sizes DEF Keys, Points
    <3>4. q[at] \in lo .. lo + (k + 1) - 1 <=> q[at] \in lo .. lo + k - 1 \/ q[at] = lo + (k + 1) - 1
      BY <1>0, <3>3
    <3> QED
      BY <3>1, <3>2, <3>4
  <2> QED
    BY <2>3, <2>4 DEF StoredBelow, Has, PointsStored
<1> HIDE DEF P
<1>11. P = Nat
  BY <1>9, <1>10, AllNumbers DEF P
<1>12. Has(N)
  BY <1>11 DEF P
<1> QED
  BY <1>12 DEF Has, g

\* A block is found by its addresses and by no others.  Of the block of all
\* addresses only the trie is known to be one.
LEMMA AddBlockFinds ==
  ASSUME NEW t \in Tries, NEW v \in RtValues, NEW lower \in Nat, NEW size \in Twos,
         lower % size = 0, lower + size - 1 \in Addresses
  PROVE  /\ AddBlock(t, lower, size, v) \in Tries
         /\ size < Weight(RtBytes) => \A a \in Addresses :
              Found(AddBlock(t, lower, size, v), ToPath(a)) =
                IF a \in lower .. lower + size - 1 THEN {v} ELSE Found(t, ToPath(a))
<1> DEFINE m == WholeBytes(size)
           from == ToPath(lower)
           to == ToPath(lower + size - 1)
           s == AddBlock(t, lower, size, v)
<1>1. size \in Nat \ {0} /\ Weight(RtBytes) \in Nat \ {0} /\ RtBytes \in Nat \ {0}
  BY TwosType, Weights, Sizes
<1>2. size <= Weight(RtBytes)
  BY <1>1, InAddresses
<1>3. /\ m \in 0 .. RtBytes /\ Weight(m) <= size /\ size < Weight(m + 1)
  BY <1>1, <1>2, WholeBytesAre
<1>4. lower \in Addresses
  BY <1>1, InAddresses
<1>5. \A a \in Addresses : ToPath(a) \in Keys
  BY InAddresses, Bytes DEF Keys
<1>6. ASSUME NEW a \in Addresses, NEW k \in 1 .. RtBytes
      PROVE  /\ SubSeq(from, 1, k - 1) \in [1 .. k - 1 -> Points]
             /\ Prefix(ToPath(a), k - 1) = SubSeq(from, 1, k - 1)
                  <=> \A i \in 1 .. k - 1 : ToPath(a)[i] = from[i]
  <2>1. k - 1 \in 0 .. RtBytes /\ k - 1 \in Nat
    BY <1>1
  <2>2. from \in [1 .. RtBytes -> Points]
    BY Bytes
  <2> HIDE DEF from
  <2>3. SubSeq(from, 1, k - 1) = Prefix(from, k - 1) /\ Prefix(from, k - 1) \in [1 .. k - 1 -> Points]
    BY <1>1, <2>1, <2>2, PrefixIs
  <2>4. Prefix(ToPath(a), k - 1) = Prefix(from, k - 1)
          <=> \A i \in 1 .. k - 1 : ToPath(a)[i] = from[i]
    BY DEF Prefix
  <2> QED
    BY <2>3, <2>4
<1>7. CASE size < Weight(RtBytes)
  <2> DEFINE at == RtBytes - m
             lo == from[at]
             N == to[at] - lo + 1
             base == SubSeq(from, 1, at - 1)
  <2>1. /\ at \in 1 .. RtBytes
        /\ lo \in Points /\ to[at] \in Points /\ lo <= to[at]
        /\ \A a \in Addresses : a \in lower .. lower + size - 1
             <=> /\ \A i \in 1 .. at - 1 : ToPath(a)[i] = from[i]
                 /\ ToPath(a)[at] \in lo .. to[at]
    BY <1>7, BlockBytes
  <2>2. m # RtBytes /\ m \in Int
    <3> HIDE DEF m
    <3> QED
      BY <1>1, <1>3, <2>1
  <2>3. s = AddPoints(t, base, lo, N, v)[N]
    BY <1>1, <2>2, AddBlockIsPoints
  <2>4. N \in Nat /\ lo + N - 1 = to[at] /\ lo + N - 1 \in Points
    <3> DEFINE hi == to[at]
    <3>1. lo \in Nat /\ hi \in Nat /\ lo <= hi /\ hi \in Points
      BY <2>1, Sizes DEF Points
    <3> HIDE DEF lo, hi
    <3>2. hi - lo + 1 \in Nat /\ lo + (hi - lo + 1) - 1 = hi
      BY <3>1
    <3> QED
      BY <3>1, <3>2 DEF hi
  <2>5. base \in [1 .. at - 1 -> Points]
    BY <1>4, <1>6, <2>1
  <2> HIDE DEF at, lo, N, base, s
  <2>6. PointsStored(s, t, v, at, base, lo, N)
    BY <2>1, <2>3, <2>4, <2>5, PointsFind
  <2>7. ASSUME NEW a \in Addresses
        PROVE  Found(s, ToPath(a)) =
                 IF a \in lower .. lower + size - 1 THEN {v} ELSE Found(t, ToPath(a))
    <3>1. Prefix(ToPath(a), at - 1) = base <=> \A i \in 1 .. at - 1 : ToPath(a)[i] = from[i]
      BY <1>6, <2>1 DEF base
    <3>2. a \in lower .. lower + size - 1
            <=> Prefix(ToPath(a), at - 1) = base /\ ToPath(a)[at] \in lo .. lo + N - 1
      BY <2>1, <2>4, <3>1
    <3> QED
      BY <1>5, <2>6, <3>2 DEF PointsStored
  <2> QED
    BY <2>6, <2>7 DEF s, PointsStored
<1>8. CASE size = Weight(RtBytes)
  <2> DEFINE n == RtBytes
             lo == from[n]
             N == to[n] - lo + 1
             base == SubSeq(from, 1, n - 1)
  <2>1. m = RtBytes
    <3>1. CASE m < RtBytes
      <4>1. m + 1 \in 1 .. RtBytes /\ m \in Nat
        BY <1>1, <1>3, <3>1
      <4>2. size = Weight(m + 1) * Power(RtBase, RtBytes - (m + 1))
        <5>1. m + 1 \in Nat /\ RtBytes - (m + 1) \in Nat /\ RtBytes = (m + 1) + (RtBytes - (m + 1))
          BY <1>1, <4>1
        <5> QED
          BY <1>8, <5>1, PowerAdds, Sizes DEF Weight
      <4>3. Weight(m + 1) \in Nat \ {0} /\ Power(RtBase, RtBytes - (m + 1)) \in Nat \ {0}
        <5>1. m + 1 \in Nat /\ RtBytes - (m + 1) \in Nat /\ RtBase \in Nat \ {0}
          BY <1>1, <4>1, Sizes
        <5> HIDE DEF m
        <5> QED
          BY <5>1, PowerType DEF Weight
      <4>4. \A x, y \in Nat \ {0} : x * y >= x
        OBVIOUS
      <4> QED
        BY <1>1, <1>3, <4>2, <4>3, <4>4
    <3> QED
      BY <1>1, <1>3, <3>1
  <2>2. lower = 0
    BY <1>1, <1>8, InAddresses
  <2>3. s = AddPoints(t, base, lo, N, v)[N]
    <3>1. RtBytes - m = 0
      BY <1>1, <2>1
    <3> QED
      BY <3>1 DEF AddBlock, AddPoints, PointsIs, PointPath
  <2>4. lo = 0 /\ to[n] \in Points
    <3>1. n \in 1 .. RtBytes /\ lower + size - 1 \in Nat
      BY <1>1
    <3>2. to \in [1 .. RtBytes -> Points] /\ from[n] = (lower \div Weight(RtBytes - n)) % RtBase
      <4> HIDE DEF n
      <4> QED
        BY <3>1, Bytes
    <3>3. Weight(RtBytes - n) = 1
      BY <1>1, Weights
    <3>4. (0 \div 1) % RtBase = 0
      BY Sizes
    <3> QED
      BY <2>2, <3>1, <3>2, <3>3, <3>4
  <2>5. base \in [1 .. n - 1 -> Points] /\ n \in 1 .. RtBytes
    BY <1>1, <1>4, <1>6
  <2>6. lo \in Points /\ N \in Nat /\ lo + N - 1 \in Points
    <3> DEFINE hi == to[n]
    <3>1. hi \in Nat /\ hi \in Points /\ lo = 0 /\ 0 \in Points
      BY <2>4, Sizes DEF Points
    <3> HIDE DEF hi, lo
    <3>2. hi - lo + 1 \in Nat /\ lo + (hi - lo + 1) - 1 = hi
      BY <3>1
    <3> QED
      BY <3>1, <3>2 DEF hi
  <2> HIDE DEF n, lo, N, base, s
  <2>7. s \in Tries
    BY <2>3, <2>5, <2>6, PointsFind DEF PointsStored
  <2> QED
    BY <1>1, <1>8, <2>7 DEF s
<1> QED
  BY <1>1, <1>2, <1>7, <1>8

\* What the loop of _add_range keeps: the trie and the first address left.
LoopState == [trie : Tries, lower : Nat]
Round(s, upper, v) ==
  LET size == NextLength(s.lower, upper)
  IN IF s.lower > upper THEN s
     ELSE [trie |-> AddBlock(s.trie, s.lower, size, v), lower |-> s.lower + size]
LoopIs(f, trie, lower, upper, v) ==
  f = [k \in 0 .. upper + 1 |->
         IF k = 0 THEN [trie |-> trie, lower |-> lower] ELSE Round(f[k - 1], upper, v)]
Loop(trie, lower, upper, v) == CHOOSE f : LoopIs(f, trie, lower, upper, v)

LEMMA AddBlocksIsLoop ==
  ASSUME NEW trie, NEW lower, NEW upper, NEW v
  PROVE  AddBlocks(trie, lower, upper, v) = Loop(trie, lower, upper, v)[upper + 1].trie
BY DEF AddBlocks, Loop, LoopIs, Round

\* A round stores a block, or there is nothing left.
Advanced(r, s, upper, v) ==
  /\ r \in LoopState
  /\ s.lower > upper => r = s
  /\ s.lower <= upper => s.lower < r.lower /\ r.lower <= upper + 1
  /\ s.lower <= upper /\ s.lower .. upper # Addresses => \A a \in Addresses :
       Found(r.trie, ToPath(a)) =
         IF a \in s.lower .. r.lower - 1 THEN {v} ELSE Found(s.trie, ToPath(a))

LEMMA RoundFinds ==
  ASSUME NEW s \in LoopState, NEW upper \in Addresses, NEW v \in RtValues
  PROVE  Advanced(Round(s, upper, v), s, upper, v)
<1>1. CASE s.lower > upper
  <2>1. Round(s, upper, v) = s
    BY <1>1 DEF Round
  <2>2. s.lower \in Nat /\ upper \in Nat
    BY InAddresses DEF LoopState
  <2> QED
    BY <1>1, <2>1, <2>2 DEF Advanced
<1>2. CASE s.lower <= upper
  <2> DEFINE t == s.trie
             lower == s.lower
             size == NextLength(lower, upper)
             r == Round(s, upper, v)
  <2>1. t \in Tries /\ lower \in Nat /\ upper \in Nat /\ ~ (lower > upper)
    BY <1>2, InAddresses DEF LoopState
  <2>2. size \in Twos /\ size \in Nat \ {0} /\ lower % size = 0 /\ lower + size - 1 <= upper
    <3> HIDE DEF lower
    <3> QED
      BY <1>2, <2>1, NextLengthIs DEF lower
  <2>3. r = [trie |-> AddBlock(t, lower, size, v), lower |-> lower + size]
    BY <2>1 DEF Round
  <2> HIDE DEF t, lower, size, r
  <2>4. Weight(RtBytes) \in Nat /\ lower + size - 1 \in Addresses
    <3>1. Weight(RtBytes) \in Nat
      BY Weights, Sizes
    <3> QED
      BY <2>1, <2>2, <3>1, InAddresses
  <2>5. /\ AddBlock(t, lower, size, v) \in Tries
        /\ size < Weight(RtBytes) => \A a \in Addresses :
             Found(AddBlock(t, lower, size, v), ToPath(a)) =
               IF a \in lower .. lower + size - 1 THEN {v} ELSE Found(t, ToPath(a))
    BY <2>1, <2>2, <2>4, AddBlockFinds
  <2>6. r.trie = AddBlock(t, lower, size, v) /\ r.lower = lower + size
    BY <2>3
  <2>7. r \in LoopState /\ lower < r.lower /\ r.lower <= upper + 1
    <3>1. lower + size \in Nat
      BY <2>1, <2>2
    <3>2. r \in LoopState
      BY <2>3, <2>5, <3>1 DEF LoopState
    <3> QED
      BY <2>1, <2>2, <2>6, <3>2
  <2>8. lower .. upper # Addresses => size < Weight(RtBytes)
    BY <2>1, <2>2, <2>4, InAddresses
  <2> QED
    <3> DEFINE x == Round(s, upper, v)
    <3>1. ~ (s.lower > upper) /\ s.lower <= upper
      BY <1>2, <2>1 DEF lower
    <3>2. x \in LoopState /\ s.lower < x.lower /\ x.lower <= upper + 1
      BY <2>7 DEF lower, r
    <3>3. ASSUME s.lower .. upper # Addresses, NEW a \in Addresses
          PROVE  Found(x.trie, ToPath(a)) =
                   IF a \in s.lower .. x.lower - 1 THEN {v} ELSE Found(s.trie, ToPath(a))
      <4>1. x.lower = lower + size /\ x.trie = AddBlock(t, lower, size, v)
        BY <2>6 DEF r
      <4>2. lower .. upper # Addresses /\ s.lower = lower /\ s.trie = t
        BY <3>3 DEF t, lower
      <4> HIDE DEF x
      <4>3. Found(x.trie, ToPath(a)) =
              IF a \in lower .. lower + size - 1 THEN {v} ELSE Found(t, ToPath(a))
        BY <2>5, <2>8, <4>1, <4>2
      <4>4. s.lower .. x.lower - 1 = lower .. lower + size - 1
        BY <2>1, <2>2, <4>1, <4>2
      <4>5. Found(s.trie, ToPath(a)) = Found(t, ToPath(a))
        BY <4>2
      <4> QED
        BY <4>3, <4>4, <4>5
    <3> HIDE DEF x
    <3> QED
      BY <3>1, <3>2, <3>3 DEF Advanced, x
<1>3. s.lower \in Nat /\ upper \in Nat
  BY InAddresses DEF LoopState
<1> QED
  BY <1>1, <1>2, <1>3

\* s is t with v given to a range.
Added(s, t, lower, upper, v) ==
  /\ s \in Tries
  /\ lower .. upper # Addresses => \A a \in Addresses :
       Found(s, ToPath(a)) = IF a \in lower .. upper THEN {v} ELSE Found(t, ToPath(a))

LEMMA AddBlocksFind ==
  ASSUME NEW t \in Tries, NEW lower \in Addresses, NEW upper \in Addresses, NEW v \in RtValues
  PROVE  Added(AddBlocks(t, lower, upper, v), t, lower, upper, v)
<1> DEFINE N == upper + 1
           base == [trie |-> t, lower |-> lower]
           step == [k \in 1 .. N |-> [s \in LoopState |-> Round(s, upper, v)]]
<1>1. lower \in Nat /\ upper \in Nat /\ N \in Nat /\ base \in LoopState
  BY InAddresses DEF LoopState
<1>2. step \in [1 .. N -> [LoopState -> LoopState]]
  BY RoundFinds DEF Advanced
<1>3. PICK f \in [0 .. N -> LoopState] : Repeated(f, base, step, N)
  <2> HIDE DEF step, N, base
  <2> QED
    BY <1>1, <1>2, Repeats
<1>4. \A k \in 1 .. N, s \in LoopState : step[k][s] = Round(s, upper, v)
  OBVIOUS
<1> HIDE DEF step, base, N
<1>5. LoopIs(f, t, lower, upper, v)
  <2>1. \A k \in 1 .. N : k - 1 \in 0 .. N /\ f[k - 1] \in LoopState
    BY <1>1
  <2>2. \A k \in 1 .. N : step[k][f[k - 1]] = Round(f[k - 1], upper, v)
    BY <1>4, <2>1
  <2>3. \A k \in 0 .. N : f[k] = IF k = 0 THEN base ELSE Round(f[k - 1], upper, v)
    BY <1>1, <1>3, <2>2 DEF Repeated
  <2>4. f = [k \in 0 .. N |-> f[k]]
    OBVIOUS
  <2> QED
    BY <2>3, <2>4 DEF LoopIs, N, base
<1> DEFINE g == Loop(t, lower, upper, v)
           Has(k) ==
             /\ g[k] \in LoopState
             /\ lower <= g[k].lower
             /\ lower > upper => g[k].lower = lower
             /\ lower <= upper => g[k].lower <= upper + 1
             /\ g[k].lower > upper \/ g[k].lower >= lower + k
             /\ lower .. upper # Addresses => \A a \in Addresses :
                  Found(g[k].trie, ToPath(a)) =
                    IF a \in lower .. g[k].lower - 1 THEN {v} ELSE Found(t, ToPath(a))
           P == {k \in Nat : k <= N => Has(k)}
<1>6. LoopIs(g, t, lower, upper, v)
  BY <1>5 DEF Loop
<1> HIDE DEF g
<1>7. g[0] = base /\ \A k \in 1 .. N : g[k] = Round(g[k - 1], upper, v)
  <2>1. g = [k \in 0 .. N |-> IF k = 0 THEN base ELSE Round(g[k - 1], upper, v)]
    BY <1>6 DEF LoopIs, N, base
  <2> QED
    BY <1>1, <2>1
<1>8. 0 \in P
  <2>1. base.lower = lower /\ base.trie = t
    BY DEF base
  <2>2. lower .. lower - 1 = {}
    BY <1>1
  <2> QED
    BY <1>1, <1>7, <2>1, <2>2
<1> HIDE DEF Has
<1>9. ASSUME NEW k \in P PROVE k + 1 \in P
  <2> SUFFICES ASSUME k + 1 <= N PROVE Has(k + 1)
    OBVIOUS
  <2>1. k + 1 \in 1 .. N /\ (k + 1) - 1 = k /\ Has(k)
    BY <1>1
  <2> DEFINE s == g[k]
             r == g[k + 1]
  <2>2. r = Round(s, upper, v)
    BY <1>7, <2>1
  <2>3. /\ s \in LoopState
        /\ lower <= s.lower
        /\ lower > upper => s.lower = lower
        /\ lower <= upper => s.lower <= upper + 1
        /\ s.lower > upper \/ s.lower >= lower + k
        /\ lower .. upper # Addresses => \A a \in Addresses :
             Found(s.trie, ToPath(a)) =
               IF a \in lower .. s.lower - 1 THEN {v} ELSE Found(t, ToPath(a))
    BY <2>1 DEF Has
  <2> HIDE DEF s, r
  <2>4. /\ r \in LoopState
        /\ s.lower > upper => r = s
        /\ s.lower <= upper => s.lower < r.lower /\ r.lower <= upper + 1
        /\ s.lower <= upper /\ s.lower .. upper # Addresses => \A a \in Addresses :
             Found(r.trie, ToPath(a)) =
               IF a \in s.lower .. r.lower - 1 THEN {v} ELSE Found(s.trie, ToPath(a))
    <3>1. Advanced(r, s, upper, v)
      BY <2>2, <2>3, RoundFinds
    <3> QED
      BY <3>1 DEF Advanced
  <2>5. s.lower \in Nat /\ r.lower \in Nat
    BY <2>3, <2>4 DEF LoopState
  <2>6. CASE s.lower > upper
    BY <1>1, <2>3, <2>4, <2>5, <2>6 DEF Has, r
  <2>7. CASE s.lower <= upper
    <3>1. /\ lower <= r.lower /\ lower <= upper /\ r.lower <= upper + 1
          /\ r.lower > upper \/ r.lower >= lower + (k + 1)
      BY <1>1, <2>3, <2>4, <2>5, <2>7
    <3>2. ASSUME lower .. upper # Addresses, NEW a \in Addresses
          PROVE  Found(r.trie, ToPath(a)) =
                   IF a \in lower .. r.lower - 1 THEN {v} ELSE Found(t, ToPath(a))
      <4>1. s.lower .. upper # Addresses
        <5> SUFFICES ASSUME s.lower .. upper = Addresses PROVE lower = s.lower
          BY <3>2
        <5>1. lower \in s.lower .. upper
          OBVIOUS
        <5> QED
          BY <1>1, <2>3, <2>5, <5>1
      <4>2. a \in lower .. r.lower - 1 <=> a \in lower .. s.lower - 1 \/ a \in s.lower .. r.lower - 1
        BY <1>1, <2>3, <2>4, <2>5, <2>7, InAddresses
      <4> QED
        BY <2>3, <2>4, <2>7, <3>2, <4>1, <4>2
    <3>3. /\ r \in LoopState /\ lower <= r.lower
          /\ lower > upper => r.lower = lower
          /\ lower <= upper => r.lower <= upper + 1
          /\ r.lower > upper \/ r.lower >= lower + (k + 1)
          /\ lower .. upper # Addresses => \A a \in Addresses :
               Found(r.trie, ToPath(a)) =
                 IF a \in lower .. r.lower - 1 THEN {v} ELSE Found(t, ToPath(a))
      <4>1. ~ (lower > upper)
        BY <1>1, <3>1
      <4> QED
        BY <2>4, <3>1, <3>2, <4>1
    <3> QED
      BY <3>3 DEF Has, r
  <2> QED
    BY <1>1, <2>5, <2>6, <2>7
<1> HIDE DEF P
<1>10. P = Nat
  BY <1>8, <1>9, AllNumbers DEF P
<1>11. Has(N)
  BY <1>1, <1>10 DEF P
<1>12. AddBlocks(t, lower, upper, v) = g[N].trie
  BY AddBlocksIsLoop DEF g, N
<1>13. g[N].lower \in Nat /\ g[N].trie \in Tries
  BY <1>11 DEF Has, LoopState
<1>14. lower .. g[N].lower - 1 = lower .. upper
  <2>1. N = upper + 1
    BY DEF N
  <2>2. lower <= upper => g[N].lower = upper + 1
    BY <1>1, <1>11, <1>13, <2>1 DEF Has
  <2>3. CASE lower <= upper
    BY <1>1, <2>2, <2>3
  <2>4. CASE lower > upper
    <3>1. g[N].lower = lower
      BY <1>11, <2>4 DEF Has
    <3> QED
      BY <1>1, <2>4, <3>1
  <2> QED
    BY <1>1, <2>3, <2>4
<1> QED
  BY <1>11, <1>12, <1>13, <1>14 DEF Has, Added

----------------------------------------------------------------------------
\* Looking up, and all steps.

\* What is found is what a lookup answers.
LEMMA FollowPathFinds ==
  ASSUME NEW t \in Tries, NEW q \in Keys
  PROVE  /\ Found(t, q) = {} => FollowPath(t, q) = RtNone
         /\ \A v \in RtValues : Found(t, q) = {v} => FollowPath(t, q) = v
<1> DEFINE Ends(k) == EndsAt(t, q, k)
           First(k) == Ends(k) /\ \A j \in 1 .. k - 1 : ~ Ends(j)
           n == RtBytes
<1>1. n \in Nat /\ n > 0 /\ Len(q) = n /\ q \in [1 .. n -> Points]
  <2>1. q \in [1 .. n -> Points] /\ n \in Nat /\ n > 0
    BY Sizes DEF Keys
  <2> HIDE DEF n
  <2> QED
    BY <2>1, PathLength
<1>2. ASSUME NEW k \in 1 .. n
      PROVE  /\ SubSeq(q, 1, k) = Prefix(q, k)
             /\ Len(Prefix(q, k)) = k
             /\ \A j \in 1 .. k : Prefix(Prefix(q, k), j) = Prefix(q, j)
  <2>1. k \in 0 .. n
    BY <1>1
  <2>2. SubSeq(q, 1, k) = Prefix(q, k)
    <3> HIDE DEF n
    <3> QED
      BY <1>1, <2>1, PrefixIs
  <2> QED
    BY <2>2, KeyPrefix
<1>3. \A k \in 1 .. n : Ends(k) <=> Prefix(q, k) \notin DOMAIN t \/ t[Prefix(q, k)] # RtDict
  BY <1>2 DEF EndsAt
<1>4. \A p \in DOMAIN t :
        /\ t[p] \in RtValues \cup {RtDict}
        /\ \A k \in 1 .. Len(p) - 1 : Prefix(p, k) \in DOMAIN t /\ t[Prefix(p, k)] = RtDict
        /\ Len(p) = n => t[p] # RtDict
  BY TrieShape
<1> HIDE DEF Ends, n
<1>5. \E k \in 1 .. n : First(k)
  <2> DEFINE S == {k \in 1 .. n : Ends(k)}
  <2>1. n \in S
    BY <1>1, <1>2, <1>3, <1>4
  <2>2. S \in SUBSET Nat
    BY <1>1
  <2>3. PICK k \in S : \A m \in S : k <= m
    <3> HIDE DEF S
    <3> QED
      BY <2>1, <2>2, LeastNumber
  <2>4. k \in 1 .. n /\ Ends(k) /\ k \in Nat
    BY <2>2
  <2>5. ASSUME NEW j \in 1 .. k - 1 PROVE ~ Ends(j)
    <3>1. j \in 1 .. n /\ j < k
      BY <1>1, <2>4
    <3> QED
      BY <2>3, <3>1
  <2> QED
    BY <2>4, <2>5
<1> DEFINE last == CHOOSE k \in 1 .. n : First(k)
<1>6. last \in 1 .. n /\ First(last)
  <2> HIDE DEF First
  <2> QED
    BY <1>5
<1>7. FollowPath(t, q) = IF Prefix(q, last) \in DOMAIN t THEN t[Prefix(q, last)] ELSE RtNone
  <2>1. FollowPath(t, q) = IF SubSeq(q, 1, last) \in DOMAIN t THEN t[SubSeq(q, 1, last)] ELSE RtNone
    BY <1>1 DEF FollowPath, Ends
  <2> HIDE DEF last
  <2> QED
    BY <1>2, <1>6, <2>1
<1> HIDE DEF last
<1>8. CASE Prefix(q, last) \in DOMAIN t
  <2>1. t[Prefix(q, last)] \in RtValues
    BY <1>3, <1>4, <1>6, <1>8
  <2>2. t[Prefix(q, last)] \in Found(t, q)
    BY <1>6, <1>8, <2>1 DEF Found, n
  <2> QED
    BY <1>7, <1>8, <2>2
<1>9. CASE Prefix(q, last) \notin DOMAIN t
  <2>1. ASSUME NEW v \in RtValues, NEW k \in 1 .. n, Prefix(q, k) \in DOMAIN t, t[Prefix(q, k)] = v
        PROVE  FALSE
    <3>1. v # RtDict
      BY RtAssumption
    <3>2. CASE k < last
      <4>1. k \in 1 .. last - 1
        BY <1>1, <1>6, <3>2
      <4>2. ~ Ends(k)
        BY <1>6, <4>1
      <4> QED
        BY <1>3, <2>1, <3>1, <4>2
    <3>3. CASE k > last
      <4>1. last \in 1 .. Len(Prefix(q, k)) - 1 /\ last \in 1 .. k
        BY <1>1, <1>2, <1>6, <3>3
      <4> QED
        BY <1>2, <1>4, <1>9, <2>1, <4>1
    <3> QED
      BY <1>1, <1>6, <1>9, <2>1, <3>2, <3>3
  <2>2. Found(t, q) = {}
    BY <2>1 DEF Found, n
  <2> QED
    BY <1>7, <1>9, <2>2
<1> QED
  BY <1>8, <1>9

\* What an address should find.
Wanted(w) == IF w = RtNone THEN {} ELSE {w}

\* The table is a trie, and every address finds what it was last given.
RangesInv ==
  /\ rtTrie \in Tries
  /\ rtWanted \in [Addresses -> RtValues \cup {RtNone}]
  /\ rtAll \in BOOLEAN
  /\ rtAdds \in 0 .. MaxRtAdds
  /\ ~ rtAll => \A a \in Addresses : Found(rtTrie, ToPath(a)) = Wanted(rtWanted[a])

LEMMA EmptyFinds ==
  /\ RtEmpty \in Tries
  /\ \A q \in Keys : Found(RtEmpty, q) = {}
<1>1. DOMAIN RtEmpty = {} /\ RtEmpty = [p \in DOMAIN RtEmpty |-> RtEmpty[p]]
  BY DEF RtEmpty
<1>2. RtEmpty \in Shapes
  BY <1>1, Shaped
<1> QED
  BY <1>1, <1>2 DEF Tries, Found

LEMMA EmptyTable ==
  \A a \in Addresses :
    Found(RtEmpty, ToPath(a)) = Wanted([b \in Addresses |-> RtNone][a])
BY EmptyFinds, InAddresses, Bytes DEF Wanted, Keys

LEMMA RangesStart == RtInit => RangesInv
<1> SUFFICES ASSUME RtInit PROVE RangesInv
  OBVIOUS
<1>1. rtTrie \in Tries
        /\ \A a \in Addresses : Found(rtTrie, ToPath(a)) = Wanted(rtWanted[a])
  BY EmptyFinds, EmptyTable DEF RtInit
<1>2. rtAdds \in 0 .. MaxRtAdds
  BY RtAssumption DEF RtInit
<1>3. rtAll \in BOOLEAN
  BY DEF RtInit
<1>4. rtWanted \in [Addresses -> RtValues \cup {RtNone}]
  BY DEF RtInit
<1> QED
  BY <1>1, <1>2, <1>3, <1>4 DEF RangesInv

LEMMA RangesKept == RangesInv /\ [RtNext]_rtVars => RangesInv'
<1> SUFFICES ASSUME RangesInv, [RtNext]_rtVars PROVE RangesInv'
  OBVIOUS
<1>1. CASE UNCHANGED rtVars
  BY <1>1 DEF RangesInv, rtVars
<1>2. CASE Clear
  <2>1. rtTrie' \in Tries
          /\ \A a \in Addresses : Found(rtTrie', ToPath(a)) = Wanted(rtWanted'[a])
    BY <1>2, EmptyFinds, EmptyTable DEF Clear
  <2>2. rtWanted' \in [Addresses -> RtValues \cup {RtNone}]
    BY <1>2 DEF Clear
  <2>3. rtAdds' \in 0 .. MaxRtAdds
    BY <1>2 DEF Clear, RangesInv
  <2>4. rtAll' \in BOOLEAN
    BY <1>2 DEF Clear
  <2> QED
    BY <2>1, <2>2, <2>3, <2>4 DEF RangesInv
<1>3. ASSUME NEW lower \in RtEnds, NEW upper \in RtEnds, NEW v \in RtValues,
             NEW twice \in BOOLEAN, AddRange(lower, upper, v, twice)
      PROVE  RangesInv'
  <2> DEFINE once == AddBlocks(rtTrie, lower, upper, v)
             both == AddBlocks(once, lower, upper, v)
  <2>2. lower \in Addresses /\ upper \in Addresses /\ rtTrie \in Tries
    BY RtAssumption DEF RangesInv
  <2>3. Added(once, rtTrie, lower, upper, v)
    BY <2>2, AddBlocksFind
  <2> HIDE DEF once
  <2>4. Added(both, once, lower, upper, v)
    BY <2>2, <2>3, AddBlocksFind DEF Added
  <2> HIDE DEF both
  <2>5. Added(rtTrie', rtTrie, lower, upper, v)
    <3>1. rtTrie' = IF twice THEN both ELSE once
      BY <1>3 DEF AddRange, both, once
    <3>2. Added(both, rtTrie, lower, upper, v)
      BY <2>3, <2>4 DEF Added
    <3> QED
      BY <2>3, <3>1, <3>2
  <2>6. /\ rtAdds' \in 0 .. MaxRtAdds /\ rtAll' \in BOOLEAN
        /\ rtWanted' \in [Addresses -> RtValues \cup {RtNone}]
    BY <1>3, RtAssumption DEF AddRange, RangesInv
  <2>7. ASSUME ~ rtAll', NEW a \in Addresses
        PROVE  Found(rtTrie', ToPath(a)) = Wanted(rtWanted'[a])
    <3>1. ~ rtAll /\ lower .. upper # Addresses
      BY <1>3, <2>7 DEF AddRange, RangesInv
    <3>2. rtWanted'[a] = IF a \in lower .. upper THEN v ELSE rtWanted[a]
      BY <1>3 DEF AddRange
    <3>3. v # RtNone
      BY RtAssumption
    <3> QED
      BY <2>5, <3>1, <3>2, <3>3 DEF Added, Wanted, RangesInv
  <2> QED
    BY <2>5, <2>6, <2>7 DEF RangesInv, Added
<1> QED
  BY <1>1, <1>2, <1>3 DEF RtNext

LEMMA RangesHold == RtSpec => []RangesInv
BY RangesStart, RangesKept, PTL DEF RtSpec

\* Every variable keeps its type; the table is a trie of paths to values and
\* dictionaries, whatever is added (common/iprange.py).
THEOREM RangesTypeCorrect == RtSpec => []RtTypeOK
<1>1. RangesInv => RtTypeOK
  BY TrieShape DEF RangesInv, RtTypeOK
<1> QED
  BY <1>1, RangesHold, PTL

\* is_ip_private and is_ip_reserved answer from the last range that holds the
\* address, for addresses of any number of bytes and bytes of any number of
\* bits, whatever ranges were added before (RangeTable.__getitem__).
THEOREM RangesFound == RtSpec => []RangesAgree
<1>1. RangesInv => RangesAgree
  <2> SUFFICES ASSUME RangesInv, ~ rtAll, NEW a \in Addresses
               PROVE  FollowPath(rtTrie, ToPath(a)) = rtWanted[a]
    BY DEF RangesAgree
  <2>1. rtTrie \in Tries /\ ToPath(a) \in Keys
    BY InAddresses, Bytes DEF Keys, RangesInv
  <2>2. Found(rtTrie, ToPath(a)) = Wanted(rtWanted[a]) /\ rtWanted[a] \in RtValues \cup {RtNone}
    BY DEF RangesInv
  <2> QED
    BY <2>1, <2>2, FollowPathFinds DEF Wanted
<1> QED
  BY <1>1, RangesHold, PTL
=============================================================================
