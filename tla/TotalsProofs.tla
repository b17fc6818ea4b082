--------------------------- MODULE TotalsProofs ----------------------------
(***************************************************************************)
(* What changing one number does to a sum.  A sum over a set of any size   *)
(* would need an induction; as the size of a set of units it needs only    *)
(* that the sets before and after differ by the units of one key.          *)
(***************************************************************************)
EXTENDS Totals, FiniteSetTheorems, TLAPS

\* A function with a finite domain and natural values.
Summable(f) ==
  /\ IsFiniteSet(DOMAIN f)
  /\ \A k \in DOMAIN f : f[k] \in Nat

\* What k adds to the sum.
At(f, k) == IF k \in DOMAIN f THEN f[k] ELSE 0

\* n units of one key.
LEMMA UnitsOfOneKey ==
  ASSUME NEW k, NEW n \in Nat
  PROVE  IsFiniteSet({k} \X (1..n)) /\ Cardinality({k} \X (1..n)) = n
<1> DEFINE S == {k}
           T == 1..n
<1>1. IsFiniteSet(T) /\ Cardinality(T) = n
  BY FS_Interval
<1>2. IsFiniteSet(S) /\ Cardinality(S) = 1
  BY FS_Singleton
<1> HIDE DEF S, T
<1>3. IsFiniteSet(S \X T) /\ Cardinality(S \X T) = Cardinality(S) * Cardinality(T)
  BY <1>1, <1>2, FS_Product
<1>4. IsFiniteSet(S \X T) /\ Cardinality(S \X T) = n
  BY <1>1, <1>2, <1>3
<1> QED
  BY <1>4 DEF S, T

\* The units of a summable function can be counted.
LEMMA UnitsAreFinite ==
  ASSUME NEW f, Summable(f)
  PROVE  IsFiniteSet(Units(f)) /\ Total(f) \in Nat
<1> DEFINE Op(k) == {k} \X (1..f[k])
           parts == {Op(k) : k \in DOMAIN f}
<1>1. \A T \in parts : IsFiniteSet(T)
  <2> SUFFICES ASSUME NEW k \in DOMAIN f PROVE IsFiniteSet(Op(k))
    OBVIOUS
  <2>1. f[k] \in Nat
    BY DEF Summable
  <2> QED
    BY <2>1, UnitsOfOneKey
<1>2. IsFiniteSet(parts)
  <2> DEFINE g == [k \in DOMAIN f |-> Op(k)]
  <2>1. g \in Surjection(DOMAIN f, parts)
    BY DEF Surjection
  <2>2. IsFiniteSet(DOMAIN f)
    BY DEF Summable
  <2> HIDE DEF g, parts
  <2> QED
    BY <2>1, <2>2, FS_Surjection
<1>3. IsFiniteSet(UNION parts)
  <2> HIDE DEF parts
  <2> QED
    BY <1>1, <1>2, FS_UNION
<1>4. Units(f) = UNION parts
  BY DEF Units
<1>5. IsFiniteSet(Units(f))
  BY <1>3, <1>4
<1> QED
  BY <1>5, FS_CardinalityType DEF Total

\* Functions that agree except at k have sums that differ by what k adds.
LEMMA TotalOfOne ==
  ASSUME NEW f, NEW g, NEW k, Summable(f), Summable(g),
         DOMAIN f \ {k} = DOMAIN g \ {k},
         \A j \in DOMAIN f \ {k} : g[j] = f[j]
  PROVE  /\ Total(g) = Total(f) - At(f, k) + At(g, k)
         /\ At(f, k) \in Nat /\ At(g, k) \in Nat
         /\ Total(f) \in Nat /\ Total(g) \in Nat
         /\ At(f, k) <= Total(f)
<1> DEFINE a == At(f, k)
           b == At(g, k)
           old == {k} \X (1..a)
           new == {k} \X (1..b)
           rest == Units(f) \ old
<1>1. a \in Nat /\ b \in Nat
  BY DEF At, Summable
<1>2. /\ IsFiniteSet(old) /\ Cardinality(old) = a
      /\ IsFiniteSet(new) /\ Cardinality(new) = b
  BY <1>1, UnitsOfOneKey
<1>3. IsFiniteSet(Units(f))
  BY UnitsAreFinite
<1>4. \A u : u \in Units(f) <=> \E j \in DOMAIN f : u \in {j} \X (1..f[j])
  BY DEF Units
<1>5. \A u : u \in Units(g) <=> \E j \in DOMAIN g : u \in {j} \X (1..g[j])
  BY DEF Units
<1>6. old \subseteq Units(f)
  <2>1. CASE k \in DOMAIN f
    BY <1>4, <2>1 DEF At
  <2>2. CASE k \notin DOMAIN f
    <3>1. 1..a = {}
      BY <2>2 DEF At
    <3> QED
      BY <3>1
  <2> QED
    BY <2>1, <2>2
<1>7. Units(g) = rest \cup new
  <2>1. ASSUME NEW u, u \in Units(g) PROVE u \in rest \cup new
    <3>1. PICK j \in DOMAIN g : u \in {j} \X (1..g[j])
      BY <1>5, <2>1
    <3>2. CASE j = k
      BY <3>1, <3>2 DEF At
    <3>3. CASE j # k
      <4>1. j \in DOMAIN f /\ g[j] = f[j]
        BY <3>3
      <4>2. u \in Units(f) /\ u \notin old
        BY <1>4, <3>1, <3>3, <4>1
      <4> QED
        BY <4>2
    <3> QED
      BY <3>2, <3>3
  <2>2. ASSUME NEW u, u \in new PROVE u \in Units(g)
    <3>1. CASE k \in DOMAIN g
      BY <1>5, <2>2, <3>1 DEF At
    <3>2. CASE k \notin DOMAIN g
      <4>1. 1..b = {}
        BY <3>2 DEF At
      <4> QED
        BY <2>2, <4>1
    <3> QED
      BY <3>1, <3>2
  <2>3. ASSUME NEW u, u \in rest PROVE u \in Units(g)
    <3>1. PICK j \in DOMAIN f : u \in {j} \X (1..f[j])
      BY <1>4, <2>3
    <3>2. j # k
      BY <2>3, <3>1 DEF At
    <3>3. j \in DOMAIN g /\ g[j] = f[j]
      BY <3>2
    <3> QED
      BY <1>5, <3>1, <3>3
  <2> QED
    BY <2>1, <2>2, <2>3
<1>8. rest \cap new = {}
  <2> SUFFICES ASSUME NEW u, u \in rest, u \in new PROVE FALSE
    OBVIOUS
  <2>1. PICK j \in DOMAIN f : u \in {j} \X (1..f[j])
    BY <1>4
  <2>2. j = k
    BY <2>1
  <2> QED
    BY <2>1, <2>2 DEF At
<1> HIDE DEF a, b
<1>9. /\ IsFiniteSet(rest)
      /\ Cardinality(rest) = Cardinality(Units(f)) - a
  <2>1. Units(f) \cap old = old
    BY <1>6
  <2> HIDE DEF old
  <2>2. /\ IsFiniteSet(Units(f) \ old)
        /\ Cardinality(Units(f) \ old) =
             Cardinality(Units(f)) - Cardinality(Units(f) \cap old)
    BY <1>3, FS_Difference
  <2> QED
    BY <1>2, <2>1, <2>2
<1> HIDE DEF old, new, rest
<1>10. /\ IsFiniteSet(rest \cup new)
       /\ Cardinality(rest \cup new) = Cardinality(rest) + b
  <2>1. Cardinality(rest \cap new) = 0
    BY <1>8, FS_EmptySet
  <2>2. /\ IsFiniteSet(rest \cup new)
        /\ Cardinality(rest \cup new) =
             Cardinality(rest) + Cardinality(new) - Cardinality(rest \cap new)
    BY <1>2, <1>9, FS_Union
  <2>3. Cardinality(rest) \in Nat
    BY <1>9, FS_CardinalityType
  <2> QED
    BY <1>1, <1>2, <2>1, <2>2, <2>3
<1>11. Cardinality(rest) \in Nat /\ Cardinality(Units(f)) \in Nat
  BY <1>3, <1>9, FS_CardinalityType
<1>12. Total(g) \in Nat
  BY UnitsAreFinite
<1> QED
  BY <1>1, <1>7, <1>9, <1>10, <1>11, <1>12 DEF Total, a, b

\* Nothing adds up to nothing.
LEMMA TotalOfNothing ==
  ASSUME NEW f, \A k \in DOMAIN f : f[k] = 0
  PROVE  Total(f) = 0
<1>1. \A k \in DOMAIN f : 1..f[k] = {}
  OBVIOUS
<1>2. Units(f) = {}
  BY <1>1 DEF Units
<1> QED
  BY <1>2, FS_EmptySet DEF Total

\* A sum grows with its parts.
LEMMA TotalMonotone ==
  ASSUME NEW f, NEW g, Summable(f), Summable(g), DOMAIN f = DOMAIN g,
         \A k \in DOMAIN f : f[k] <= g[k]
  PROVE  Total(f) <= Total(g)
<1>1. \A k \in DOMAIN f : 1..f[k] \subseteq 1..g[k]
  BY DEF Summable
<1>2. Units(f) \subseteq Units(g)
  BY <1>1 DEF Units
<1>3. IsFiniteSet(Units(g))
  BY UnitsAreFinite
<1> QED
  BY <1>2, <1>3, FS_Subset DEF Total

\* Two sums over the same keys are the sum of the pairs.
LEMMA TotalOfSums ==
  ASSUME NEW f, NEW g, NEW h, Summable(f), Summable(g), Summable(h),
         DOMAIN g = DOMAIN f, DOMAIN h = DOMAIN f,
         \A k \in DOMAIN f : h[k] = f[k] + g[k]
  PROVE  Total(h) = Total(f) + Total(g)
<1> DEFINE upper == UNION {{k} \X ((f[k] + 1)..h[k]) : k \in DOMAIN f}
           lift == [u \in Units(g) |-> <<u[1], u[2] + f[u[1]]>>]
<1>1. \A k \in DOMAIN f : f[k] \in Nat /\ g[k] \in Nat /\ h[k] = f[k] + g[k]
  BY DEF Summable
<1>2. \A u : u \in Units(f) <=> \E k, n : k \in DOMAIN f /\ n \in 1..f[k] /\ u = <<k, n>>
  BY DEF Units
<1>3. \A u : u \in Units(g) <=> \E k, n : k \in DOMAIN f /\ n \in 1..g[k] /\ u = <<k, n>>
  BY DEF Units
<1>4. \A u : u \in Units(h) <=> \E k, n : k \in DOMAIN f /\ n \in 1..h[k] /\ u = <<k, n>>
  BY DEF Units
<1>5. \A u : u \in upper <=> \E k, n : k \in DOMAIN f /\ n \in (f[k] + 1)..h[k] /\ u = <<k, n>>
  OBVIOUS
<1>6. lift \in Bijection(Units(g), upper)
  <2>1. ASSUME NEW u \in Units(g) PROVE lift[u] \in upper
    <3>1. PICK k, n : k \in DOMAIN f /\ n \in 1..g[k] /\ u = <<k, n>>
      BY <1>3
    <3>2. lift[u] = <<k, n + f[k]>> /\ n + f[k] \in (f[k] + 1)..h[k]
      BY <1>1, <3>1
    <3> QED
      BY <3>1, <1>5, <3>2
  <2>2. ASSUME NEW u \in Units(g), NEW v \in Units(g), lift[u] = lift[v] PROVE u = v
    <3>1. PICK k, n : k \in DOMAIN f /\ n \in 1..g[k] /\ u = <<k, n>>
      BY <1>3
    <3>2. PICK j, m : j \in DOMAIN f /\ m \in 1..g[j] /\ v = <<j, m>>
      BY <1>3
    <3>3. <<k, n + f[k]>> = <<j, m + f[j]>>
      BY <2>2, <3>1, <3>2
    <3> QED
      BY <1>1, <3>1, <3>2, <3>3
  <2>3. ASSUME NEW w \in upper PROVE \E u \in Units(g) : lift[u] = w
    <3>1. PICK k, n : k \in DOMAIN f /\ n \in (f[k] + 1)..h[k] /\ w = <<k, n>>
      BY <1>5
    <3>2. n - f[k] \in 1..g[k] /\ (n - f[k]) + f[k] = n
      BY <3>1, <1>1
    <3>3. <<k, n - f[k]>> \in Units(g)
      BY <3>1, <1>3, <3>2
    <3>4. lift[<<k, n - f[k]>>] = w
      BY <3>1, <3>2, <3>3
    <3> QED
      BY <3>3, <3>4
  <2> HIDE DEF lift, upper
  <2>4. lift \in [Units(g) -> upper]
    BY <2>1 DEF lift
  <2>5. lift \in Injection(Units(g), upper)
    BY <2>2, <2>4 DEF Injection, IsInjective
  <2>6. lift \in Surjection(Units(g), upper)
    BY <2>3, <2>4 DEF Surjection
  <2> QED
    BY <2>5, <2>6 DEF Bijection
<1>7. Units(h) = Units(f) \cup upper
  <2>1. ASSUME NEW u, u \in Units(h) PROVE u \in Units(f) \cup upper
    <3>1. PICK k, n : k \in DOMAIN f /\ n \in 1..h[k] /\ u = <<k, n>>
      BY <1>4, <2>1
    <3>2. n \in 1..f[k] \/ n \in (f[k] + 1)..h[k]
      BY <3>1, <1>1
    <3> QED
      BY <1>2, <1>5, <3>1, <3>2
  <2>2. ASSUME NEW u, u \in Units(f) PROVE u \in Units(h)
    <3>1. PICK k, n : k \in DOMAIN f /\ n \in 1..f[k] /\ u = <<k, n>>
      BY <1>2, <2>2
    <3>2. n \in 1..h[k]
      BY <3>1, <1>1
    <3> QED
      BY <1>4, <3>1, <3>2
  <2>3. ASSUME NEW u, u \in upper PROVE u \in Units(h)
    <3>1. PICK k, n : k \in DOMAIN f /\ n \in (f[k] + 1)..h[k] /\ u = <<k, n>>
      BY <1>5, <2>3
    <3>2. n \in 1..h[k]
      BY <3>1, <1>1
    <3> QED
      BY <1>4, <3>1, <3>2
  <2> QED
    BY <2>1, <2>2, <2>3
<1>8. Units(f) \cap upper = {}
  <2> SUFFICES ASSUME NEW u, u \in Units(f), u \in upper PROVE FALSE
    OBVIOUS
  <2>1. PICK k, n : k \in DOMAIN f /\ n \in 1..f[k] /\ u = <<k, n>>
    BY <1>2
  <2>2. PICK j, m : j \in DOMAIN f /\ m \in (f[j] + 1)..h[j] /\ u = <<j, m>>
    BY <1>5
  <2> QED
    BY <1>1, <2>1, <2>2
<1> HIDE DEF upper, lift
<1>9. /\ IsFiniteSet(Units(f)) /\ Cardinality(Units(f)) \in Nat
      /\ IsFiniteSet(Units(g)) /\ Cardinality(Units(g)) \in Nat
  BY UnitsAreFinite DEF Total
<1>10. IsFiniteSet(upper) /\ Cardinality(upper) = Cardinality(Units(g))
  BY <1>6, <1>9, FS_Bijection DEF ExistsBijection
<1>11. Cardinality(Units(f) \cap upper) = 0
  BY <1>8, FS_EmptySet
<1>12. Cardinality(Units(f) \cup upper) =
         Cardinality(Units(f)) + Cardinality(upper) - Cardinality(Units(f) \cap upper)
  BY <1>9, <1>10, FS_Union
<1> QED
  BY <1>7, <1>9, <1>10, <1>11, <1>12 DEF Total

\* A number of one key's units of d parts each, counted one by one.
LEMMA PartsOfUnits ==
  ASSUME NEW d \in Nat \ {0}, NEW n \in Nat \ {0}, NEW p \in 1..d
  PROVE  /\ (n - 1) * d + p \in 1..(d * n)
         /\ ((n - 1) * d + p - 1) \div d = n - 1
         /\ ((n - 1) * d + p - 1) % d = p - 1
<1> DEFINE x == (n - 1) * d + (p - 1)
           q == x \div d
           r == x % d
<1>1. (n - 1) * d \in Nat /\ d * n = (n - 1) * d + d
  OBVIOUS
<1>2. x \in Nat /\ p - 1 \in 0..(d - 1)
  BY <1>1
<1>3. q \in Nat /\ r \in 0..(d - 1) /\ x = d * q + r
  <2> HIDE DEF x
  <2> QED
    BY <1>2
<1> HIDE DEF q, r
<1>4. q = n - 1
  <2>1. d * (q - (n - 1)) = (p - 1) - r
    BY <1>2, <1>3
  <2>2. CASE q - (n - 1) >= 1
    <3>1. d * (q - (n - 1)) >= d
      BY <1>3, <2>2
    <3> QED
      BY <1>2, <1>3, <2>1, <3>1
  <2>3. CASE q - (n - 1) <= -1
    <3>1. d * (q - (n - 1)) <= -d
      BY <1>3, <2>3
    <3> QED
      BY <1>2, <1>3, <2>1, <3>1
  <2> QED
    BY <1>3, <2>2, <2>3
<1>5. r = p - 1
  BY <1>2, <1>3, <1>4
<1>6. (n - 1) * d + p - 1 = x
  BY <1>1
<1> QED
  BY <1>1, <1>4, <1>5, <1>6 DEF q, r

\* A sum of multiples is the multiple of the sum.
LEMMA TotalOfMultiples ==
  ASSUME NEW f, NEW h, NEW d \in Nat, Summable(f), Summable(h), DOMAIN h = DOMAIN f,
         \A k \in DOMAIN f : h[k] = d * f[k]
  PROVE  Total(h) = d * Total(f)
<1>1. CASE d = 0
  <2>1. \A k \in DOMAIN h : h[k] = 0
    BY <1>1 DEF Summable
  <2>2. Total(h) = 0 /\ Total(f) \in Nat
    BY <2>1, TotalOfNothing, UnitsAreFinite
  <2> QED
    BY <1>1, <2>2
<1>2. CASE d # 0
  <2> DEFINE whole == Units(f) \X (1..d)
             split == [w \in whole |-> <<w[1][1], (w[1][2] - 1) * d + w[2]>>]
  <2>1. \A k \in DOMAIN f : f[k] \in Nat /\ h[k] = d * f[k]
    BY DEF Summable
  <2>2. \A u : u \in Units(f) <=> \E k, n : k \in DOMAIN f /\ n \in 1..f[k] /\ u = <<k, n>>
    BY DEF Units
  <2>3. \A u : u \in Units(h) <=> \E k, n : k \in DOMAIN f /\ n \in 1..h[k] /\ u = <<k, n>>
    BY DEF Units
  <2>4. ASSUME NEW w \in whole
        PROVE  \E k, n, p :
                 /\ k \in DOMAIN f /\ n \in 1..f[k] /\ p \in 1..d
                 /\ w = <<<<k, n>>, p>> /\ split[w] = <<k, (n - 1) * d + p>>
    <3>1. PICK u \in Units(f), p \in 1..d : w = <<u, p>>
      OBVIOUS
    <3>2. PICK k, n : k \in DOMAIN f /\ n \in 1..f[k] /\ u = <<k, n>>
      BY <2>2
    <3> QED
      BY <3>1, <3>2
  <2>5. split \in Bijection(whole, Units(h))
    <3>1. ASSUME NEW w \in whole PROVE split[w] \in Units(h)
      <4>1. PICK k, n, p :
              /\ k \in DOMAIN f /\ n \in 1..f[k] /\ p \in 1..d
              /\ split[w] = <<k, (n - 1) * d + p>>
        BY <2>4
      <4>2. n \in Nat \ {0} /\ n <= f[k] /\ (n - 1) * d + p \in 1..(d * n)
        BY <1>2, <2>1, <4>1, PartsOfUnits
      <4>3. d * n <= d * f[k] /\ d * n \in Nat /\ d * f[k] \in Nat
        BY <2>1, <4>1, <4>2
      <4>4. (n - 1) * d + p \in 1..h[k]
        BY <2>1, <4>1, <4>2, <4>3
      <4> QED
        BY <2>3, <4>1, <4>4
    <3>2. ASSUME NEW v \in whole, NEW w \in whole, split[v] = split[w] PROVE v = w
      <4>1. PICK k, n, p :
              /\ k \in DOMAIN f /\ n \in 1..f[k] /\ p \in 1..d
              /\ v = <<<<k, n>>, p>> /\ split[v] = <<k, (n - 1) * d + p>>
        BY <2>4
      <4>2. PICK j, m, q :
              /\ j \in DOMAIN f /\ m \in 1..f[j] /\ q \in 1..d
              /\ w = <<<<j, m>>, q>> /\ split[w] = <<j, (m - 1) * d + q>>
        BY <2>4
      <4>3. k = j /\ (n - 1) * d + p = (m - 1) * d + q
        BY <3>2, <4>1, <4>2
      <4>4. n \in Nat \ {0} /\ m \in Nat \ {0} /\ p \in 1..d /\ q \in 1..d
        BY <2>1, <4>1, <4>2
      <4>5. n - 1 = m - 1 /\ p - 1 = q - 1
        <5> DEFINE y == (n - 1) * d + p
                   z == (m - 1) * d + q
        <5>1. (y - 1) \div d = n - 1 /\ (y - 1) % d = p - 1
          BY <1>2, <4>4, PartsOfUnits
        <5>2. (z - 1) \div d = m - 1 /\ (z - 1) % d = q - 1
          BY <1>2, <4>4, PartsOfUnits
        <5>3. y = z
          BY <4>3
        <5> HIDE DEF y, z
        <5> QED
          BY <5>1, <5>2, <5>3
      <4>6. n = m /\ p = q
        BY <4>4, <4>5, <2>1, <4>1, <4>2
      <4> QED
        BY <4>1, <4>2, <4>3, <4>6
    <3>3. ASSUME NEW u \in Units(h) PROVE \E w \in whole : split[w] = u
      <4>1. PICK k, x : k \in DOMAIN f /\ x \in 1..h[k] /\ u = <<k, x>>
        BY <2>3
      <4> DEFINE n == (x - 1) \div d
                 p == (x - 1) % d
      <4>2. x \in Nat /\ x - 1 \in Nat /\ x - 1 < d * f[k]
        BY <2>1, <4>1
      <4>3. n \in Nat /\ p \in 0..(d - 1) /\ x - 1 = d * n + p
        BY <1>2, <4>2
      <4> HIDE DEF n, p
      <4>4. n < f[k]
        <5>1. CASE n >= f[k]
          <6>1. d * n >= d * f[k] /\ d * n \in Nat /\ d * f[k] \in Nat
            BY <2>1, <4>1, <4>3, <5>1
          <6> QED
            BY <4>2, <4>3, <6>1
        <5> QED
          BY <2>1, <4>1, <4>3, <5>1
      <4>5. n + 1 \in 1..f[k] /\ p + 1 \in 1..d
        BY <2>1, <4>1, <4>3, <4>4
      <4>6. <<k, n + 1>> \in Units(f)
        BY <2>2, <4>1, <4>5
      <4>7. <<<<k, n + 1>>, p + 1>> \in whole
        BY <4>5, <4>6
      <4>8. ((n + 1) - 1) * d + (p + 1) = x
        <5>1. (n + 1) - 1 = n /\ n * d = d * n /\ d * n \in Nat
          BY <4>3
        <5> QED
          BY <4>2, <4>3, <5>1
      <4>9. split[<<<<k, n + 1>>, p + 1>>] = u
        BY <4>1, <4>7, <4>8
      <4> QED
        BY <4>7, <4>9
    <3> HIDE DEF whole, split
    <3>4. split \in [whole -> Units(h)]
      BY <3>1 DEF split
    <3>5. split \in Injection(whole, Units(h))
      BY <3>2, <3>4 DEF Injection, IsInjective
    <3>6. split \in Surjection(whole, Units(h))
      BY <3>3, <3>4 DEF Surjection
    <3> QED
      BY <3>5, <3>6 DEF Bijection
  <2>6. IsFiniteSet(1..d) /\ Cardinality(1..d) = d
    BY FS_Interval
  <2>7. IsFiniteSet(Units(f)) /\ Cardinality(Units(f)) \in Nat
    BY UnitsAreFinite DEF Total
  <2>8. IsFiniteSet(whole) /\ Cardinality(whole) = Cardinality(Units(f)) * d
    <3> DEFINE parts == 1..d
    <3>1. IsFiniteSet(parts) /\ Cardinality(parts) = d
      BY <2>6
    <3> HIDE DEF parts
    <3>2. /\ IsFiniteSet(Units(f) \X parts)
          /\ Cardinality(Units(f) \X parts) = Cardinality(Units(f)) * Cardinality(parts)
      BY <2>7, <3>1, FS_Product
    <3> QED
      BY <3>1, <3>2 DEF parts
  <2> HIDE DEF whole, split
  <2>9. Cardinality(Units(h)) = Cardinality(whole)
    BY <2>5, <2>8, FS_Bijection DEF ExistsBijection
  <2> QED
    BY <2>7, <2>8, <2>9 DEF Total
<1> QED
  BY <1>1, <1>2
=============================================================================
