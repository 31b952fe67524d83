--------------------------- MODULE SplitKeyProofs ---------------------------
(***************************************************************************)
(* Proofs about SplitKey: for a byte, lengths and a group order of any     *)
(* size the two halves of a split key are reduced scalars that survive     *)
(* their encoding and add up to the master key.                            *)
(*                                                                         *)
(* The values of the recursive functions are found by induction, stated    *)
(* with sets: a set of numbers that is not empty has a least one, so the   *)
(* set of the numbers for which a claim fails is empty.                    *)
(***************************************************************************)
EXTENDS SplitKey, WellFoundedInduction, TLAPS

LEMMA Least ==
  ASSUME NEW T, T \subseteq Nat, T # {}
  PROVE  \E x \in T : \A y \in T : x <= y
<1>1. PICK x \in T : \A y \in T : ~ (<<y, x>> \in OpToRel(<, Nat))
  BY WFMin, NatLessThanWellFounded
<1>2. \A y \in T : ~(y < x)
  BY <1>1 DEF OpToRel
<1>3. QED
  BY <1>2

\* A set of numbers with 0 and with the successor of each of its numbers is Nat.
LEMMA Induction ==
  ASSUME NEW S, 0 \in S, \A n \in Nat : n \in S => n + 1 \in S
  PROVE  Nat \subseteq S
<1> DEFINE T == {n \in Nat : n \notin S}
<1>1. SUFFICES ASSUME T # {} PROVE FALSE
  OBVIOUS
<1>2. PICK x \in T : \A y \in T : x <= y
  BY <1>1, Least
<1>3. x # 0 /\ x - 1 \in Nat
  BY <1>2
<1>4. x - 1 \notin T
  BY <1>2, <1>3
<1>5. (x - 1) + 1 \in S
  BY <1>3, <1>4
<1>6. QED
  BY <1>2, <1>5

-----------------------------------------------------------------------------
(* Division.                                                               *)

LEMMA DivMod ==
  ASSUME NEW x \in Int, NEW m \in Int, m > 0
  PROVE  /\ x \div m \in Int /\ x % m \in 0..(m - 1)
         /\ x = (x \div m) * m + (x % m)
<1>1. x \div m \in Int /\ x % m \in 0..(m - 1)
  OBVIOUS
<1>2. x = m * (x \div m) + (x % m)
  OBVIOUS
<1>3. m * (x \div m) = (x \div m) * m
  BY <1>1
<1>4. QED
  BY <1>1, <1>2, <1>3

LEMMA TimesAtLeast ==
  ASSUME NEW k \in Int, NEW m \in Int, m > 0, k >= 1
  PROVE  k * m >= m
  OBVIOUS

LEMMA ModUnique ==
  ASSUME NEW m \in Int, m > 0, NEW q \in Int, NEW b \in 0..(m - 1)
  PROVE  (q * m + b) % m = b
<1> DEFINE x == q * m + b
           p == x \div m
           r == x % m
<1>1. q * m \in Int
  OBVIOUS
<1>2. x \in Int
  BY <1>1
<1>3. p \in Int /\ r \in 0..(m - 1) /\ x = p * m + r
  BY <1>2, DivMod
<1> HIDE DEF x, p, r
<1>4. q * m + b = p * m + r
  BY <1>3 DEF x
<1>5. p * m \in Int /\ (q - p) * m = q * m - p * m /\ (p - q) * m = p * m - q * m
  BY <1>3
<1>6. (q - p) * m = r - b /\ (p - q) * m = b - r
  BY <1>1, <1>3, <1>4, <1>5
<1>7. ~(q - p >= 1)
  BY <1>3, <1>6, TimesAtLeast
<1>8. ~(p - q >= 1)
  BY <1>3, <1>6, TimesAtLeast
<1>9. q = p
  BY <1>3, <1>7, <1>8
<1>10. QED
  BY <1>1, <1>3, <1>4, <1>9 DEF r, x

\* A multiple of m does not matter modulo m.
LEMMA ModShift ==
  ASSUME NEW m \in Int, m > 0, NEW x \in Int, NEW k \in Int
  PROVE  (x + k * m) % m = x % m
<1> DEFINE q == x \div m
           b == x % m
<1>1. q \in Int /\ b \in 0..(m - 1) /\ x = q * m + b
  BY DivMod
<1> HIDE DEF q, b
<1>2. q + k \in Int /\ (q + k) * m = q * m + k * m /\ q * m \in Int /\ k * m \in Int
  BY <1>1
<1>3. x + k * m = (q + k) * m + b
  BY <1>1, <1>2
<1>4. ((q + k) * m + b) % m = b
  BY <1>1, <1>2, ModUnique
<1>5. QED
  BY <1>3, <1>4 DEF b

\* One more digit: what v is modulo b * p, from what it is modulo p.
LEMMA NextDigit ==
  ASSUME NEW v \in Nat, NEW p \in Int, p > 0, NEW b \in Int, b > 0
  PROVE  v % (b * p) = (v % p) + ((v \div p) % b) * p
<1> DEFINE q == v \div p
           r == v % p
           h == q \div b
           d == q % b
<1>1. q \in Int /\ r \in 0..(p - 1) /\ v = q * p + r
  BY DivMod
<1>2. h \in Int /\ d \in 0..(b - 1) /\ q = h * b + d
  BY <1>1, DivMod
<1> HIDE DEF q, r, h, d
<1>3. h * b \in Int /\ b * p \in Int /\ d * p \in Int /\ h * (b * p) \in Int
  BY <1>2
<1>4. q * p = (h * b) * p + d * p
  BY <1>2, <1>3
<1>5. (h * b) * p = h * (b * p)
  BY <1>2
<1>6. v = h * (b * p) + (d * p + r)
  <2>1. \A x, y, z \in Int : (x + y) + z = x + (y + z)
    OBVIOUS
  <2>2. v = (h * (b * p) + d * p) + r /\ r \in Int
    BY <1>1, <1>4, <1>5
  <2>3. QED
    BY <1>3, <2>1, <2>2
<1>7. d * p >= 0
  BY <1>2
<1>8. (b - d) * p = b * p - d * p
  BY <1>2
<1>9. (b - d) * p >= p
  BY <1>2, TimesAtLeast
<1>10. d * p + r \in 0..(b * p - 1) /\ b * p > 0
  BY <1>1, <1>3, <1>7, <1>8, <1>9
<1>11. (h * (b * p) + (d * p + r)) % (b * p) = d * p + r
  BY <1>2, <1>3, <1>10, ModUnique
<1>12. QED
  BY <1>1, <1>3, <1>6, <1>11 DEF r, d, q

-----------------------------------------------------------------------------
(* Powers.  The recursive definition has a solution up to every n, two of  *)
(* them agree, and so there is one on all numbers.                         *)

IsPower(g, n) == g = [i \in 0..n |-> IF i = 0 THEN 1 ELSE Base * g[i - 1]]

LEMMA PowerUpTo == \A n \in Nat : \E g : IsPower(g, n)
<1> DEFINE S == {n \in Nat : \E g : IsPower(g, n)}
<1>1. 0 \in S
  <2> DEFINE g == [i \in 0..0 |-> 1]
  <2>1. IsPower(g, 0)
    BY DEF IsPower
  <2>2. QED
    BY <2>1
<1>2. ASSUME NEW n \in Nat, n \in S PROVE n + 1 \in S
  <2>1. PICK g : IsPower(g, n)
    BY <1>2
  <2> DEFINE h == [i \in 0..(n + 1) |-> IF i = 0 THEN 1 ELSE Base * g[i - 1]]
  <2>2. \A i \in 0..n : h[i] = g[i]
    <3>1. \A i \in 0..n : g[i] = IF i = 0 THEN 1 ELSE Base * g[i - 1]
      BY <2>1 DEF IsPower
    <3>2. \A i \in 0..n : i \in 0..(n + 1)
      OBVIOUS
    <3>3. QED
      BY <3>1, <3>2
  <2>3. ASSUME NEW i \in 0..(n + 1), i # 0 PROVE h[i] = Base * h[i - 1]
    <3>1. i - 1 \in 0..n
      BY <2>3
    <3>2. QED
      BY <2>2, <2>3, <3>1
  <2>4. IsPower(h, n + 1)
    BY <2>3 DEF IsPower
  <2>5. QED
    BY <2>4
<1>3. Nat \subseteq S
  <2> HIDE DEF S
  <2> QED BY <1>1, <1>2, Induction
<1>4. QED
  BY <1>3

LEMMA PowerAgrees ==
  ASSUME NEW m \in Nat, NEW n \in Nat, NEW g, NEW h, IsPower(g, m), IsPower(h, n)
  PROVE  \A i \in Nat : i <= m /\ i <= n => g[i] = h[i]
<1> DEFINE S == {i \in Nat : i <= m /\ i <= n => g[i] = h[i]}
<1>1. 0 \in S
  BY DEF IsPower
<1>2. ASSUME NEW i \in Nat, i \in S PROVE i + 1 \in S
  <2>1. SUFFICES ASSUME i + 1 <= m, i + 1 <= n PROVE g[i + 1] = h[i + 1]
    OBVIOUS
  <2>2. g[i] = h[i] /\ i + 1 \in 0..m /\ i + 1 \in 0..n /\ i + 1 # 0 /\ (i + 1) - 1 = i
    BY <1>2, <2>1
  <2>3. g[i + 1] = Base * g[i]
    BY <2>2 DEF IsPower
  <2>4. h[i + 1] = Base * h[i]
    BY <2>2 DEF IsPower
  <2>5. QED
    BY <2>2, <2>3, <2>4
<1>3. Nat \subseteq S
  <2> HIDE DEF S
  <2> QED BY <1>1, <1>2, Induction
<1>4. QED
  BY <1>3

LEMMA PowerExists == \E f : f = [n \in Nat |-> IF n = 0 THEN 1 ELSE Base * f[n - 1]]
<1> DEFINE up(n) == CHOOSE g : IsPower(g, n)
           f == [n \in Nat |-> up(n)[n]]
<1>1. \A n \in Nat : IsPower(up(n), n)
  BY PowerUpTo
<1> HIDE DEF up
<1>2. f[0] = 1
  BY <1>1 DEF IsPower
<1>3. ASSUME NEW n \in Nat, n # 0 PROVE f[n] = Base * f[n - 1]
  <2>1. n - 1 \in Nat /\ n \in 0..n
    BY <1>3
  <2>2. up(n)[n] = Base * up(n)[n - 1]
    BY <1>1, <1>3, <2>1 DEF IsPower
  <2>3. up(n)[n - 1] = up(n - 1)[n - 1]
    BY <1>1, <2>1, PowerAgrees
  <2>4. QED
    BY <2>1, <2>2, <2>3
<1>4. f = [n \in Nat |-> IF n = 0 THEN 1 ELSE Base * f[n - 1]]
  BY <1>2, <1>3
<1>5. QED
  BY <1>4

LEMMA PowerDef == Power = [n \in Nat |-> IF n = 0 THEN 1 ELSE Base * Power[n - 1]]
  BY PowerExists DEF Power

LEMMA PowerStep ==
  /\ Power[0] = 1
  /\ \A n \in Nat : Power[n + 1] = Base * Power[n]
<1>1. Power[0] = 1
  BY PowerDef
<1>2. ASSUME NEW n \in Nat PROVE Power[n + 1] = Base * Power[n]
  <2>1. n + 1 \in Nat /\ n + 1 # 0 /\ (n + 1) - 1 = n
    OBVIOUS
  <2>2. QED
    BY <2>1, PowerDef
<1>3. QED
  BY <1>1, <1>2

LEMMA BaseType == Base \in Int /\ Base > 0 /\ KeyLen \in Nat /\ DigestLen \in Nat
  BY OrderAssumption

LEMMA PowerType == \A n \in Nat : Power[n] \in Int /\ Power[n] > 0
<1> DEFINE S == {n \in Nat : Power[n] \in Int /\ Power[n] > 0}
<1>1. 0 \in S
  BY PowerStep
<1>2. ASSUME NEW n \in Nat, n \in S PROVE n + 1 \in S
  <2>1. Base * Power[n] \in Int /\ Base * Power[n] > 0
    BY <1>2, BaseType, TimesAtLeast
  <2>2. QED
    BY <2>1, PowerStep
<1>3. Nat \subseteq S
  <2> HIDE DEF S
  <2> QED BY <1>1, <1>2, Induction
<1>4. QED
  BY <1>3

-----------------------------------------------------------------------------
(* Numbers in bytes.  value is the function that littleEndianScalar        *)
(* defines by recursion.                                                   *)

IsValue(in, n, value) ==
  value = [i \in 0..n |-> IF i = 0 THEN 0 ELSE value[i - 1] + in[i] * Power[i - 1]]

LEMMA ValueExists ==
  ASSUME NEW in
  PROVE  \A n \in Nat : \E v : IsValue(in, n, v)
<1> DEFINE S == {n \in Nat : \E v : IsValue(in, n, v)}
<1>1. 0 \in S
  <2> DEFINE v == [i \in 0..0 |-> 0]
  <2>1. IsValue(in, 0, v)
    BY DEF IsValue
  <2>2. QED
    BY <2>1
<1>2. ASSUME NEW n \in Nat, n \in S PROVE n + 1 \in S
  <2>1. PICK v : IsValue(in, n, v)
    BY <1>2
  <2> DEFINE w == [i \in 0..(n + 1) |-> IF i = 0 THEN 0 ELSE v[i - 1] + in[i] * Power[i - 1]]
  <2>2. \A i \in 0..n : w[i] = v[i]
    <3>1. \A i \in 0..n : v[i] = IF i = 0 THEN 0 ELSE v[i - 1] + in[i] * Power[i - 1]
      BY <2>1 DEF IsValue
    <3>2. \A i \in 0..n : i \in 0..(n + 1)
      OBVIOUS
    <3>3. QED
      BY <3>1, <3>2
  <2>3. ASSUME NEW i \in 0..(n + 1), i # 0 PROVE w[i] = w[i - 1] + in[i] * Power[i - 1]
    <3>1. i - 1 \in 0..n
      BY <2>3
    <3>2. QED
      BY <2>2, <2>3, <3>1
  <2>4. IsValue(in, n + 1, w)
    BY <2>3 DEF IsValue
  <2>5. QED
    BY <2>4
<1>3. Nat \subseteq S
  <2> HIDE DEF S
  <2> QED BY <1>1, <1>2, Induction
<1>4. QED
  BY <1>3

LEMMA ScalarValue ==
  ASSUME NEW in, Len(in) \in Nat
  PROVE  \E v : IsValue(in, Len(in), v) /\ littleEndianScalar(in) = v[Len(in)]
  BY ValueExists DEF littleEndianScalar, IsValue

Bytes(n) == [1..n -> Byte]

LEMMA BytesLen ==
  ASSUME NEW n \in Nat, NEW in \in Bytes(n)
  PROVE  Len(in) = n
<1>1. in \in Seq(Byte)
  BY DEF Bytes
<1>2. QED
  BY <1>1 DEF Bytes

LEMMA ScalarType ==
  ASSUME NEW n \in Nat, NEW in \in Bytes(n)
  PROVE  littleEndianScalar(in) \in Nat
<1>1. PICK v : IsValue(in, n, v) /\ littleEndianScalar(in) = v[n]
  BY BytesLen, ScalarValue
<1> DEFINE S == {i \in Nat : i <= n => v[i] \in Nat}
<1>2. 0 \in S
  BY <1>1 DEF IsValue
<1>3. ASSUME NEW i \in Nat, i \in S PROVE i + 1 \in S
  <2>1. SUFFICES ASSUME i + 1 <= n PROVE v[i + 1] \in Nat
    OBVIOUS
  <2>2. v[i] \in Nat /\ i + 1 \in 0..n /\ i + 1 \in 1..n /\ i + 1 # 0 /\ (i + 1) - 1 = i
    BY <1>3, <2>1
  <2>3. v[i + 1] = v[i] + in[i + 1] * Power[i]
    BY <1>1, <2>2 DEF IsValue
  <2>4. in[i + 1] \in Nat /\ Power[i] \in Nat
    BY <2>2, PowerType, BaseType DEF Bytes, Byte
  <2>5. in[i + 1] * Power[i] \in Nat
    BY <2>4
  <2>6. QED
    BY <2>2, <2>3, <2>5
<1>4. Nat \subseteq S
  <2> HIDE DEF S
  <2> QED BY <1>2, <1>3, Induction
<1>5. QED
  BY <1>1, <1>4

\* The digits of a number are bytes, KeyLen of them.
LEMMA EncodedType ==
  ASSUME NEW v \in Nat
  PROVE  /\ scalarLittleEndian(v) \in Bytes(KeyLen)
         /\ \A i \in 1..KeyLen : scalarLittleEndian(v)[i] = (v \div Power[i - 1]) % Base
<1>1. ~(v < 0)
  OBVIOUS
<1>2. scalarLittleEndian(v) = [i \in 1..KeyLen |-> (v \div Power[i - 1]) % Base]
  BY <1>1 DEF scalarLittleEndian
<1>3. ASSUME NEW i \in 1..KeyLen PROVE (v \div Power[i - 1]) % Base \in Byte
  <2>1. i - 1 \in Nat
    BY BaseType
  <2>2. Power[i - 1] \in Int /\ Power[i - 1] > 0
    BY <2>1, PowerType
  <2>3. v \div Power[i - 1] \in Int
    BY <2>2, DivMod
  <2>4. QED
    BY <2>3, BaseType, DivMod DEF Byte
<1>4. QED
  BY <1>2, <1>3 DEF Bytes

\* What is read back from the bytes of a number: the number, if it fits.
LEMMA Decoded ==
  ASSUME NEW v \in Nat
  PROVE  littleEndianScalar(scalarLittleEndian(v)) = v % Power[KeyLen]
<1> DEFINE in == scalarLittleEndian(v)
<1>1. in \in Bytes(KeyLen) /\ \A i \in 1..KeyLen : in[i] = (v \div Power[i - 1]) % Base
  BY EncodedType
<1> HIDE DEF in
<1>2. PICK w : IsValue(in, KeyLen, w) /\ littleEndianScalar(in) = w[KeyLen]
  BY <1>1, BaseType, BytesLen, ScalarValue
<1> DEFINE S == {i \in Nat : i <= KeyLen => w[i] = v % Power[i]}
<1>3. 0 \in S
  <2>1. w[0] = 0
    BY <1>2, BaseType DEF IsValue
  <2>2. v % 1 = 0
    OBVIOUS
  <2>3. QED
    BY <2>1, <2>2, PowerStep
<1>4. ASSUME NEW i \in Nat, i \in S PROVE i + 1 \in S
  <2>1. SUFFICES ASSUME i + 1 <= KeyLen PROVE w[i + 1] = v % Power[i + 1]
    OBVIOUS
  <2>2. /\ w[i] = v % Power[i]
        /\ i + 1 \in 0..KeyLen /\ i + 1 \in 1..KeyLen /\ i + 1 # 0 /\ (i + 1) - 1 = i
    BY <1>4, <2>1, BaseType
  <2>3. w[i + 1] = w[i] + in[i + 1] * Power[i]
    BY <1>2, <2>2 DEF IsValue
  <2>4. in[i + 1] = (v \div Power[i]) % Base
    BY <1>1, <2>2
  <2>5. Power[i] \in Int /\ Power[i] > 0
    BY PowerType
  <2>6. v % (Base * Power[i]) = (v % Power[i]) + ((v \div Power[i]) % Base) * Power[i]
    BY <2>5, BaseType, NextDigit
  <2>7. QED
    BY <2>2, <2>3, <2>4, <2>6, PowerStep
<1>5. Nat \subseteq S
  <2> HIDE DEF S
  <2> QED BY <1>3, <1>4, Induction
<1>6. w[KeyLen] = v % Power[KeyLen]
  BY <1>5, BaseType
<1>7. QED
  BY <1>2, <1>6 DEF in

\* A scalar below the order survives its encoding.
LEMMA RoundTrip ==
  ASSUME NEW v \in 0..(Order - 1)
  PROVE  /\ scalarLittleEndian(v) \in Bytes(KeyLen)
         /\ littleEndianScalar(scalarLittleEndian(v)) = v
<1>1. Power[KeyLen] \in Int /\ Power[KeyLen] > 0 /\ v \in Nat
  BY PowerType, BaseType, OrderAssumption
<1>2. v \in 0..(Power[KeyLen] - 1)
  BY <1>1, OrderAssumption
<1>3. (0 * Power[KeyLen] + v) % Power[KeyLen] = v
  BY <1>1, <1>2, ModUnique
<1>4. 0 * Power[KeyLen] + v = v
  BY <1>1
<1>5. QED
  BY <1>1, <1>3, <1>4, Decoded, EncodedType

-----------------------------------------------------------------------------
(* The split.                                                              *)

\* The key is what deterministicSplitKey made of the master key and some digest.
Derived ==
  /\ \E n \in Nat : masterBytes \in Bytes(n)
  /\ key # Error => Len(masterBytes) = KeyLen
                    /\ \E d \in Digest : key = deterministicSplitKey(masterBytes, d)

LEMMA Halves ==
  ASSUME NEW m, NEW n \in Nat, m \in Bytes(n), Len(m) = KeyLen, NEW d \in Digest
  PROVE  LET s == deterministicSplitKey(m, d)
         IN  /\ \A i \in {1, 2} : s[i] \in Bytes(KeyLen) /\ littleEndianScalar(s[i]) < Order
             /\ (littleEndianScalar(s[1]) + littleEndianScalar(s[2])) % Order
                  = littleEndianScalar(m) % Order
<1> DEFINE s == deterministicSplitKey(m, d)
           x == littleEndianScalar(m)
           r == digestScalar(d)
           k == rest(x, r)
           q == (x - r) \div Order
<1>1. Order \in Int /\ Order > 0
  BY OrderAssumption, PowerType, BaseType
<1>2. x \in Nat /\ littleEndianScalar(d) \in Nat
  BY ScalarType, BaseType DEF Digest, Bytes
<1>3. r \in 0..(Order - 1)
  BY <1>1, <1>2, DivMod DEF digestScalar
<1>4. s[1] = scalarLittleEndian(r) /\ s[2] = scalarLittleEndian(k)
  BY DEF deterministicSplitKey
<1> HIDE DEF x, r, s
<1>5. x - r \in Int
  BY <1>1, <1>2, <1>3
<1>6. k \in 0..(Order - 1) /\ q \in Int /\ x - r = q * Order + k
  BY <1>1, <1>5, DivMod DEF rest
<1> HIDE DEF k, q
<1>7. /\ s[1] \in Bytes(KeyLen) /\ littleEndianScalar(s[1]) = r
      /\ s[2] \in Bytes(KeyLen) /\ littleEndianScalar(s[2]) = k
  BY <1>3, <1>4, <1>6, RoundTrip
<1>8. r < Order /\ k < Order
  BY <1>1, <1>3, <1>6
<1>9. (r + k) % Order = x % Order
  <2>1. q * Order \in Int /\ r + k \in Int
    BY <1>1, <1>3, <1>6
  <2>2. x = (r + k) + q * Order
    BY <1>1, <1>2, <1>3, <1>6, <2>1
  <2>3. ((r + k) + q * Order) % Order = (r + k) % Order
    BY <1>1, <1>6, <2>1, ModShift
  <2>4. QED
    BY <2>2, <2>3
<1>10. \A i \in {1, 2} : s[i] \in Bytes(KeyLen) /\ littleEndianScalar(s[i]) < Order
  BY <1>7, <1>8
<1>11. QED
  BY <1>7, <1>9, <1>10 DEF s, x

LEMMA InitDerived == SplitInit => Derived
<1> SUFFICES ASSUME SplitInit PROVE Derived
  OBVIOUS
<1>1. PICK n \in {0, KeyLen - 1, KeyLen} : masterBytes \in [1..n -> Byte]
  BY DEF SplitInit, MasterBytes
<1>2. CASE n \in Nat
  BY <1>1, <1>2 DEF SplitInit, Derived, Bytes
<1>3. CASE n \notin Nat
  <2>1. 1..n = 1..0 /\ 0 \in Nat
    BY <1>1, <1>3, BaseType
  <2>2. masterBytes \in Bytes(0)
    BY <1>1, <2>1 DEF Bytes
  <2>3. QED
    BY <2>1, <2>2 DEF SplitInit, Derived
<1>4. QED
  BY <1>2, <1>3

LEMMA DerivedKept == Derived /\ [SplitNext]_splitVars => Derived'
<1> SUFFICES ASSUME Derived, [SplitNext]_splitVars PROVE Derived'
  OBVIOUS
<1>1. ASSUME NEW d \in Digest, resolveKeyLocked(d) PROVE Derived'
  <2>1. masterBytes' = masterBytes /\ key' = deterministicSplitKey(masterBytes, d)
    BY <1>1 DEF resolveKeyLocked
  <2>2. key' # Error => Len(masterBytes) = KeyLen
    BY <2>1 DEF deterministicSplitKey
  <2>3. QED
    BY <2>1, <2>2 DEF Derived
<1>2. CASE UNCHANGED splitVars
  BY <1>2 DEF splitVars, Derived
<1>3. QED
  BY <1>1, <1>2 DEF SplitNext

\* For every base, length and order the halves of a split key are the bytes of
\* scalars below the order, and add up to the master key modulo the order.
THEOREM SplitAlwaysOpens == SplitSpec => []SplitOpens
<1>1. Derived => SplitOpens
  <2> SUFFICES ASSUME Derived, key # Error PROVE SplitOpens
    BY DEF SplitOpens
  <2>1. PICK n \in Nat, d \in Digest :
          /\ masterBytes \in Bytes(n) /\ Len(masterBytes) = KeyLen
          /\ key = deterministicSplitKey(masterBytes, d)
    BY DEF Derived
  <2>2. QED
    BY <2>1, Halves DEF SplitOpens, Bytes
<1>2. QED
  BY <1>1, InitDerived, DerivedKept, PTL DEF SplitSpec
=============================================================================
