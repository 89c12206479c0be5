----------------------------- MODULE Fold_proofs -----------------------------
(***************************************************************************)
(* Folding never changes a defined value and settles in one pass, for all  *)
(* widths, blocks and paths.                                               *)
(***************************************************************************)
EXTENDS Fold, Counting, TLAPS

-----------------------------------------------------------------------------
\* Powers of two.

LEMMA PowersPositive ==
  \A n \in 0 .. HostWidth : Powers[n] \in Nat \ {0} /\ Powers[n] > n
<1> DEFINE S == {n \in Nat : n <= HostWidth => Powers[n] \in Nat \ {0} /\ Powers[n] > n}
<1>1. HostWidth \in Nat
  BY WidthsAssumption
<1>2. 0 \in S
  BY <1>1, PowersAssumption
<1>3. ASSUME NEW n \in Nat, n \in S PROVE n + 1 \in S
  <2> SUFFICES ASSUME n + 1 <= HostWidth PROVE Powers[n + 1] \in Nat \ {0} /\ Powers[n + 1] > n + 1
    OBVIOUS
  <2>1. Powers[n] \in Nat \ {0} /\ Powers[n] > n
    BY <1>1, <1>3
  <2>2. Powers[n + 1] = 2 * Powers[n]
    BY <1>1, PowersAssumption
  <2> QED
    BY <2>1, <2>2
<1> HIDE DEF S
<1>4. \A n \in Nat : n \in S
  BY <1>2, <1>3, Induction
<1> QED
  BY <1>1, <1>4 DEF S

LEMMA PowersProduct ==
  ASSUME NEW m \in Nat, NEW n \in Nat, m + n <= HostWidth
  PROVE  Powers[m + n] = Powers[m] * Powers[n]
<1> DEFINE S == {k \in Nat : m + k <= HostWidth => Powers[m + k] = Powers[m] * Powers[k]}
<1>1. HostWidth \in Nat
  BY WidthsAssumption
<1>2. 0 \in S
  <2> SUFFICES ASSUME m <= HostWidth PROVE Powers[m] = Powers[m] * Powers[0]
    OBVIOUS
  <2>1. Powers[0] = 1 /\ Powers[m] \in Nat
    BY <1>1, PowersAssumption
  <2> QED
    BY <2>1
<1>3. ASSUME NEW k \in Nat, k \in S PROVE k + 1 \in S
  <2> SUFFICES ASSUME m + (k + 1) <= HostWidth PROVE Powers[m + (k + 1)] = Powers[m] * Powers[k + 1]
    OBVIOUS
  <2>1. Powers[m + k] = Powers[m] * Powers[k]
    BY <1>1, <1>3
  <2>2. Powers[m + (k + 1)] = 2 * Powers[m + k] /\ Powers[k + 1] = 2 * Powers[k]
    BY <1>1, PowersAssumption
  <2>3. Powers[m] \in Nat /\ Powers[k] \in Nat
    BY <1>1, PowersAssumption
  <2> QED
    BY <2>1, <2>2, <2>3
<1> HIDE DEF S
<1>4. n \in S
  BY <1>2, <1>3, Induction
<1> QED
  BY <1>4 DEF S

-----------------------------------------------------------------------------
\* Signed numbers of a width.

LEMMA RemainderUnique ==
  ASSUME NEW s \in Nat \ {0}, NEW q \in Int, NEW r \in 0 .. s - 1
  PROVE  (s * q + r) % s = r
OBVIOUS

LEMMA Division ==
  ASSUME NEW s \in Nat \ {0}, NEW x \in Int
  PROVE  x \div s \in Int /\ x % s \in 0 .. s - 1 /\ x = s * (x \div s) + (x % s)
OBVIOUS

LEMMA RemainderShift ==
  ASSUME NEW s \in Nat \ {0}, NEW x \in Int, NEW q \in Int
  PROVE  (x + s * q) % s = x % s
<1> DEFINE d == x \div s  r == x % s
<1>1. d \in Int /\ r \in 0 .. s - 1 /\ x = s * d + r
  BY Division
<1> HIDE DEF d, r
<1>2. d + q \in Int /\ s * d + r + s * q = s * (d + q) + r
  BY <1>1
<1>3. (s * (d + q) + r) % s = r
  BY <1>1, <1>2, RemainderUnique
<1> QED
  BY <1>1, <1>2, <1>3 DEF r

WidthsOfLLVM == 1 .. HostWidth

LEMMA Halves ==
  ASSUME NEW w \in WidthsOfLLVM
  PROVE  /\ w \in Nat \ {0} /\ HostWidth \in Nat /\ w <= HostWidth
         /\ Half(w) \in Nat \ {0} /\ Half(w) >= w
         /\ Powers[w] = 2 * Half(w) /\ Powers[w] \in Nat \ {0}
<1>1. HostWidth \in Nat /\ w \in Nat \ {0} /\ w - 1 \in 0 .. HostWidth /\ w \in 0 .. HostWidth /\ w # 0
  BY WidthsAssumption DEF WidthsOfLLVM
<1>2. Powers[w - 1] \in Nat \ {0} /\ Powers[w - 1] > w - 1
  BY <1>1, PowersPositive
<1>3. Powers[w] = 2 * Powers[w - 1]
  BY <1>1, PowersAssumption
<1> QED
  BY <1>1, <1>2, <1>3 DEF Half

LEMMA SignedRange ==
  ASSUME NEW w \in WidthsOfLLVM, NEW v \in Int
  PROVE  Signed(v, w) \in Int /\ Signed(v, w) \in -Half(w) .. Half(w) - 1
<1>1. Half(w) \in Nat \ {0} /\ Powers[w] = 2 * Half(w)
  BY Halves
<1>2. (v + Half(w)) % (2 * Half(w)) \in 0 .. 2 * Half(w) - 1
  BY <1>1, Division, 2 * Half(w) \in Nat \ {0}, v + Half(w) \in Int
<1> QED
  BY <1>1, <1>2 DEF Signed

LEMMA SignedKeeps ==
  ASSUME NEW w \in WidthsOfLLVM, NEW v \in -Half(w) .. Half(w) - 1
  PROVE  v \in Int /\ Signed(v, w) = v
<1>1. Half(w) \in Nat \ {0} /\ Powers[w] = 2 * Half(w)
  BY Halves
<1>2. v \in Int /\ v + Half(w) \in 0 .. 2 * Half(w) - 1
  BY <1>1
<1> DEFINE s == 2 * Half(w)  r == v + Half(w)
<1>3. s \in Nat \ {0} /\ r \in 0 .. s - 1
  BY <1>1, <1>2
<1> HIDE DEF s, r
<1>4. (s * 0 + r) % s = r /\ s * 0 + r = r
  BY <1>3, RemainderUnique
<1>5. (v + Half(w)) % (2 * Half(w)) = v + Half(w)
  BY <1>4 DEF s, r
<1> QED
  BY <1>1, <1>2, <1>5 DEF Signed

LEMMA SignedShift ==
  ASSUME NEW w \in WidthsOfLLVM, NEW v \in Int, NEW q \in Int
  PROVE  Signed(v + Powers[w] * q, w) = Signed(v, w)
<1> DEFINE h == Half(w)  s == Powers[w]  x == v + h
<1>1. h \in Nat \ {0} /\ s \in Nat \ {0} /\ x \in Int
  BY Halves
<1>2. v + s * q + h = x + s * q
  BY <1>1
<1>3. Signed(v + s * q, w) = ((v + s * q + h) % s) - h /\ Signed(v, w) = (x % s) - h
  BY DEF Signed
<1> HIDE DEF h, s, x
<1>4. (x + s * q) % s = x % s
  BY <1>1, RemainderShift
<1>5. Signed(v + s * q, w) = Signed(v, w)
  BY <1>2, <1>3, <1>4
<1> QED
  BY <1>5 DEF s

LEMMA SignedDiffers ==
  ASSUME NEW w \in WidthsOfLLVM, NEW v \in Int
  PROVE  \E q \in Int : Signed(v, w) = v + Powers[w] * q
<1> DEFINE h == Half(w)  s == Powers[w]  x == v + h
           d == x \div s  r == x % s
<1>1. h \in Nat \ {0} /\ s \in Nat \ {0} /\ x \in Int
  BY Halves
<1>2. Signed(v, w) = r - h
  BY DEF Signed
<1>3. x = v + h
  OBVIOUS
<1> HIDE DEF h, s, x
<1>4. d \in Int /\ r \in Int /\ x = s * d + r
  BY <1>1, Division
<1> HIDE DEF d, r
<1>5. -d \in Int /\ r - h = v + s * (-d)
  BY <1>1, <1>3, <1>4
<1> QED
  BY <1>2, <1>5 DEF s

\* What is cut to a narrower width need not have been cut before.
LEMMA SignedTwice ==
  ASSUME NEW w \in WidthsOfLLVM, NEW u \in WidthsOfLLVM, w <= u, NEW v \in Int
  PROVE  Signed(Signed(v, u), w) = Signed(v, w)
<1>1. PICK q \in Int : Signed(v, u) = v + Powers[u] * q
  BY SignedDiffers
<1>2. w \in Nat /\ u \in Nat /\ HostWidth \in Nat /\ w <= HostWidth /\ u <= HostWidth /\ u - w \in Nat
  BY Halves
<1>3. Powers[w + (u - w)] = Powers[w] * Powers[u - w] /\ w + (u - w) = u
  BY <1>2, PowersProduct
<1>4. Powers[u - w] \in Int /\ Powers[w] \in Int
  BY <1>2, PowersPositive
<1>5. Signed(v + Powers[w] * (Powers[u - w] * q), w) = Signed(v, w)
  BY <1>4, SignedShift, Powers[u - w] * q \in Int
<1>6. Powers[u] * q = Powers[w] * (Powers[u - w] * q)
  BY <1>3, <1>4
<1> QED
  BY <1>1, <1>5, <1>6

-----------------------------------------------------------------------------
\* Bit by bit.

LEMMA Bits ==
  ASSUME NEW v \in Int, NEW k \in 0 .. HostWidth - 1
  PROVE  /\ Bit(v, k) \in {0, 1}
         /\ v % Powers[k + 1] = (v % Powers[k]) + Powers[k] * Bit(v, k)
<1> DEFINE p == Powers[k]  d == v \div p  r == v % p  e == d \div 2  b == d % 2
<1>1. p \in Nat \ {0} /\ Powers[k + 1] = 2 * p
  BY PowersPositive, PowersAssumption, WidthsAssumption
<1>2. Bit(v, k) = b
  BY DEF Bit
<1> HIDE DEF p
<1>3. d \in Int /\ r \in 0 .. p - 1 /\ v = p * d + r
  BY <1>1, Division
<1> HIDE DEF d, r
<1>4. e \in Int /\ b \in 0 .. 1 /\ d = 2 * e + b
  BY <1>3
<1> HIDE DEF e, b
<1>5. p * b + r \in 0 .. 2 * p - 1
  <2>1. b = 0 \/ b = 1
    BY <1>4
  <2>2. CASE b = 0
    BY <2>2, <1>1, <1>3
  <2>3. CASE b = 1
    BY <2>3, <1>1, <1>3
  <2> QED
    BY <2>1, <2>2, <2>3
<1>6. v = (2 * p) * e + (p * b + r)
  <2>1. p * (2 * e + b) = (2 * p) * e + p * b
    BY <1>1, <1>4
  <2>2. p * b \in Int /\ (2 * p) * e \in Int
    BY <1>1, <1>4
  <2> QED
    BY <1>3, <1>4, <2>1, <2>2
<1>7. v % (2 * p) = p * b + r
  <2> DEFINE q == 2 * p  z == p * b + r
  <2>1. q \in Nat \ {0} /\ z \in 0 .. q - 1 /\ v = q * e + z
    BY <1>1, <1>5, <1>6
  <2> HIDE DEF q, z
  <2>2. v % q = z
    BY <2>1, <1>4, RemainderUnique
  <2> QED
    BY <2>2 DEF q, z
<1>8. p * b + r = r + p * b
  BY <1>1, <1>3, <1>4
<1> QED
  BY <1>1, <1>2, <1>4, <1>7, <1>8 DEF r, p

\* The numbers of fewer and fewer bits that Bitwise goes through.
Low(op, a, b) ==
  CHOOSE low : low = [k \in 0 .. HostWidth |->
    IF k = 0 THEN 0
    ELSE low[k - 1] + (IF Sets(op, Bit(a, k - 1), Bit(b, k - 1)) THEN Powers[k - 1] ELSE 0)]

LEMMA LowDefined ==
  ASSUME NEW op, NEW a \in Int, NEW b \in Int
  PROVE  /\ \A w : Bitwise(op, a, b, w) = Low(op, a, b)[w]
         /\ Low(op, a, b) \in [0 .. HostWidth -> Int]
         /\ Low(op, a, b)[0] = 0
         /\ \A k \in 0 .. HostWidth - 1 :
              Low(op, a, b)[k + 1] = Low(op, a, b)[k]
                + (IF Sets(op, Bit(a, k), Bit(b, k)) THEN Powers[k] ELSE 0)
<1> DEFINE gains(k) == IF Sets(op, Bit(a, k), Bit(b, k)) THEN Powers[k] ELSE 0
           P(low) == low = [k \in 0 .. HostWidth |-> IF k = 0 THEN 0 ELSE low[k - 1] + gains(k - 1)]
           F == [p \in Int \X (1 .. HostWidth) |-> p[1] + gains(p[2] - 1)]
<1>1. HostWidth \in Nat /\ \A k \in 0 .. HostWidth - 1 : gains(k) \in Int
  BY PowersPositive, WidthsAssumption
<1> HIDE DEF gains
<1>2. F \in [Int \X (1 .. HostWidth) -> Int]
  BY <1>1
<1>3. PICK f \in [0 .. HostWidth -> Int] : Unrolls(f, 0, F, HostWidth)
  <2> HIDE DEF F
  <2>1. 0 \in Int
    OBVIOUS
  <2> QED
    BY <1>1, <1>2, <2>1, Unrolling, Zenon
<1>4. P(f)
  <2>1. f[0] = 0 /\ \A k \in 1 .. HostWidth : f[k] = F[<<f[k - 1], k>>]
    BY <1>3 DEF Unrolls
  <2>2. ASSUME NEW k \in 1 .. HostWidth PROVE f[k] = f[k - 1] + gains(k - 1)
    <3>1. f[k - 1] \in Int /\ <<f[k - 1], k>> \in Int \X (1 .. HostWidth)
      BY <1>1, <1>3
    <3>2. F[<<f[k - 1], k>>] = f[k - 1] + gains(k - 1)
      BY <3>1
    <3> QED
      BY <2>1, <3>2
  <2> QED
    BY <1>1, <1>3, <2>1, <2>2
<1>5. P(CHOOSE low : P(low))
  <2> HIDE DEF P
  <2> QED
    BY <1>4
<1>6. Low(op, a, b) = CHOOSE low : P(low)
  BY DEF Low, gains
<1>7. P(Low(op, a, b))
  <2> HIDE DEF P
  <2> QED
    BY <1>5, <1>6
<1>8. \A w : Bitwise(op, a, b, w) = Low(op, a, b)[w]
  BY DEF Bitwise, Low
<1> DEFINE L == Low(op, a, b)
<1>9. L = [k \in 0 .. HostWidth |-> IF k = 0 THEN 0 ELSE L[k - 1] + gains(k - 1)]
  BY <1>7
<1> HIDE DEF L
<1>10. L[0] = 0 /\ \A k \in 0 .. HostWidth - 1 : L[k + 1] = L[k] + gains(k)
  <2>1. L[0] = 0
    BY <1>1, <1>9
  <2>2. ASSUME NEW k \in 0 .. HostWidth - 1 PROVE L[k + 1] = L[k] + gains(k)
    <3>1. k + 1 \in 0 .. HostWidth /\ k + 1 # 0 /\ (k + 1) - 1 = k
      BY <1>1
    <3> QED
      BY <1>9, <3>1
  <2> QED
    BY <2>1, <2>2
<1>11. L \in [0 .. HostWidth -> Int]
  <2> DEFINE S == {k \in Nat : k <= HostWidth => L[k] \in Int}
  <2>1. 0 \in S
    BY <1>10
  <2>2. ASSUME NEW k \in Nat, k \in S PROVE k + 1 \in S
    BY <2>2, <1>1, <1>10
  <2> HIDE DEF S
  <2>3. \A k \in Nat : k \in S
    BY <2>1, <2>2, Induction
  <2>4. \A k \in 0 .. HostWidth : L[k] \in Int
    BY <2>3, <1>1 DEF S
  <2> QED
    BY <2>4, <1>9
<1> QED
  BY <1>8, <1>10, <1>11 DEF L, gains

\* The compiler's bits, cut to a width, are the bits of that width.
LEMMA BitwiseCut ==
  ASSUME NEW op, NEW a \in Int, NEW b \in Int, NEW w \in WidthsOfLLVM
  PROVE  /\ Bitwise(op, a, b, w) \in Int /\ Bitwise(op, a, b, HostWidth) \in Int
         /\ Signed(Bitwise(op, a, b, HostWidth), w) = Signed(Bitwise(op, a, b, w), w)
<1> DEFINE L == Low(op, a, b)
           gains(k) == IF Sets(op, Bit(a, k), Bit(b, k)) THEN Powers[k] ELSE 0
           S == {n \in Nat : w + n <= HostWidth => \E q \in Int : L[w + n] = L[w] + Powers[w] * q}
<1>1. /\ L \in [0 .. HostWidth -> Int]
      /\ \A k \in 0 .. HostWidth - 1 : L[k + 1] = L[k] + gains(k)
      /\ \A k : Bitwise(op, a, b, k) = L[k]
  BY LowDefined
<1>2. w \in Nat /\ HostWidth \in Nat /\ w <= HostWidth
  BY Halves
<1>3. \A n \in Nat : w + n < HostWidth => \E g \in Int : gains(w + n) = Powers[w] * g
  <2> SUFFICES ASSUME NEW n \in Nat, w + n < HostWidth PROVE \E g \in Int : gains(w + n) = Powers[w] * g
    OBVIOUS
  <2>1. Powers[w + n] = Powers[w] * Powers[n] /\ Powers[n] \in Int /\ Powers[w] \in Int
    BY <1>2, PowersProduct, PowersPositive
  <2>2. CASE Sets(op, Bit(a, w + n), Bit(b, w + n))
    BY <2>1, <2>2
  <2>3. CASE ~ Sets(op, Bit(a, w + n), Bit(b, w + n))
    <3>1. gains(w + n) = Powers[w] * 0 /\ 0 \in Int
      BY <2>1, <2>3
    <3> QED
      BY <3>1
  <2> QED
    BY <2>2, <2>3
<1> HIDE DEF L, gains
<1>4. 0 \in S
  <2>1. L[w + 0] = L[w] + Powers[w] * 0 /\ 0 \in Int
    BY <1>1, <1>2, PowersPositive
  <2> QED
    BY <2>1
<1>5. ASSUME NEW n \in Nat, n \in S PROVE n + 1 \in S
  <2> SUFFICES ASSUME w + (n + 1) <= HostWidth
               PROVE  \E q \in Int : L[w + (n + 1)] = L[w] + Powers[w] * q
    OBVIOUS
  <2>1. PICK q \in Int : L[w + n] = L[w] + Powers[w] * q
    BY <1>2, <1>5
  <2>2. PICK g \in Int : gains(w + n) = Powers[w] * g
    BY <1>2, <1>3
  <2>3. w + n \in 0 .. HostWidth - 1 /\ (w + n) + 1 = w + (n + 1)
    BY <1>2
  <2>4. L[w + (n + 1)] = L[w + n] + gains(w + n)
    BY <1>1, <2>3
  <2>5. Powers[w] \in Int /\ L[w] \in Int
    BY <1>1, <1>2, PowersPositive
  <2>6. (L[w] + Powers[w] * q) + Powers[w] * g = L[w] + Powers[w] * (q + g) /\ q + g \in Int
    BY <2>5
  <2> QED
    BY <2>1, <2>2, <2>4, <2>6
<1> HIDE DEF S
<1>6. HostWidth - w \in S
  BY <1>2, <1>4, <1>5, Induction
<1>7. PICK q \in Int : L[w + (HostWidth - w)] = L[w] + Powers[w] * q
  BY <1>2, <1>6 DEF S
<1>8. w + (HostWidth - w) = HostWidth /\ L[w] \in Int /\ L[HostWidth] \in Int
  BY <1>1, <1>2
<1>9. Signed(L[HostWidth], w) = Signed(L[w], w)
  BY <1>7, <1>8, SignedShift
<1> QED
  BY <1>1, <1>8, <1>9

\* When each bit is set as it is in a, the result is a; when none is, 0.
LEMMA BitwiseKeeps ==
  ASSUME NEW op, NEW a \in Int, NEW b \in Int, NEW w \in WidthsOfLLVM,
         \A k \in 0 .. HostWidth - 1 : Sets(op, Bit(a, k), Bit(b, k)) <=> Bit(a, k) = 1
  PROVE  Signed(Bitwise(op, a, b, w), w) = Signed(a, w)
<1> DEFINE L == Low(op, a, b)
           S == {n \in Nat : n <= HostWidth => L[n] = a % Powers[n]}
<1>1. /\ L[0] = 0
      /\ \A k \in 0 .. HostWidth - 1 :
            L[k + 1] = L[k] + (IF Sets(op, Bit(a, k), Bit(b, k)) THEN Powers[k] ELSE 0)
      /\ Bitwise(op, a, b, w) = L[w]
  BY LowDefined
<1>2. w \in Nat /\ HostWidth \in Nat /\ w <= HostWidth
  BY Halves
<1> HIDE DEF L
<1>3. 0 \in S
  <2>1. Powers[0] = 1 /\ a % 1 = 0
    BY <1>2, PowersAssumption
  <2> QED
    BY <1>1, <2>1
<1>4. ASSUME NEW n \in Nat, n \in S PROVE n + 1 \in S
  <2> SUFFICES ASSUME n + 1 <= HostWidth PROVE L[n + 1] = a % Powers[n + 1]
    OBVIOUS
  <2>1. n \in 0 .. HostWidth - 1 /\ L[n] = a % Powers[n]
    BY <1>2, <1>4
  <2>2. Bit(a, n) \in {0, 1} /\ a % Powers[n + 1] = (a % Powers[n]) + Powers[n] * Bit(a, n)
    BY <2>1, Bits
  <2>3. Powers[n] \in Int
    BY <2>1, <1>2, PowersPositive
  <2>4. Powers[n] * Bit(a, n) = IF Bit(a, n) = 1 THEN Powers[n] ELSE 0
    BY <2>2, <2>3
  <2>5. L[n + 1] = L[n] + (IF Bit(a, n) = 1 THEN Powers[n] ELSE 0)
    BY <1>1, <2>1
  <2> QED
    BY <2>1, <2>2, <2>4, <2>5
<1> HIDE DEF S
<1>5. L[w] = a % Powers[w]
  <2>1. w \in S
    BY <1>2, <1>3, <1>4, Induction
  <2> QED
    BY <2>1, <1>2 DEF S
<1> DEFINE p == Powers[w]  d == a \div p
<1>6. p \in Nat \ {0} /\ d \in Int /\ a % p \in Int /\ a = p * d + (a % p)
  <2>1. p \in Nat \ {0}
    BY Halves
  <2> HIDE DEF p
  <2> QED
    BY <2>1, Division
<1>7. Signed((a % p) + p * d, w) = Signed(a % p, w)
  <2> HIDE DEF d
  <2> QED
    BY <1>6, SignedShift
<1>8. (a % p) + p * d = a
  <2> HIDE DEF d, p
  <2> QED
    BY <1>6
<1> QED
  BY <1>1, <1>5, <1>7, <1>8

LEMMA BitwiseZero ==
  ASSUME NEW op, NEW a \in Int, NEW b \in Int, NEW w \in WidthsOfLLVM,
         \A k \in 0 .. HostWidth - 1 : ~ Sets(op, Bit(a, k), Bit(b, k))
  PROVE  Bitwise(op, a, b, w) = 0
<1> DEFINE L == Low(op, a, b)
           S == {n \in Nat : n <= HostWidth => L[n] = 0}
<1>1. /\ L[0] = 0
      /\ \A k \in 0 .. HostWidth - 1 :
            L[k + 1] = L[k] + (IF Sets(op, Bit(a, k), Bit(b, k)) THEN Powers[k] ELSE 0)
      /\ Bitwise(op, a, b, w) = L[w]
  BY LowDefined
<1>2. w \in Nat /\ HostWidth \in Nat /\ w <= HostWidth
  BY Halves
<1> HIDE DEF L
<1>3. 0 \in S
  BY <1>1
<1>4. ASSUME NEW n \in Nat, n \in S PROVE n + 1 \in S
  BY <1>1, <1>2, <1>4
<1> HIDE DEF S
<1>5. w \in S
  BY <1>2, <1>3, <1>4, Induction
<1> QED
  BY <1>1, <1>2, <1>5 DEF S

\* The operands for which fold_block leaves a bitwise operation out.
LEMMA BitwiseNeutral ==
  ASSUME NEW a \in Int, NEW w \in WidthsOfLLVM
  PROVE  /\ Signed(Bitwise("and", a, a, w), w) = Signed(a, w)
         /\ Signed(Bitwise("or", a, a, w), w) = Signed(a, w)
         /\ Signed(Bitwise("and", a, -1, w), w) = Signed(a, w)
         /\ Signed(Bitwise("or", a, 0, w), w) = Signed(a, w)
         /\ Signed(Bitwise("xor", a, 0, w), w) = Signed(a, w)
         /\ Bitwise("xor", a, a, w) = 0
<1>1. ASSUME NEW k \in 0 .. HostWidth - 1
      PROVE  Bit(a, k) \in {0, 1} /\ Bit(-1, k) = 1 /\ Bit(0, k) = 0
  <2>1. Bit(a, k) \in {0, 1}
    BY Bits
  <2> DEFINE p == Powers[k]
  <2>2. p \in Nat \ {0}
    BY PowersPositive, WidthsAssumption
  <2>3. Bit(-1, k) = ((-1) \div p) % 2 /\ Bit(0, k) = (0 \div p) % 2
    BY DEF Bit
  <2> HIDE DEF p
  <2>4. (-1) \div p = -1 /\ 0 \div p = 0
    <3> DEFINE d == (-1) \div p  r == (-1) % p
    <3>1. d \in Int /\ r \in 0 .. p - 1 /\ -1 = p * d + r
      BY <2>2, Division
    <3> HIDE DEF d, r
    <3>2. ASSUME d >= 0 PROVE FALSE
      <4>1. p * d >= 0
        BY <3>1, <3>2, <2>2
      <4>2. p * d \in Int
        BY <3>1, <2>2
      <4> QED
        BY <3>1, <4>1, <4>2
    <3>3. ASSUME d <= -2 PROVE FALSE
      <4>1. p * d <= p * (-2)
        BY <3>1, <3>3, <2>2
      <4> QED
        BY <3>1, <4>1, <2>2
    <3>4. d = -1
      BY <3>1, <3>2, <3>3
    <3>5. 0 \div p = 0
      BY <2>2
    <3> QED
      BY <3>4, <3>5 DEF d
  <2>5. (-1) % 2 = 1 /\ 0 % 2 = 0
    <3> DEFINE x == -1  s == 2  e == x \div s  b == x % s
    <3>1. x \in Int /\ x = -1 /\ s \in Nat \ {0} /\ s = 2
      OBVIOUS
    <3> HIDE DEF x, s
    <3>2. e \in Int /\ b \in 0 .. 1 /\ x = 2 * e + b
      <4>1. e \in Int /\ b \in 0 .. s - 1 /\ x = s * e + b
        BY <3>1, Division
      <4> HIDE DEF e, b
      <4> QED
        BY <3>1, <4>1
    <3> HIDE DEF e, b
    <3>3. b = 1
      BY <3>1, <3>2
    <3> QED
      BY <3>3 DEF b, x, s
  <2> QED
    BY <2>1, <2>3, <2>4, <2>5
<1>2. -1 \in Int /\ 0 \in Int
  OBVIOUS
<1>3. \A k \in 0 .. HostWidth - 1 :
        /\ Sets("and", Bit(a, k), Bit(a, k)) <=> Bit(a, k) = 1
        /\ Sets("or", Bit(a, k), Bit(a, k)) <=> Bit(a, k) = 1
        /\ Sets("and", Bit(a, k), Bit(-1, k)) <=> Bit(a, k) = 1
        /\ Sets("or", Bit(a, k), Bit(0, k)) <=> Bit(a, k) = 1
        /\ Sets("xor", Bit(a, k), Bit(0, k)) <=> Bit(a, k) = 1
        /\ ~ Sets("xor", Bit(a, k), Bit(a, k))
  BY <1>1 DEF Sets
<1> QED
  BY <1>2, <1>3, BitwiseKeeps, BitwiseZero

-----------------------------------------------------------------------------
\* The operations.

LEMMA Quotients ==
  ASSUME NEW a \in Int, NEW b \in Int, b # 0
  PROVE  Quotient(a, b) \in Int /\ Remainder(a, b) \in Int /\ Quotient(a, 1) = a
<1>1. Abs(a) \in Nat /\ Abs(b) \in Nat \ {0} /\ Sign(a) \in {-1, 1} /\ Sign(b) \in {-1, 1}
  BY DEF Abs, Sign
<1>2. Abs(a) \div Abs(b) \in Int
  BY <1>1
<1>3. Quotient(a, b) \in Int
  BY <1>1, <1>2 DEF Quotient
<1>4. Remainder(a, b) \in Int
  BY <1>3 DEF Remainder
<1>5. Quotient(a, 1) = a
  BY DEF Quotient, Abs, Sign
<1> QED
  BY <1>3, <1>4, <1>5

\* A shift that is defined is by less than the width.
LEMMA Shifts ==
  ASSUME NEW w \in WidthsOfLLVM, NEW b \in -Half(w) .. Half(w) - 1, b % Powers[w] < w
  PROVE  b \in 0 .. w - 1 /\ b % HostWidth = b /\ Powers[b] \in Int
<1> DEFINE h == Half(w)  p == Powers[w]
<1>1. h \in Nat \ {0} /\ h >= w /\ p = 2 * h /\ w \in Nat \ {0} /\ HostWidth \in Nat /\ w <= HostWidth
  BY Halves
<1>2. b \in -h .. h - 1 /\ b % p < w
  OBVIOUS
<1> HIDE DEF h, p
<1>3. p \in Nat \ {0} /\ b \in Int /\ 0 <= b % p
  BY <1>1, <1>2
<1>4. b >= 0
  <2> SUFFICES ASSUME b < 0 PROVE FALSE
    BY <1>3
  <2> DEFINE q == -1  r == b + p
  <2>1. q \in Int /\ q = -1 /\ r \in 0 .. p - 1 /\ r >= w
    BY <1>1, <1>2
  <2> HIDE DEF q, r
  <2>2. (p * q + r) % p = r
    BY <1>3, <2>1, RemainderUnique
  <2>3. p * q + r = b
    BY <1>1, <1>3, <2>1 DEF r
  <2> QED
    BY <1>1, <1>2, <1>3, <2>1, <2>2, <2>3
<1>5. b \in 0 .. p - 1
  BY <1>1, <1>2, <1>4
<1>6. b % p = b
  BY <1>3, <1>5, RemainderUnique, p * 0 + b = b
<1>7. b \in 0 .. w - 1
  BY <1>1, <1>2, <1>3, <1>4, <1>6
<1>8. b % HostWidth = b
  BY <1>1, <1>7, RemainderUnique, HostWidth * 0 + b = b, b \in 0 .. HostWidth - 1, HostWidth \in Nat \ {0}
<1>9. Powers[b] \in Int
  BY <1>1, <1>7, PowersPositive
<1> QED
  BY <1>7, <1>8, <1>9

\* The compiler's arithmetic, cut to the width of an operation, is that of
\* the operation, where it is defined.
LEMMA Operations ==
  ASSUME NEW w \in WidthsOfLLVM, NEW op \in BinOps,
         NEW a \in -Half(w) .. Half(w) - 1, NEW b \in -Half(w) .. Half(w) - 1,
         ~ Undefined(op, a, b, w)
  PROVE  /\ Compute(op, a, b, w) \in Int
         /\ HostFold(op, a, b) \in Int
         /\ Signed(HostFold(op, a, b), w) = Signed(Compute(op, a, b, w), w)
<1>1. a \in Int /\ b \in Int /\ w <= HostWidth /\ HostWidth \in WidthsOfLLVM
  <2>1. Half(w) \in Nat /\ HostWidth \in Nat /\ w \in Nat \ {0} /\ w <= HostWidth
    BY Halves
  <2> QED
    BY <2>1 DEF WidthsOfLLVM
<1> DEFINE R == CASE op \in {"div", "mod"} /\ b = 0 -> 0
                  [] op = "shl" -> a * Powers[b % HostWidth]
                  [] op = "shr" -> a \div Powers[b % HostWidth]
                  [] OTHER -> Compute(op, a, b, HostWidth)
<1>2. HostFold(op, a, b) = Signed(R, HostWidth)
  BY DEF HostFold, Host
<1>3. /\ Compute(op, a, b, w) \in Int /\ R \in Int
      /\ Signed(R, w) = Signed(Compute(op, a, b, w), w)
  <2>1. CASE op \in {"add", "sub", "mul"}
    BY <2>1, <1>1 DEF Compute, BitOps
  <2>2. CASE op \in {"div", "mod"}
    <3>1. b # 0
      BY <2>2 DEF Undefined
    <3>2. Quotient(a, b) \in Int /\ Remainder(a, b) \in Int
      BY <1>1, <3>1, Quotients
    <3> QED
      BY <2>2, <3>1, <3>2 DEF Compute, BitOps
  <2>3. CASE op \in {"shl", "shr"}
    <3>1. b \in 0 .. w - 1 /\ b % HostWidth = b /\ Powers[b] \in Int
      <4>1. ~ (b % Powers[w] >= w)
        BY <2>3 DEF Undefined
      <4>2. b % Powers[w] \in Int /\ w \in Int
        BY <1>1, Halves
      <4> QED
        BY <4>1, <4>2, Shifts
    <3>2. a * Powers[b] \in Int /\ a \div Powers[b] \in Int
      <4>1. Powers[b] \in Nat \ {0}
        BY <1>1, <3>1, PowersPositive DEF WidthsOfLLVM
      <4> QED
        BY <1>1, <4>1
    <3> QED
      BY <2>3, <3>1, <3>2 DEF Compute, BitOps
  <2>4. CASE op \in BitOps
    <3>1. Compute(op, a, b, w) = Bitwise(op, a, b, w) /\ R = Bitwise(op, a, b, HostWidth)
      BY <2>4 DEF Compute, BitOps
    <3> HIDE DEF R
    <3> QED
      BY <1>1, <3>1, BitwiseCut
  <2> QED
    BY <2>1, <2>2, <2>3, <2>4 DEF BinOps, BitOps
<1> HIDE DEF R
<1> QED
  BY <1>1, <1>2, <1>3, SignedRange, SignedTwice

-----------------------------------------------------------------------------
\* Instructions and environments.

Operand == {Const(c) : c \in Int} \union {Temp(t) : t \in 1 .. MaxInstrs}
Ranged(x, w) == x.const => InRange(x.v, w)

StoreInstrs == {i \in [op : {"store"}, slot : Slots, w : WidthsOfLLVM, src1 : Operand] :
                  i.w = WidthOf[i.slot] /\ Ranged(i.src1, i.w)}
LoadInstrs == {i \in [op : {"load"}, slot : Slots, w : WidthsOfLLVM, dst : 1 .. MaxInstrs] :
                  i.w = WidthOf[i.slot]}
BinaryInstrs == {i \in [op : BinOps \union {"icmp"}, dst : 1 .. MaxInstrs, w : WidthsOfLLVM,
                        src1 : Operand, src2 : Operand] :
                  Ranged(i.src1, i.w) /\ Ranged(i.src2, i.w)}
SextInstrs == {i \in [op : {"sext"}, dst : 1 .. MaxInstrs, w : WidthsOfLLVM,
                      from : WidthsOfLLVM, src1 : Operand] :
                  i.from < i.w /\ Ranged(i.src1, i.from)}
\* What the code generator emits, and what the optimizer makes of it.
Emitted == StoreInstrs \union LoadInstrs \union BinaryInstrs \union SextInstrs
Additions == [op : {"add"}, dst : 1 .. MaxInstrs, w : WidthsOfLLVM, src1 : Operand, src2 : Operand]
Instrs == Emitted \union Additions

Registers == [v : Int, w : 0 .. HostWidth]
Envs == [slots : [Slots -> Registers], temps : [1 .. MaxInstrs -> Registers]]

\* Defined registers are the same.
Below(r, s) == IsPoison(r) \/ r = s
EnvBelow(e, f) == Agrees(e.slots, f.slots) /\ Agrees(e.temps, f.temps)

LEMMA OperandCases ==
  ASSUME NEW x \in Operand
  PROVE  \/ x.const = TRUE /\ x.v \in Int /\ x = Const(x.v)
         \/ x.const = FALSE /\ x.v \in 1 .. MaxInstrs /\ x = Temp(x.v)
BY DEF Operand, Const, Temp

LEMMA BelowTransitive ==
  ASSUME NEW r, NEW s, NEW t, Below(r, s), Below(s, t)
  PROVE  Below(r, t)
BY DEF Below, IsPoison

LEMMA EnvBelowItself == ASSUME NEW e PROVE EnvBelow(e, e)
BY DEF EnvBelow, Agrees

LEMMA EnvBelowTransitive ==
  ASSUME NEW e \in Envs, NEW f \in Envs, NEW g \in Envs, EnvBelow(e, f), EnvBelow(f, g)
  PROVE  EnvBelow(e, g)
BY DEF EnvBelow, Agrees, Envs, IsPoison

\* A register that is computed: undefined, or in the range of its width.
Computed(r, w) == /\ r \in Registers
                  /\ IsPoison(r) \/ (r.w = w /\ r.v \in -Half(w) .. Half(w) - 1)

LEMMA Poisons == IsPoison(Poison) /\ Poison \in Registers
BY WidthsAssumption DEF IsPoison, Poison, Registers

LEMMA SignedComputed ==
  ASSUME NEW v \in Int, NEW w \in WidthsOfLLVM
  PROVE  Computed([v |-> Signed(v, w), w |-> w], w) /\ ~ IsPoison([v |-> Signed(v, w), w |-> w])
<1>1. w \in 1 .. HostWidth /\ w # 0
  BY Halves DEF WidthsOfLLVM
<1> QED
  BY <1>1, SignedRange DEF Computed, Registers, IsPoison

LEMMA CoerceComputed ==
  ASSUME NEW r \in Registers, NEW w \in WidthsOfLLVM
  PROVE  Computed(coerce_v(r, w), w)
<1>1. CASE IsPoison(r)
  BY <1>1, Poisons DEF coerce_v, Computed
<1>2. CASE ~ IsPoison(r)
  <2>1. r.v \in Int /\ coerce_v(r, w) = [v |-> Signed(r.v, w), w |-> w]
    BY <1>2 DEF coerce_v, Registers
  <2> QED
    BY <2>1, SignedComputed
<1> QED
  BY <1>1, <1>2

LEMMA RvalComputed ==
  ASSUME NEW e \in Envs, NEW x \in Operand, NEW w \in WidthsOfLLVM
  PROVE  Computed(rval(e, x, w), w)
<1>1. CASE x.const = TRUE /\ x.v \in Int
  <2>1. rval(e, x, w) = [v |-> Signed(x.v, w), w |-> w]
    BY <1>1 DEF rval
  <2> QED
    BY <1>1, <2>1, SignedComputed
<1>2. CASE x.const = FALSE /\ x.v \in 1 .. MaxInstrs
  <2>1. e.temps[x.v] \in Registers /\ rval(e, x, w) = coerce_v(e.temps[x.v], w)
    BY <1>2 DEF rval, Envs
  <2> QED
    BY <2>1, CoerceComputed
<1> QED
  BY <1>1, <1>2, OperandCases

LEMMA CoerceBelow ==
  ASSUME NEW r, NEW s, NEW w, Below(r, s)
  PROVE  Below(coerce_v(r, w), coerce_v(s, w))
BY Poisons DEF Below, coerce_v

LEMMA RvalBelow ==
  ASSUME NEW e \in Envs, NEW f \in Envs, EnvBelow(e, f), NEW x \in Operand, NEW w
  PROVE  Below(rval(e, x, w), rval(f, x, w))
<1>1. CASE x.const = TRUE
  BY <1>1 DEF rval, Below
<1>2. CASE x.const = FALSE /\ x.v \in 1 .. MaxInstrs
  <2>1. Below(e.temps[x.v], f.temps[x.v])
    BY <1>2 DEF EnvBelow, Agrees, Below, Envs
  <2> QED
    BY <1>2, <2>1, CoerceBelow DEF rval
<1> QED
  BY <1>1, <1>2, OperandCases

LEMMA OperateComputed ==
  ASSUME NEW op \in BinOps, NEW w \in WidthsOfLLVM, NEW x, NEW y, Computed(x, w), Computed(y, w)
  PROVE  Computed(Operate(op, x, y, w), w)
<1>1. CASE IsPoison(x) \/ IsPoison(y) \/ Undefined(op, x.v, y.v, w)
  BY <1>1, Poisons DEF Operate, Computed
<1>2. CASE ~ (IsPoison(x) \/ IsPoison(y) \/ Undefined(op, x.v, y.v, w))
  <2>1. x.v \in -Half(w) .. Half(w) - 1 /\ y.v \in -Half(w) .. Half(w) - 1
    BY <1>2 DEF Computed
  <2>2. Compute(op, x.v, y.v, w) \in Int
    BY <1>2, <2>1, Operations
  <2> QED
    BY <1>2, <2>2, SignedComputed DEF Operate
<1> QED
  BY <1>1, <1>2

\* What an instruction other than a store leaves in its temporary.
Result(env, i) ==
  CASE i.op = "load" -> coerce_v(env.slots[i.slot], i.w)
    [] i.op = "sext" -> coerce_v(rval(env, i.src1, i.from), i.w)
    [] i.op = "icmp" -> LET x == rval(env, i.src1, i.w)
                            y == rval(env, i.src2, i.w)
                        IN  IF IsPoison(x) \/ IsPoison(y) THEN Poison
                            ELSE [v |-> IF x = y THEN -1 ELSE 0, w |-> 1]
    [] OTHER -> Operate(i.op, rval(env, i.src1, i.w), rval(env, i.src2, i.w), i.w)

LEMMA ExecuteResult ==
  ASSUME NEW env, NEW i, i.op # "store"
  PROVE  Execute(env, i) = [env EXCEPT !.temps[i.dst] = Result(env, i)]
<1>1. CASE i.op = "load"
  BY <1>1 DEF Execute, Result
<1>2. CASE i.op = "sext"
  BY <1>2 DEF Execute, Result
<1>3. CASE i.op = "icmp"
  BY <1>3 DEF Execute, Result
<1>4. CASE i.op \notin {"load", "sext", "icmp", "store"}
  BY <1>4 DEF Execute, Result
<1> QED
  BY <1>1, <1>2, <1>3, <1>4

LEMMA InstrCases ==
  ASSUME NEW i \in Instrs
  PROVE  \/ i \in StoreInstrs /\ i.op = "store"
         \/ i \in LoadInstrs /\ i.op = "load" /\ i.dst \in 1 .. MaxInstrs
         \/ i \in SextInstrs /\ i.op = "sext" /\ i.dst \in 1 .. MaxInstrs
         \/ i \in BinaryInstrs /\ i.op = "icmp" /\ i.dst \in 1 .. MaxInstrs
         \/ i \in BinaryInstrs \union Additions /\ i.op \in BinOps /\ i.dst \in 1 .. MaxInstrs
BY DEF Instrs, Emitted, StoreInstrs, LoadInstrs, SextInstrs, BinaryInstrs, Additions, BinOps

LEMMA ResultIsRegister ==
  ASSUME NEW e \in Envs, NEW i \in Instrs, i.op # "store"
  PROVE  Result(e, i) \in Registers
<1>1. CASE i \in LoadInstrs /\ i.op = "load"
  <2>1. e.slots[i.slot] \in Registers /\ i.w \in WidthsOfLLVM
    BY <1>1 DEF LoadInstrs, Envs
  <2> QED
    BY <1>1, <2>1, CoerceComputed DEF Result, Computed
<1>2. CASE i \in SextInstrs /\ i.op = "sext"
  <2>1. i.src1 \in Operand /\ i.from \in WidthsOfLLVM /\ i.w \in WidthsOfLLVM
    BY <1>2 DEF SextInstrs
  <2>2. rval(e, i.src1, i.from) \in Registers
    BY <2>1, RvalComputed DEF Computed
  <2> QED
    BY <1>2, <2>1, <2>2, CoerceComputed DEF Result, Computed
<1>3. CASE i \in BinaryInstrs /\ i.op = "icmp"
  <2>1. HostWidth \in Nat \ {0}
    BY WidthsAssumption
  <2> QED
    BY <1>3, <2>1, Poisons DEF Result, Registers
<1>4. CASE i \in BinaryInstrs \union Additions /\ i.op \in BinOps
  <2>1. i.src1 \in Operand /\ i.src2 \in Operand /\ i.w \in WidthsOfLLVM
    BY <1>4 DEF BinaryInstrs, Additions
  <2>2. Computed(Operate(i.op, rval(e, i.src1, i.w), rval(e, i.src2, i.w), i.w), i.w)
    BY <1>4, <2>1, RvalComputed, OperateComputed
  <2>3. Result(e, i) = Operate(i.op, rval(e, i.src1, i.w), rval(e, i.src2, i.w), i.w)
    BY <1>4 DEF Result, BinOps
  <2> QED
    BY <2>2, <2>3 DEF Computed
<1> QED
  BY <1>1, <1>2, <1>3, <1>4, InstrCases

LEMMA ResultBelow ==
  ASSUME NEW e \in Envs, NEW f \in Envs, EnvBelow(e, f), NEW i \in Instrs, i.op # "store"
  PROVE  Below(Result(e, i), Result(f, i))
<1>1. CASE i \in LoadInstrs /\ i.op = "load"
  <2>1. Below(e.slots[i.slot], f.slots[i.slot])
    BY <1>1 DEF LoadInstrs, Envs, EnvBelow, Agrees, Below
  <2> QED
    BY <1>1, <2>1, CoerceBelow DEF Result
<1>2. CASE i \in SextInstrs /\ i.op = "sext"
  <2>1. Below(rval(e, i.src1, i.from), rval(f, i.src1, i.from))
    BY <1>2, RvalBelow DEF SextInstrs
  <2> QED
    BY <1>2, <2>1, CoerceBelow DEF Result
<1>3. CASE i \in BinaryInstrs /\ i.op = "icmp"
  <2>1. Below(rval(e, i.src1, i.w), rval(f, i.src1, i.w)) /\ Below(rval(e, i.src2, i.w), rval(f, i.src2, i.w))
    BY <1>3, RvalBelow DEF BinaryInstrs
  <2> QED
    BY <1>3, <2>1, Poisons DEF Result, Below
<1>4. CASE i \in BinaryInstrs \union Additions /\ i.op \in BinOps
  <2>1. Below(rval(e, i.src1, i.w), rval(f, i.src1, i.w)) /\ Below(rval(e, i.src2, i.w), rval(f, i.src2, i.w))
    BY <1>4, RvalBelow DEF BinaryInstrs, Additions
  <2>2. \A g : Result(g, i) = Operate(i.op, rval(g, i.src1, i.w), rval(g, i.src2, i.w), i.w)
    BY <1>4 DEF Result, BinOps
  <2> QED
    BY <2>1, <2>2, Poisons DEF Below, Operate
<1> QED
  BY <1>1, <1>2, <1>3, <1>4, InstrCases

LEMMA WritesTemp ==
  ASSUME NEW e \in Envs, NEW f \in Envs, EnvBelow(e, f), NEW d \in 1 .. MaxInstrs,
         NEW r \in Registers, NEW s \in Registers, Below(r, s)
  PROVE  /\ [e EXCEPT !.temps[d] = r] \in Envs /\ [f EXCEPT !.temps[d] = s] \in Envs
         /\ EnvBelow([e EXCEPT !.temps[d] = r], [f EXCEPT !.temps[d] = s])
BY DEF Envs, EnvBelow, Agrees, Below

LEMMA WritesSlot ==
  ASSUME NEW e \in Envs, NEW f \in Envs, EnvBelow(e, f), NEW d \in Slots,
         NEW r \in Registers, NEW s \in Registers, Below(r, s)
  PROVE  /\ [e EXCEPT !.slots[d] = r] \in Envs /\ [f EXCEPT !.slots[d] = s] \in Envs
         /\ EnvBelow([e EXCEPT !.slots[d] = r], [f EXCEPT !.slots[d] = s])
BY DEF Envs, EnvBelow, Agrees, Below

LEMMA ExecuteStores ==
  ASSUME NEW e \in Envs, NEW i \in StoreInstrs
  PROVE  /\ Execute(e, i) = [e EXCEPT !.slots[i.slot] = rval(e, i.src1, i.w)]
         /\ rval(e, i.src1, i.w) \in Registers
         /\ i.slot \in Slots /\ i.src1 \in Operand
         /\ Execute(e, i) \in Envs
<1>1. i.op = "store" /\ i.slot \in Slots /\ i.src1 \in Operand /\ i.w \in WidthsOfLLVM
  BY DEF StoreInstrs
<1>2. Execute(e, i) = [e EXCEPT !.slots[i.slot] = rval(e, i.src1, i.w)]
  BY <1>1 DEF Execute
<1>3. rval(e, i.src1, i.w) \in Registers
  BY <1>1, RvalComputed DEF Computed
<1>4. Below(rval(e, i.src1, i.w), rval(e, i.src1, i.w))
  BY DEF Below
<1> QED
  BY <1>1, <1>2, <1>3, <1>4, EnvBelowItself, WritesSlot

LEMMA ExecuteType ==
  ASSUME NEW e \in Envs, NEW i \in Instrs
  PROVE  Execute(e, i) \in Envs
<1>1. CASE i \in StoreInstrs
  BY <1>1, ExecuteStores
<1>2. CASE i.op # "store"
  <2>1. Result(e, i) \in Registers /\ i.dst \in 1 .. MaxInstrs
    BY <1>2, InstrCases, ResultIsRegister
  <2>2. Below(Result(e, i), Result(e, i))
    BY DEF Below
  <2> QED
    BY <1>2, <2>1, <2>2, EnvBelowItself, WritesTemp, ExecuteResult
<1>3. i \in StoreInstrs \/ i.op # "store"
  BY InstrCases DEF BinOps
<1> QED
  BY <1>1, <1>2, <1>3

\* A value that an instruction makes of defined values does not change when
\* more of them are defined.
LEMMA ExecuteBelow ==
  ASSUME NEW e \in Envs, NEW f \in Envs, EnvBelow(e, f), NEW i \in Instrs
  PROVE  EnvBelow(Execute(e, i), Execute(f, i))
<1>1. CASE i \in StoreInstrs
  <2>1. Below(rval(e, i.src1, i.w), rval(f, i.src1, i.w))
    BY <1>1, ExecuteStores, RvalBelow
  <2>2. /\ Execute(e, i) = [e EXCEPT !.slots[i.slot] = rval(e, i.src1, i.w)]
        /\ Execute(f, i) = [f EXCEPT !.slots[i.slot] = rval(f, i.src1, i.w)]
        /\ rval(e, i.src1, i.w) \in Registers /\ rval(f, i.src1, i.w) \in Registers
        /\ i.slot \in Slots
    BY <1>1, ExecuteStores
  <2> QED
    BY <2>1, <2>2, WritesSlot
<1>2. CASE i.op # "store"
  <2>1. Result(e, i) \in Registers /\ Result(f, i) \in Registers /\ i.dst \in 1 .. MaxInstrs
    BY <1>2, InstrCases, ResultIsRegister
  <2>2. Below(Result(e, i), Result(f, i))
    BY <1>2, ResultBelow
  <2> QED
    BY <1>2, <2>1, <2>2, WritesTemp, ExecuteResult
<1>3. i \in StoreInstrs \/ i.op # "store"
  BY InstrCases DEF BinOps
<1> QED
  BY <1>1, <1>2, <1>3

-----------------------------------------------------------------------------
\* fold_block, an operation at a time.

LEMMA HostFolds ==
  ASSUME NEW op \in BinOps, NEW a \in Int, NEW b \in Int
  PROVE  HostFold(op, a, b) \in Int /\ Host(HostFold(op, a, b)) = HostFold(op, a, b)
<1>1. HostWidth \in WidthsOfLLVM /\ HostWidth \in Nat \ {0}
  BY WidthsAssumption DEF WidthsOfLLVM
<1> DEFINE R == CASE op \in {"div", "mod"} /\ b = 0 -> 0
                  [] op = "shl" -> a * Powers[b % HostWidth]
                  [] op = "shr" -> a \div Powers[b % HostWidth]
                  [] OTHER -> Compute(op, a, b, HostWidth)
<1>2. HostFold(op, a, b) = Signed(R, HostWidth)
  BY DEF HostFold, Host
<1>3. R \in Int
  <2>1. CASE op \in {"add", "sub", "mul"}
    BY <2>1 DEF Compute, BitOps
  <2>2. CASE op \in {"div", "mod"} /\ b = 0
    BY <2>2
  <2>3. CASE op \in {"div", "mod"} /\ b # 0
    BY <2>3, Quotients DEF Compute, BitOps
  <2>4. CASE op \in {"shl", "shr"}
    <3>1. b % HostWidth \in 0 .. HostWidth
      BY <1>1, Division
    <3>2. Powers[b % HostWidth] \in Nat \ {0}
      BY <3>1, PowersPositive
    <3>3. a * Powers[b % HostWidth] \in Int /\ a \div Powers[b % HostWidth] \in Int
      <4> DEFINE p == Powers[b % HostWidth]
      <4>1. p \in Nat \ {0}
        BY <3>2
      <4> HIDE DEF p
      <4>2. a * p \in Int /\ a \div p \in Int
        BY <4>1, Division
      <4> QED
        BY <4>2 DEF p
    <3> QED
      BY <2>4, <3>3
  <2>5. CASE op \in BitOps
    <3>1. R = Bitwise(op, a, b, HostWidth)
      BY <2>5 DEF Compute, BitOps
    <3> HIDE DEF R
    <3> QED
      BY <1>1, <3>1, BitwiseCut
  <2> QED
    BY <2>1, <2>2, <2>3, <2>4, <2>5 DEF BinOps, BitOps
<1> HIDE DEF R
<1> QED
  BY <1>1, <1>2, <1>3, SignedRange, SignedTwice DEF Host

Zero(w) == [v |-> 0, w |-> w]

LEMMA Constants ==
  ASSUME NEW w \in WidthsOfLLVM, NEW e, NEW c \in Int
  PROVE  /\ rval(e, Const(c), w) = [v |-> Signed(c, w), w |-> w]
         /\ InRange(c, w) => rval(e, Const(c), w) = [v |-> c, w |-> w]
         /\ Signed(0, w) = 0 /\ rval(e, Const(0), w) = Zero(w)
<1>1. Signed(0, w) = 0
  <2>1. 0 \in -Half(w) .. Half(w) - 1
    BY Halves
  <2> QED
    BY <2>1, SignedKeeps
<1>2. /\ rval(e, Const(c), w) = [v |-> Signed(c, w), w |-> w]
      /\ rval(e, Const(0), w) = [v |-> Signed(0, w), w |-> w]
  BY DEF rval, Const
<1> QED
  BY <1>1, <1>2 DEF InRange, Zero

\* An addition of zero leaves what is added to it.
LEMMA AddsNothing ==
  ASSUME NEW w \in WidthsOfLLVM, NEW x, Computed(x, w)
  PROVE  /\ Below(x, Operate("add", x, Zero(w), w))
         /\ ~ IsPoison(x) => x = [v |-> x.v, w |-> w] /\ Operate("add", x, Zero(w), w) = x
<1>1. CASE IsPoison(x)
  BY <1>1 DEF Below
<1>2. CASE ~ IsPoison(x)
  <2>1. x.v \in -Half(w) .. Half(w) - 1 /\ x = [v |-> x.v, w |-> w]
    BY <1>2 DEF Computed, Registers
  <2>2. x.v \in Int /\ Signed(x.v, w) = x.v
    BY <2>1, SignedKeeps
  <2>3. x.v + 0 = x.v
    BY <2>2
  <2>4. ~ IsPoison(Zero(w)) /\ Zero(w).v = 0
    BY Halves DEF Zero, IsPoison
  <2>5. ~ Undefined("add", x.v, 0, w) /\ Compute("add", x.v, 0, w) = x.v + 0
    BY DEF Undefined, Compute, BitOps
  <2>6. Operate("add", x, Zero(w), w) = [v |-> Signed(x.v + 0, w), w |-> w]
    BY <1>2, <2>4, <2>5 DEF Operate
  <2> QED
    BY <2>1, <2>2, <2>3, <2>6 DEF Below
<1> QED
  BY <1>1, <1>2

LEMMA YieldsLeft ==
  ASSUME NEW w \in WidthsOfLLVM, NEW op, NEW x, NEW y, Computed(x, w),
         ~ IsPoison(x) /\ ~ IsPoison(y) /\ ~ Undefined(op, x.v, y.v, w)
            => Signed(Compute(op, x.v, y.v, w), w) = x.v
  PROVE  Below(Operate(op, x, y, w), Operate("add", x, Zero(w), w))
<1>1. CASE IsPoison(x) \/ IsPoison(y) \/ Undefined(op, x.v, y.v, w)
  BY <1>1, Poisons DEF Operate, Below
<1>2. CASE ~ (IsPoison(x) \/ IsPoison(y) \/ Undefined(op, x.v, y.v, w))
  <2>1. Operate(op, x, y, w) = [v |-> x.v, w |-> w]
    BY <1>2 DEF Operate
  <2>2. x = [v |-> x.v, w |-> w] /\ Operate("add", x, Zero(w), w) = x
    BY <1>2, AddsNothing
  <2> QED
    BY <2>1, <2>2 DEF Below
<1> QED
  BY <1>1, <1>2

LEMMA YieldsRight ==
  ASSUME NEW w \in WidthsOfLLVM, NEW op, NEW x, NEW y, Computed(y, w),
         ~ IsPoison(x) /\ ~ IsPoison(y) /\ ~ Undefined(op, x.v, y.v, w)
            => Signed(Compute(op, x.v, y.v, w), w) = y.v
  PROVE  Below(Operate(op, x, y, w), Operate("add", y, Zero(w), w))
<1>1. CASE IsPoison(x) \/ IsPoison(y) \/ Undefined(op, x.v, y.v, w)
  BY <1>1, Poisons DEF Operate, Below
<1>2. CASE ~ (IsPoison(x) \/ IsPoison(y) \/ Undefined(op, x.v, y.v, w))
  <2>1. Operate(op, x, y, w) = [v |-> y.v, w |-> w]
    BY <1>2 DEF Operate
  <2>2. y = [v |-> y.v, w |-> w] /\ Operate("add", y, Zero(w), w) = y
    BY <1>2, AddsNothing
  <2> QED
    BY <2>1, <2>2 DEF Below
<1> QED
  BY <1>1, <1>2

LEMMA YieldsZero ==
  ASSUME NEW w \in WidthsOfLLVM, NEW op, NEW x, NEW y,
         ~ IsPoison(x) /\ ~ IsPoison(y) /\ ~ Undefined(op, x.v, y.v, w)
            => Signed(Compute(op, x.v, y.v, w), w) = 0
  PROVE  Below(Operate(op, x, y, w), Operate("add", Zero(w), Zero(w), w))
<1>1. Computed(Zero(w), w) /\ ~ IsPoison(Zero(w))
  <2>1. 0 \in Int /\ Signed(0, w) = 0
    BY Constants
  <2> QED
    BY <2>1, SignedComputed DEF Zero
<1>2. Operate("add", Zero(w), Zero(w), w) = Zero(w)
  BY <1>1, AddsNothing
<1> QED
  BY <1>2, Poisons DEF Operate, Below, Zero

LEMMA AddsResult ==
  ASSUME NEW e, NEW i, i.dst \in 1 .. MaxInstrs, i.w \in WidthsOfLLVM,
         NEW x \in Operand, NEW y \in Operand
  PROVE  /\ Adds(i, x, y) \in Additions /\ Adds(i, x, y).dst = i.dst /\ Adds(i, x, y).op = "add"
         /\ Result(e, Adds(i, x, y)) = Operate("add", rval(e, x, i.w), rval(e, y, i.w), i.w)
BY DEF Adds, Additions, Result

LEMMA ConstantOperands ==
  ASSUME NEW c \in Int
  PROVE  Const(c) \in Operand /\ Const(c).const = TRUE /\ Const(c).v = c
BY DEF Operand, Const

LEMMA SmallConstants == Const(0) \in Operand /\ Const(1) \in Operand
<1>1. 0 \in Int /\ 1 \in Int
  OBVIOUS
<1> QED
  BY <1>1, ConstantOperands, Zenon

\* The rule that applies.
LEMMA SimplifiedCases ==
  ASSUME NEW i \in BinaryInstrs
  PROVE  LET x == i.src1
             y == i.src2
         IN  \/ x.const /\ y.const /\ Simplified(i) = Adds(i, Const(HostFold(i.op, x.v, y.v)), Const(0))
             \/ /\ ~ (x.const /\ y.const)
                /\ \/ i.op \in {"sub", "or", "xor", "shl", "shr"} /\ y = Const(0) /\ Simplified(i) = Adds(i, x, Const(0))
                   \/ i.op \in {"mul", "div"} /\ y = Const(1) /\ Simplified(i) = Adds(i, x, Const(0))
                   \/ i.op = "mul" /\ (x = Const(0) \/ y = Const(0)) /\ Simplified(i) = Adds(i, Const(0), Const(0))
                   \/ i.op = "mul" /\ y = Const(2) /\ Simplified(i) = Adds(i, x, x)
                   \/ i.op = "mul" /\ x = Const(1) /\ Simplified(i) = Adds(i, y, Const(0))
                   \/ i.op = "and" /\ y = Const(-1) /\ Simplified(i) = Adds(i, x, Const(0))
                   \/ i.op \in {"sub", "xor"} /\ Same(x, y) /\ Simplified(i) = Adds(i, Const(0), Const(0))
                   \/ i.op \in {"and", "or"} /\ Same(x, y) /\ Simplified(i) = Adds(i, x, Const(0))
                   \/ Simplified(i) = i
BY DEF Simplified

\* The operation left over by the rule has the result of the one it replaces.
LEMMA SimplifiedBelow ==
  ASSUME NEW e \in Envs, NEW i \in BinaryInstrs, i.op \in BinOps
  PROVE  /\ Simplified(i) \in Instrs /\ Simplified(i).dst = i.dst /\ Simplified(i).op # "store"
         /\ Below(Result(e, i), Result(e, Simplified(i)))
<1> DEFINE w == i.w  x == i.src1  y == i.src2  op == i.op
           X == rval(e, x, w)  Y == rval(e, y, w)
<1>1. w \in WidthsOfLLVM /\ x \in Operand /\ y \in Operand /\ Ranged(x, w) /\ Ranged(y, w) /\ op \in BinOps
  BY DEF BinaryInstrs
<1>2. Result(e, i) = Operate(op, X, Y, w)
  BY DEF Result, BinOps
<1>3. Computed(X, w) /\ Computed(Y, w)
  BY <1>1, RvalComputed
<1>4. /\ ~ IsPoison(X) => X.v \in -Half(w) .. Half(w) - 1 /\ X.v \in Int /\ Signed(X.v, w) = X.v
      /\ ~ IsPoison(Y) => Y.v \in -Half(w) .. Half(w) - 1 /\ Y.v \in Int /\ Signed(Y.v, w) = Y.v
  BY <1>1, <1>3, SignedKeeps DEF Computed
<1>5. \A c \in Int : Const(c) \in Operand
  BY ConstantOperands
<1>6. \A c \in Int : InRange(c, w) => rval(e, Const(c), w) = [v |-> c, w |-> w]
  BY <1>1, Constants
<1>7. rval(e, Const(0), w) = Zero(w)
  BY <1>1, Constants
<1>8. /\ x.const = TRUE => X = [v |-> x.v, w |-> w]
      /\ y.const = TRUE => Y = [v |-> y.v, w |-> w]
  BY <1>1, <1>6, OperandCases DEF Ranged
<1>9. \A p, q \in Operand :
        /\ Adds(i, p, q) \in Instrs /\ Adds(i, p, q).dst = i.dst /\ Adds(i, p, q).op # "store"
        /\ Result(e, Adds(i, p, q)) = Operate("add", rval(e, p, w), rval(e, q, w), w)
  BY AddsResult DEF Instrs, BinaryInstrs
<1>10. i \in Instrs /\ i.op # "store"
  BY DEF Instrs, Emitted, BinOps
<1> HIDE DEF w, X, Y
<1> DEFINE Goal == /\ Simplified(i) \in Instrs /\ Simplified(i).dst = i.dst /\ Simplified(i).op # "store"
                   /\ Below(Result(e, i), Result(e, Simplified(i)))
<1> SUFFICES Goal
  OBVIOUS
<1>11. ASSUME NEW p \in Operand, NEW q \in Operand, Simplified(i) = Adds(i, p, q),
              Below(Operate(op, X, Y, w), Operate("add", rval(e, p, w), rval(e, q, w), w))
       PROVE  Goal
  BY <1>2, <1>9, <1>11
<1>12. Const(0) \in Operand /\ Signed(0, w) = 0 /\ 0 \in Int
  BY <1>1, <1>5, Constants
<1>13. ASSUME Simplified(i) = Adds(i, x, Const(0)),
              ~ IsPoison(X) /\ ~ IsPoison(Y) => Signed(Compute(op, X.v, Y.v, w), w) = X.v
       PROVE  Goal
  <2>1. Below(Operate(op, X, Y, w), Operate("add", X, Zero(w), w))
    BY <1>1, <1>3, <1>13, YieldsLeft
  <2>2. X = rval(e, x, w)
    BY DEF X, w
  <2> HIDE DEF Goal
  <2> QED
    BY <1>1, <1>7, <1>11, <1>12, <1>13, <2>1, <2>2
<1>14. ASSUME Simplified(i) = Adds(i, y, Const(0)),
              ~ IsPoison(X) /\ ~ IsPoison(Y) => Signed(Compute(op, X.v, Y.v, w), w) = Y.v
       PROVE  Goal
  <2>1. Below(Operate(op, X, Y, w), Operate("add", Y, Zero(w), w))
    BY <1>1, <1>3, <1>14, YieldsRight
  <2>2. Y = rval(e, y, w)
    BY DEF Y, w
  <2> HIDE DEF Goal
  <2> QED
    BY <1>1, <1>7, <1>11, <1>12, <1>14, <2>1, <2>2
<1>15. ASSUME Simplified(i) = Adds(i, Const(0), Const(0)),
              ~ IsPoison(X) /\ ~ IsPoison(Y) => Signed(Compute(op, X.v, Y.v, w), w) = 0
       PROVE  Goal
  <2>1. Below(Operate(op, X, Y, w), Operate("add", Zero(w), Zero(w), w))
    BY <1>1, <1>15, YieldsZero
  <2> HIDE DEF Goal
  <2> QED
    BY <1>7, <1>11, <1>12, <1>15, <2>1
<1>16. CASE x.const /\ y.const /\ Simplified(i) = Adds(i, Const(HostFold(op, x.v, y.v)), Const(0))
  <2> DEFINE h == HostFold(op, x.v, y.v)  H == [v |-> Signed(h, w), w |-> w]
  <2>1. x.v \in Int /\ y.v \in Int /\ x = Const(x.v) /\ y = Const(y.v)
    BY <1>1, <1>16, OperandCases
  <2>2. h \in Int
    BY <1>1, <2>1, HostFolds
  <2>3. X = [v |-> x.v, w |-> w] /\ Y = [v |-> y.v, w |-> w]
    BY <1>8, <2>1 DEF Const
  <2>4. ~ IsPoison(X) /\ ~ IsPoison(Y)
    BY <1>1, <2>3, Halves DEF IsPoison
  <2>5. Operate("add", H, Zero(w), w) = H
    BY <1>1, <2>2, SignedComputed, AddsNothing
  <2>6. Below(Operate(op, X, Y, w), H)
    <3>1. CASE Undefined(op, x.v, y.v, w)
      BY <2>3, <3>1, Poisons DEF Operate, Below
    <3>2. CASE ~ Undefined(op, x.v, y.v, w)
      <4>1. Signed(h, w) = Signed(Compute(op, x.v, y.v, w), w)
        BY <1>1, <1>4, <2>3, <2>4, <3>2, Operations
      <4>2. Operate(op, X, Y, w) = [v |-> Signed(Compute(op, x.v, y.v, w), w), w |-> w]
        BY <2>3, <2>4, <3>2 DEF Operate
      <4> QED
        BY <4>1, <4>2 DEF Below
    <3> QED
      BY <3>1, <3>2
  <2>7. Const(h) \in Operand /\ rval(e, Const(h), w) = H
    BY <1>1, <1>5, <2>2, Constants
  <2> HIDE DEF Goal, H
  <2> QED
    BY <1>7, <1>11, <1>12, <1>16, <2>5, <2>6, <2>7
<1>17. CASE op \in {"sub", "or", "xor", "shl", "shr"} /\ y = Const(0) /\ Simplified(i) = Adds(i, x, Const(0))
  <2>1. Y.v = 0
    BY <1>8, <1>17 DEF Const
  <2>2. ASSUME ~ IsPoison(X) PROVE Signed(Compute(op, X.v, 0, w), w) = X.v
    <3>1. X.v \in Int /\ Signed(X.v, w) = X.v
      BY <1>4, <2>2
    <3>2. Powers[0] = 1
      BY PowersAssumption, WidthsAssumption
    <3>3. CASE op = "sub"
      BY <3>1, <3>3 DEF Compute, BitOps
    <3>4. CASE op \in {"or", "xor"}
      <4>1. Compute(op, X.v, 0, w) = Bitwise(op, X.v, 0, w)
        BY <3>4 DEF Compute, BitOps
      <4> QED
        BY <1>1, <3>1, <3>4, <4>1, BitwiseNeutral
    <3>5. CASE op = "shl"
      BY <3>1, <3>2, <3>5 DEF Compute, BitOps
    <3>6. CASE op = "shr"
      BY <3>1, <3>2, <3>6 DEF Compute, BitOps
    <3> QED
      BY <1>17, <3>3, <3>4, <3>5, <3>6
  <2> HIDE DEF Goal
  <2> QED
    BY <1>13, <1>17, <2>1, <2>2
<1>18. CASE op \in {"mul", "div"} /\ y = Const(1) /\ Simplified(i) = Adds(i, x, Const(0))
  <2>1. Y.v = 1
    BY <1>8, <1>18 DEF Const
  <2>2. ASSUME ~ IsPoison(X) PROVE Signed(Compute(op, X.v, 1, w), w) = X.v
    <3>1. X.v \in Int /\ Signed(X.v, w) = X.v
      BY <1>4, <2>2
    <3>2. Quotient(X.v, 1) = X.v /\ X.v * 1 = X.v
      BY <3>1, Quotients
    <3> QED
      BY <1>18, <3>1, <3>2 DEF Compute, BitOps
  <2> HIDE DEF Goal
  <2> QED
    BY <1>13, <1>18, <2>1, <2>2
<1>19. CASE op = "mul" /\ (x = Const(0) \/ y = Const(0)) /\ Simplified(i) = Adds(i, Const(0), Const(0))
  <2>1. X.v = 0 \/ Y.v = 0
    BY <1>8, <1>19 DEF Const
  <2>2. ~ IsPoison(X) /\ ~ IsPoison(Y) => X.v * Y.v = 0
    BY <1>4, <2>1
  <2>3. ~ IsPoison(X) /\ ~ IsPoison(Y) => Signed(Compute(op, X.v, Y.v, w), w) = 0
    BY <1>12, <1>19, <2>2 DEF Compute, BitOps
  <2> HIDE DEF Goal
  <2> QED
    BY <1>15, <1>19, <2>3
<1>20. CASE op = "mul" /\ y = Const(2) /\ Simplified(i) = Adds(i, x, x)
  <2>1. Y.v = 2
    BY <1>8, <1>20 DEF Const
  <2>2. Below(Operate(op, X, Y, w), Operate("add", X, X, w))
    <3>1. CASE IsPoison(X) \/ IsPoison(Y)
      BY <3>1, Poisons DEF Operate, Below
    <3>2. CASE ~ IsPoison(X) /\ ~ IsPoison(Y)
      <4>1. X.v * 2 = X.v + X.v
        BY <1>4, <3>2
      <4>2. ~ Undefined("add", X.v, X.v, w) /\ Compute("add", X.v, X.v, w) = X.v + X.v
        BY DEF Undefined, Compute, BitOps
      <4>3. Compute(op, X.v, Y.v, w) = X.v * 2 /\ ~ Undefined(op, X.v, Y.v, w)
        BY <1>20, <2>1 DEF Compute, BitOps, Undefined
      <4> QED
        BY <3>2, <4>1, <4>2, <4>3 DEF Operate, Below
    <3> QED
      BY <3>1, <3>2
  <2>3. X = rval(e, x, w)
    BY DEF X, w
  <2> HIDE DEF Goal
  <2> QED
    BY <1>1, <1>11, <1>20, <2>2, <2>3
<1>21. CASE op = "mul" /\ x = Const(1) /\ Simplified(i) = Adds(i, y, Const(0))
  <2>1. X.v = 1
    BY <1>8, <1>21 DEF Const
  <2>2. ASSUME ~ IsPoison(Y) PROVE Signed(Compute(op, 1, Y.v, w), w) = Y.v
    <3>1. Y.v \in Int /\ Signed(Y.v, w) = Y.v
      BY <1>4, <2>2
    <3>2. 1 * Y.v = Y.v
      BY <3>1
    <3> QED
      BY <1>21, <3>1, <3>2 DEF Compute, BitOps
  <2> HIDE DEF Goal
  <2> QED
    BY <1>14, <1>21, <2>1, <2>2
<1>22. CASE op = "and" /\ y = Const(-1) /\ Simplified(i) = Adds(i, x, Const(0))
  <2>1. Y.v = -1
    BY <1>8, <1>22 DEF Const
  <2>2. ASSUME ~ IsPoison(X) PROVE Signed(Compute(op, X.v, -1, w), w) = X.v
    <3>1. X.v \in Int /\ Signed(X.v, w) = X.v
      BY <1>4, <2>2
    <3>2. Compute(op, X.v, -1, w) = Bitwise("and", X.v, -1, w)
      BY <1>22 DEF Compute, BitOps
    <3> QED
      BY <1>1, <3>1, <3>2, BitwiseNeutral
  <2> HIDE DEF Goal
  <2> QED
    BY <1>13, <1>22, <2>1, <2>2
<1>23. CASE op \in {"sub", "xor"} /\ Same(x, y) /\ Simplified(i) = Adds(i, Const(0), Const(0))
  <2>1. X = Y
    BY <1>23 DEF Same, X, Y
  <2>2. ASSUME ~ IsPoison(X) PROVE Signed(Compute(op, X.v, X.v, w), w) = 0
    <3>1. X.v \in Int
      BY <1>4, <2>2
    <3>2. X.v - X.v = 0 /\ Bitwise("xor", X.v, X.v, w) = 0
      BY <1>1, <3>1, BitwiseNeutral
    <3> QED
      BY <1>12, <1>23, <3>2 DEF Compute, BitOps
  <2> HIDE DEF Goal
  <2> QED
    BY <1>15, <1>23, <2>1, <2>2
<1>24. CASE op \in {"and", "or"} /\ Same(x, y) /\ Simplified(i) = Adds(i, x, Const(0))
  <2>1. X = Y
    BY <1>24 DEF Same, X, Y
  <2>2. ASSUME ~ IsPoison(X) PROVE Signed(Compute(op, X.v, X.v, w), w) = X.v
    <3>1. X.v \in Int /\ Signed(X.v, w) = X.v
      BY <1>4, <2>2
    <3>2. Compute(op, X.v, X.v, w) = Bitwise(op, X.v, X.v, w)
      BY <1>24 DEF Compute, BitOps
    <3> QED
      BY <1>1, <1>24, <3>1, <3>2, BitwiseNeutral
  <2> HIDE DEF Goal
  <2> QED
    BY <1>13, <1>24, <2>1, <2>2
<1>25. CASE Simplified(i) = i
  BY <1>10, <1>25 DEF Below
<1> HIDE DEF Goal
<1> QED
  BY <1>16, <1>17, <1>18, <1>19, <1>20, <1>21, <1>22, <1>23, <1>24, <1>25, SimplifiedCases

-----------------------------------------------------------------------------
\* An instruction at a time, with the constants known.

DefSet == {d \in UNION {[S -> Int] : S \in SUBSET Slots} :
             \A s \in DOMAIN d : InRange(d[s], WidthOf[s])}
Known(e, d) == \A s \in DOMAIN d : e.slots[s] = [v |-> d[s], w |-> WidthOf[s]]

LEMMA SlotWidths == \A s \in Slots : WidthOf[s] \in WidthsOfLLVM
BY WidthsAssumption DEF WidthsOfLLVM

LEMMA DefsOf ==
  ASSUME NEW d
  PROVE  d \in DefSet <=> /\ d = [s \in DOMAIN d |-> d[s]]
                          /\ \A s \in DOMAIN d : s \in Slots /\ d[s] \in Int /\ InRange(d[s], WidthOf[s])
BY DEF DefSet

LEMMA NothingKnown ==
  ASSUME NEW e
  PROVE  NoDefs \in DefSet /\ Known(e, NoDefs)
<1>1. NoDefs = [s \in DOMAIN NoDefs |-> NoDefs[s]] /\ DOMAIN NoDefs = {}
  BY DEF NoDefs
<1> QED
  BY <1>1, DefsOf DEF Known

LEMMA LearnDefs ==
  ASSUME NEW d \in DefSet, NEW i \in Instrs
  PROVE  Learn(d, i) \in DefSet
<1>1. CASE i.op # "store"
  BY <1>1 DEF Learn
<1>2. CASE i \in StoreInstrs
  <2>1. /\ i.slot \in Slots /\ i.op = "store" /\ i.src1 \in Operand
        /\ i.src1.const => i.src1.v \in Int /\ InRange(i.src1.v, WidthOf[i.slot])
    BY <1>2, OperandCases DEF StoreInstrs, Ranged
  <2>2. CASE i.src1.const
    <3> DEFINE D == [t \in DOMAIN d \union {i.slot} |-> IF t = i.slot THEN i.src1.v ELSE d[t]]
    <3>1. D \in DefSet
      BY <2>1, <2>2, DefsOf
    <3>2. Learn(d, i) \in {d, D}
      BY <2>1, <2>2 DEF Learn, def_set
    <3> QED
      BY <3>1, <3>2
  <2>3. CASE ~ i.src1.const
    <3> DEFINE D == [t \in DOMAIN d \ {i.slot} |-> d[t]]
    <3>1. D \in DefSet
      BY DefsOf
    <3>2. Learn(d, i) = D
      BY <2>1, <2>3 DEF Learn, def_kill
    <3> QED
      BY <3>1, <3>2
  <2> QED
    BY <2>2, <2>3
<1> QED
  BY <1>1, <1>2, InstrCases DEF BinOps

\* What defs holds is what the slots hold.
LEMMA LearnKnown ==
  ASSUME NEW e \in Envs, NEW d \in DefSet, Known(e, d), NEW i \in Instrs
  PROVE  Known(Execute(e, i), Learn(d, i))
<1>1. CASE i.op # "store"
  <2>1. Execute(e, i).slots = e.slots
    BY <1>1, ExecuteResult DEF Envs
  <2> QED
    BY <1>1, <2>1 DEF Learn, Known
<1>2. CASE i \in StoreInstrs
  <2> DEFINE x == i.src1  s == i.slot  r == rval(e, x, i.w)
  <2>1. /\ s \in Slots /\ i.op = "store" /\ x \in Operand /\ i.w = WidthOf[s]
        /\ i.w \in WidthsOfLLVM /\ Ranged(x, i.w)
    BY <1>2 DEF StoreInstrs
  <2>2. Execute(e, i) = [e EXCEPT !.slots[s] = r]
    BY <1>2, ExecuteStores
  <2>3. /\ Execute(e, i).slots[s] = r
        /\ \A t \in Slots : t # s => Execute(e, i).slots[t] = e.slots[t]
    BY <2>1, <2>2 DEF Envs
  <2> HIDE DEF r
  <2>4. \A t \in DOMAIN d : t \in Slots
    BY DefsOf
  <2>5. CASE x.const
    <3>1. x.v \in Int /\ x = Const(x.v) /\ InRange(x.v, i.w)
      BY <2>1, <2>5, OperandCases DEF Ranged
    <3>2. r = [v |-> x.v, w |-> WidthOf[s]]
      BY <2>1, <3>1, Constants DEF r
    <3> DEFINE D == [t \in DOMAIN d \union {s} |-> IF t = s THEN x.v ELSE d[t]]
    <3>3. Known(Execute(e, i), D)
      BY <2>1, <2>3, <2>4, <3>2 DEF Known
    <3>4. CASE s \in DOMAIN d \/ Cardinality(DOMAIN d) < MAX_DEFS
      BY <2>1, <2>5, <3>3, <3>4 DEF Learn, def_set
    <3>5. CASE ~ (s \in DOMAIN d \/ Cardinality(DOMAIN d) < MAX_DEFS)
      <4>1. Learn(d, i) = d
        BY <2>1, <2>5, <3>5 DEF Learn, def_set
      <4> QED
        BY <2>3, <2>4, <3>5, <4>1 DEF Known
    <3> QED
      BY <3>4, <3>5
  <2>6. CASE ~ x.const
    <3>1. Learn(d, i) = [t \in DOMAIN d \ {s} |-> d[t]]
      BY <2>1, <2>6 DEF Learn, def_kill
    <3> QED
      BY <2>3, <2>4, <3>1 DEF Known
  <2> QED
    BY <2>5, <2>6
<1> QED
  BY <1>1, <1>2, InstrCases DEF BinOps

LEMMA ReplacesResult ==
  ASSUME NEW e \in Envs, NEW i \in Instrs, NEW j \in Instrs,
         i.op # "store", j.op # "store", i.dst = j.dst, Below(Result(e, i), Result(e, j))
  PROVE  EnvBelow(Execute(e, i), Execute(e, j))
<1>1. Result(e, i) \in Registers /\ Result(e, j) \in Registers /\ i.dst \in 1 .. MaxInstrs
  BY InstrCases, ResultIsRegister
<1> QED
  BY <1>1, EnvBelowItself, WritesTemp, ExecuteResult

LEMMA FoldInstrCases ==
  ASSUME NEW d, NEW i \in Emitted
  PROVE  \/ i \in LoadInstrs /\ i.slot \in DOMAIN d /\ FoldInstr(d, i) = Adds(i, Const(d[i.slot]), Const(0))
         \/ i \in BinaryInstrs /\ i.op \in BinOps /\ FoldInstr(d, i) = Simplified(i)
         \/ FoldInstr(d, i) = i
<1>1. CASE i \in StoreInstrs \union SextInstrs
  BY <1>1 DEF FoldInstr, StoreInstrs, SextInstrs, BinOps
<1>2. CASE i \in LoadInstrs
  BY <1>2 DEF FoldInstr, LoadInstrs, BinOps
<1>3. CASE i \in BinaryInstrs
  BY <1>3 DEF FoldInstr, BinaryInstrs, BinOps
<1> QED
  BY <1>1, <1>2, <1>3 DEF Emitted

LEMMA FoldInstrBelow ==
  ASSUME NEW e \in Envs, NEW d \in DefSet, Known(e, d), NEW i \in Emitted
  PROVE  FoldInstr(d, i) \in Instrs /\ EnvBelow(Execute(e, i), Execute(e, FoldInstr(d, i)))
<1> DEFINE j == FoldInstr(d, i)
<1>1. CASE i \in LoadInstrs /\ i.slot \in DOMAIN d /\ j = Adds(i, Const(d[i.slot]), Const(0))
  <2> DEFINE c == d[i.slot]  w == i.w  H == [v |-> c, w |-> w]
  <2>1. /\ c \in Int /\ InRange(c, w) /\ w \in WidthsOfLLVM /\ w = WidthOf[i.slot]
        /\ i.op = "load" /\ i.dst \in 1 .. MaxInstrs
    BY <1>1, DefsOf DEF LoadInstrs
  <2>2. e.slots[i.slot] = H
    BY <1>1, <2>1 DEF Known
  <2>3. Signed(c, w) = c
    BY <2>1 DEF InRange
  <2>4. Computed(H, w) /\ ~ IsPoison(H)
    BY <2>1, <2>3, SignedComputed
  <2>5. Result(e, i) = H
    BY <2>1, <2>2, <2>3, <2>4 DEF Result, coerce_v
  <2>6. Const(c) \in Operand /\ Const(0) \in Operand /\ rval(e, Const(c), w) = H /\ rval(e, Const(0), w) = Zero(w)
    <3>1. Const(c) \in Operand /\ Const(0) \in Operand
      BY <2>1, ConstantOperands, SmallConstants
    <3>2. rval(e, Const(c), w) = [v |-> Signed(c, w), w |-> w] /\ rval(e, Const(0), w) = Zero(w)
      BY <2>1, Constants
    <3> QED
      BY <3>1, <3>2, <2>3
  <2>7. /\ j \in Additions /\ j.dst = i.dst /\ j.op = "add"
        /\ Result(e, j) = Operate("add", H, Zero(w), w)
    BY <1>1, <2>1, <2>6, AddsResult
  <2>8. Result(e, j) = H
    BY <2>1, <2>4, <2>7, AddsNothing
  <2> HIDE DEF j, H, w, c
  <2> QED
    BY <2>1, <2>5, <2>7, <2>8, ReplacesResult DEF Instrs, Below, j
<1>2. CASE i \in BinaryInstrs /\ i.op \in BinOps /\ j = Simplified(i)
  <2>1. i.op # "store" /\ i \in Instrs
    BY <1>2 DEF BinOps, Instrs
  <2> HIDE DEF j
  <2> QED
    BY <1>2, <2>1, SimplifiedBelow, ReplacesResult DEF j
<1>3. CASE j = i
  BY <1>3, EnvBelowItself DEF Instrs
<1> QED
  BY <1>1, <1>2, <1>3, FoldInstrCases

LEMMA PeepholeInstrBelow ==
  ASSUME NEW e \in Envs, NEW i \in Instrs
  PROVE  PeepholeInstr(i) \in Instrs /\ EnvBelow(Execute(e, i), Execute(e, PeepholeInstr(i)))
<1> DEFINE j == PeepholeInstr(i)
<1>1. CASE i.op = "sext" /\ i.src1.const
  <2> DEFINE c == i.src1.v  w == i.w  H == [v |-> Signed(c, w), w |-> w]
  <2>1. /\ i \in SextInstrs /\ i.src1 \in Operand /\ c \in Int /\ i.src1 = Const(c)
        /\ InRange(c, i.from) /\ i.from \in WidthsOfLLVM /\ w \in WidthsOfLLVM
        /\ i.dst \in 1 .. MaxInstrs
    BY <1>1, InstrCases, OperandCases DEF SextInstrs, Ranged, BinOps
  <2>2. j = Adds(i, i.src1, Const(0))
    BY <1>1 DEF PeepholeInstr
  <2>3. rval(e, i.src1, i.from) = [v |-> c, w |-> i.from] /\ i.from # 0
    BY <2>1, Constants, Halves
  <2>4. Result(e, i) = H
    BY <1>1, <2>3 DEF Result, coerce_v, IsPoison
  <2>5. Const(0) \in Operand /\ rval(e, i.src1, w) = H /\ rval(e, Const(0), w) = Zero(w)
    <3>1. Const(0) \in Operand
      BY SmallConstants
    <3>2. rval(e, Const(c), w) = H /\ rval(e, Const(0), w) = Zero(w)
      BY <2>1, Constants
    <3> QED
      BY <2>1, <3>1, <3>2
  <2>6. /\ j \in Additions /\ j.dst = i.dst /\ j.op = "add"
        /\ Result(e, j) = Operate("add", H, Zero(w), w)
    BY <2>1, <2>2, <2>5, AddsResult
  <2>7. Computed(H, w) /\ ~ IsPoison(H)
    BY <2>1, SignedComputed
  <2>8. Result(e, j) = H
    BY <2>1, <2>6, <2>7, AddsNothing
  <2> HIDE DEF j, H, w, c
  <2> QED
    BY <1>1, <2>1, <2>4, <2>6, <2>8, ReplacesResult DEF Instrs, Below, j
<1>2. CASE i.op = "icmp" /\ Same(i.src1, i.src2)
  <2> DEFINE H == [v |-> -1, w |-> 1]  a == [i EXCEPT !.w = 1]
  <2>1. i \in BinaryInstrs /\ i.src1 = i.src2 /\ i.dst \in 1 .. MaxInstrs
    BY <1>2, InstrCases DEF Same, BinOps
  <2>2. j = [op |-> "add", dst |-> i.dst, w |-> 1, src1 |-> Const(1), src2 |-> Const(0)]
    BY <1>2 DEF PeepholeInstr, Adds
  <2>3. Below(Result(e, i), H)
    BY <1>2, <2>1, Poisons DEF Result, Below
  <2>4. 1 \in WidthsOfLLVM /\ Signed(1, 1) = -1
    <3>1. 1 \in WidthsOfLLVM
      BY WidthsAssumption DEF WidthsOfLLVM
    <3>2. Powers[0] = 1 /\ Powers[1] = 2
      BY WidthsAssumption, PowersAssumption
    <3>3. Signed(1, 1) = ((1 + 1) % 2) - 1
      BY <3>2 DEF Signed, Half
    <3> QED
      BY <3>1, <3>3
  <2>5. /\ Const(1) \in Operand /\ Const(0) \in Operand
        /\ rval(e, Const(1), 1) = H /\ rval(e, Const(0), 1) = Zero(1)
    <3>1. Const(1) \in Operand /\ Const(0) \in Operand
      BY SmallConstants
    <3>2. rval(e, Const(1), 1) = [v |-> Signed(1, 1), w |-> 1] /\ rval(e, Const(0), 1) = Zero(1)
      BY <2>4, Constants
    <3> QED
      BY <2>4, <3>1, <3>2
  <2>6. /\ j \in Additions /\ j.dst = i.dst /\ j.op = "add"
        /\ Result(e, j) = Operate("add", H, Zero(1), 1)
    <3>1. j \in Additions /\ j.dst = i.dst /\ j.op = "add" /\ j.w = 1
      BY <2>1, <2>2, <2>4, <2>5 DEF Additions
    <3>2. Result(e, j) = Operate("add", rval(e, Const(1), 1), rval(e, Const(0), 1), 1)
      BY <2>2 DEF Result
    <3> QED
      BY <2>5, <3>1, <3>2
  <2>7. Computed(H, 1) /\ ~ IsPoison(H)
    BY <2>4, SignedComputed, 1 \in Int
  <2>8. Result(e, j) = H
    BY <2>4, <2>6, <2>7, AddsNothing
  <2> HIDE DEF j, H
  <2> QED
    BY <1>2, <2>1, <2>3, <2>6, <2>8, ReplacesResult DEF Instrs, j
<1>3. CASE ~ (i.op = "sext" /\ i.src1.const) /\ ~ (i.op = "icmp" /\ Same(i.src1, i.src2))
  <2>1. j = i
    BY <1>3 DEF PeepholeInstr
  <2> QED
    BY <2>1, EnvBelowItself
<1> QED
  BY <1>1, <1>2, <1>3

\* What is folded once is left as it is.
LEMMA AddsStays ==
  ASSUME NEW d, NEW i, NEW x, NEW y, x.const = FALSE
  PROVE  FoldInstr(d, Adds(i, x, y)) = Adds(i, x, y)
BY DEF Adds, FoldInstr, BinOps, Simplified

LEMMA AddsConstantStays ==
  ASSUME NEW d, NEW i, NEW h \in Int, Host(h) = h
  PROVE  FoldInstr(d, Adds(i, Const(h), Const(0))) = Adds(i, Const(h), Const(0))
<1> DEFINE j == Adds(i, Const(h), Const(0))
<1>1. j.op = "add" /\ j.src1 = Const(h) /\ j.src2 = Const(0)
  BY DEF Adds
<1>2. FoldInstr(d, j) = Simplified(j)
  BY <1>1 DEF FoldInstr, BinOps
<1>3. HostFold("add", h, 0) = Host(h + 0) /\ h + 0 = h
  BY DEF HostFold, Compute, BitOps
<1>4. Simplified(j) = Adds(j, Const(HostFold("add", h, 0)), Const(0))
  <2>1. /\ Const(h).const = TRUE /\ Const(h).v = h
        /\ Const(0).const = TRUE /\ Const(0).v = 0
    BY DEF Const
  <2> HIDE DEF j
  <2> QED
    BY <1>1, <2>1 DEF Simplified
<1>5. Adds(j, Const(h), Const(0)) = j
  BY DEF Adds
<1> QED
  BY <1>2, <1>3, <1>4, <1>5

LEMMA HostKeeps ==
  ASSUME NEW c \in Int, NEW w \in WidthsOfLLVM, InRange(c, w)
  PROVE  Host(c) = c
<1>1. HostWidth \in WidthsOfLLVM /\ w <= HostWidth /\ w \in Nat /\ HostWidth \in Nat
  BY WidthsAssumption, Halves DEF WidthsOfLLVM
<1>2. Half(w) \in Nat \ {0} /\ Half(HostWidth) \in Nat \ {0} /\ Half(w) <= Half(HostWidth)
  <2> DEFINE n == HostWidth - w  m == w - 1
  <2>1. n \in Nat /\ m \in Nat /\ m + n = HostWidth - 1 /\ m + n <= HostWidth /\ n \in 0 .. HostWidth
    BY <1>1, Halves
  <2>2. Powers[m + n] = Powers[m] * Powers[n]
    BY <2>1, PowersProduct
  <2>3. Powers[n] \in Nat \ {0}
    BY <2>1, PowersPositive
  <2>4. Half(w) \in Nat \ {0} /\ Half(HostWidth) \in Nat \ {0}
    BY <1>1, Halves
  <2>5. Half(w) = Powers[m] /\ Half(HostWidth) = Powers[m + n]
    BY <2>1 DEF Half
  <2> DEFINE a == Half(w)  b == Half(HostWidth)  p == Powers[n]
  <2>6. a \in Nat \ {0} /\ p \in Nat \ {0} /\ b = a * p
    BY <2>2, <2>3, <2>4, <2>5
  <2> HIDE DEF a, b, p
  <2>7. a <= b
    BY <2>6
  <2> QED
    BY <2>4, <2>7 DEF a, b
<1>3. c \in -Half(w) .. Half(w) - 1
  BY SignedRange DEF InRange
<1>4. c \in -Half(HostWidth) .. Half(HostWidth) - 1
  BY <1>2, <1>3
<1> QED
  BY <1>1, <1>4, SignedKeeps DEF Host

LEMMA FoldInstrTwice ==
  ASSUME NEW d \in DefSet, NEW i \in Emitted
  PROVE  FoldInstr(d, FoldInstr(d, i)) = FoldInstr(d, i)
<1>1. Host(0) = 0
  <2>1. HostWidth \in WidthsOfLLVM
    BY WidthsAssumption DEF WidthsOfLLVM
  <2> QED
    BY <2>1, Constants DEF Host
<1>2. CASE i \in LoadInstrs /\ i.slot \in DOMAIN d /\ FoldInstr(d, i) = Adds(i, Const(d[i.slot]), Const(0))
  <2> DEFINE c == d[i.slot]
  <2>1. c \in Int /\ InRange(c, WidthOf[i.slot]) /\ WidthOf[i.slot] \in WidthsOfLLVM
    BY <1>2, DefsOf, SlotWidths
  <2> HIDE DEF c
  <2>2. Host(c) = c
    BY <2>1, HostKeeps
  <2>3. FoldInstr(d, Adds(i, Const(c), Const(0))) = Adds(i, Const(c), Const(0))
    BY <2>1, <2>2, AddsConstantStays
  <2> QED
    BY <1>2, <2>3 DEF c
<1>3. CASE i \in BinaryInstrs /\ i.op \in BinOps /\ FoldInstr(d, i) = Simplified(i)
  <2> DEFINE x == i.src1  y == i.src2  j == Simplified(i)
  <2>1. x \in Operand /\ y \in Operand
    BY <1>3 DEF BinaryInstrs
  <2>2. /\ x.const = TRUE \/ x.const = FALSE
        /\ y.const = TRUE \/ y.const = FALSE
    BY <2>1, OperandCases
  <2>3. CASE x.const /\ y.const /\ j = Adds(i, Const(HostFold(i.op, x.v, y.v)), Const(0))
    <3> DEFINE h == HostFold(i.op, x.v, y.v)
    <3>1. h \in Int /\ Host(h) = h
      BY <1>3, <2>1, <2>3, OperandCases, HostFolds
    <3> HIDE DEF h
    <3>2. FoldInstr(d, Adds(i, Const(h), Const(0))) = Adds(i, Const(h), Const(0))
      BY <3>1, AddsConstantStays
    <3> QED
      BY <1>3, <2>3, <3>2 DEF h
  <2>4. ASSUME NEW q, j = Adds(i, x, q), x.const = FALSE
        PROVE  FoldInstr(d, j) = j
    <3>1. FoldInstr(d, Adds(i, x, q)) = Adds(i, x, q)
      BY <2>4, AddsStays
    <3> QED
      BY <2>4, <3>1
  <2>5. ASSUME j = Adds(i, y, Const(0)), y.const = FALSE
        PROVE  FoldInstr(d, j) = j
    <3>1. FoldInstr(d, Adds(i, y, Const(0))) = Adds(i, y, Const(0))
      BY <2>5, AddsStays
    <3> QED
      BY <2>5, <3>1
  <2>6. ASSUME j = Adds(i, Const(0), Const(0))
        PROVE  FoldInstr(d, j) = j
    <3>1. FoldInstr(d, Adds(i, Const(0), Const(0))) = Adds(i, Const(0), Const(0))
      <4>1. 0 \in Int
        OBVIOUS
      <4> QED
        BY <1>1, <4>1, AddsConstantStays, Zenon
    <3> QED
      BY <2>6, <3>1
  <2>7. ASSUME j = i PROVE FoldInstr(d, j) = j
    BY <1>3, <2>7
  <2>8. /\ \A c : x = Const(c) => x.const = TRUE
        /\ \A c : y = Const(c) => y.const = TRUE
        /\ Same(x, y) => x.const = FALSE
    BY <2>2 DEF Const, Same
  <2>9. ASSUME ~ (x.const /\ y.const) PROVE FoldInstr(d, j) = j
    <3> HIDE DEF j
    <3>1. CASE y.const = TRUE
      <4>1. x.const = FALSE
        BY <2>2, <2>9, <3>1
      <4> QED
        BY <1>3, <2>4, <2>6, <2>7, <2>8, <2>9, <3>1, <4>1, SimplifiedCases DEF j
    <3>2. CASE y.const = FALSE
      <4>1. \A c : y # Const(c)
        BY <2>8, <3>2
      <4> QED
        BY <1>3, <2>4, <2>5, <2>6, <2>7, <2>8, <2>9, <4>1, <3>2, SimplifiedCases DEF j
    <3> QED
      BY <2>2, <3>1, <3>2
  <2> QED
    BY <1>3, <2>3, <2>9, SimplifiedCases
<1>4. CASE FoldInstr(d, i) = i
  BY <1>4
<1> QED
  BY <1>2, <1>3, <1>4, FoldInstrCases

-----------------------------------------------------------------------------
\* Blocks.

LEMMA ThroughDefined ==
  ASSUME NEW e \in Envs, NEW b \in Seq(Instrs)
  PROVE  /\ Through(e, b) \in [0 .. Len(b) -> Envs]
         /\ Through(e, b)[0] = e
         /\ \A k \in 1 .. Len(b) : Through(e, b)[k] = Execute(Through(e, b)[k - 1], b[k])
<1> DEFINE n == Len(b)
           P(after) == after = [k \in 0 .. n |-> IF k = 0 THEN e ELSE Execute(after[k - 1], b[k])]
           F == [p \in Envs \X (1 .. n) |-> Execute(p[1], b[p[2]])]
<1>1. n \in Nat /\ \A k \in 1 .. n : b[k] \in Instrs
  OBVIOUS
<1> HIDE DEF n
<1>2. F \in [Envs \X (1 .. n) -> Envs]
  BY <1>1, ExecuteType
<1>3. PICK f \in [0 .. n -> Envs] : Unrolls(f, e, F, n)
  <2> HIDE DEF F
  <2> QED
    BY <1>1, <1>2, Unrolling
<1>4. P(f)
  <2>1. f[0] = e /\ \A k \in 1 .. n : f[k] = F[<<f[k - 1], k>>]
    BY <1>3 DEF Unrolls
  <2>2. ASSUME NEW k \in 1 .. n PROVE f[k] = Execute(f[k - 1], b[k])
    <3>1. f[k - 1] \in Envs /\ <<f[k - 1], k>> \in Envs \X (1 .. n)
      BY <1>1, <1>3
    <3>2. F[<<f[k - 1], k>>] = Execute(f[k - 1], b[k])
      BY <3>1
    <3> QED
      BY <2>1, <3>2
  <2> QED
    BY <1>1, <1>3, <2>1, <2>2
<1> DEFINE T == CHOOSE after : P(after)
<1>5. P(T)
  <2> HIDE DEF P
  <2> QED
    BY <1>4
<1>6. Through(e, b) = T
  BY DEF Through, n
<1> HIDE DEF T
<1>7. T[0] = e /\ \A k \in 1 .. n : T[k] = Execute(T[k - 1], b[k])
  BY <1>1, <1>5
<1>8. T \in [0 .. n -> Envs]
  <2> DEFINE S == {k \in Nat : k <= n => T[k] \in Envs}
  <2>1. 0 \in S
    BY <1>7
  <2>2. ASSUME NEW k \in Nat, k \in S PROVE k + 1 \in S
    <3> SUFFICES ASSUME k + 1 <= n PROVE T[k + 1] \in Envs
      OBVIOUS
    <3>1. k + 1 \in 1 .. n /\ (k + 1) - 1 = k /\ T[k] \in Envs
      BY <1>1, <2>2
    <3>2. T[k + 1] = Execute(T[k], b[k + 1]) /\ b[k + 1] \in Instrs
      BY <1>1, <1>7, <3>1
    <3> QED
      BY <3>1, <3>2, ExecuteType
  <2> HIDE DEF S
  <2>3. \A k \in Nat : k \in S
    BY <2>1, <2>2, Induction
  <2>4. \A k \in 0 .. n : T[k] \in Envs
    BY <1>1, <2>3 DEF S
  <2>5. T = [k \in 0 .. n |-> T[k]]
    BY <1>5
  <2> QED
    BY <2>4, <2>5
<1> QED
  BY <1>6, <1>7, <1>8 DEF n

LEMMA DefsDefined ==
  ASSUME NEW b \in Seq(Instrs)
  PROVE  /\ Defs(b) \in [0 .. Len(b) -> DefSet]
         /\ Defs(b)[0] = NoDefs
         /\ \A k \in 1 .. Len(b) : Defs(b)[k] = Learn(Defs(b)[k - 1], b[k])
<1> DEFINE n == Len(b)
           P(defs) == defs = [k \in 0 .. n |-> IF k = 0 THEN NoDefs ELSE Learn(defs[k - 1], b[k])]
           F == [p \in DefSet \X (1 .. n) |-> Learn(p[1], b[p[2]])]
<1>1. n \in Nat /\ (\A k \in 1 .. n : b[k] \in Instrs) /\ NoDefs \in DefSet
  BY NothingKnown
<1> HIDE DEF n
<1>2. F \in [DefSet \X (1 .. n) -> DefSet]
  BY <1>1, LearnDefs
<1>3. PICK f \in [0 .. n -> DefSet] : Unrolls(f, NoDefs, F, n)
  <2> HIDE DEF F
  <2> QED
    BY <1>1, <1>2, Unrolling
<1>4. P(f)
  <2>1. f[0] = NoDefs /\ \A k \in 1 .. n : f[k] = F[<<f[k - 1], k>>]
    BY <1>3 DEF Unrolls
  <2>2. ASSUME NEW k \in 1 .. n PROVE f[k] = Learn(f[k - 1], b[k])
    <3>1. f[k - 1] \in DefSet /\ <<f[k - 1], k>> \in DefSet \X (1 .. n)
      BY <1>1, <1>3
    <3>2. F[<<f[k - 1], k>>] = Learn(f[k - 1], b[k])
      BY <3>1
    <3> QED
      BY <2>1, <3>2
  <2> QED
    BY <1>1, <1>3, <2>1, <2>2
<1> DEFINE T == CHOOSE defs : P(defs)
<1>5. P(T)
  <2> HIDE DEF P
  <2> QED
    BY <1>4
<1>6. Defs(b) = T
  BY DEF Defs, n
<1> HIDE DEF T
<1>7. T[0] = NoDefs /\ \A k \in 1 .. n : T[k] = Learn(T[k - 1], b[k])
  BY <1>1, <1>5
<1>8. T \in [0 .. n -> DefSet]
  <2> DEFINE S == {k \in Nat : k <= n => T[k] \in DefSet}
  <2>1. 0 \in S
    BY <1>1, <1>7
  <2>2. ASSUME NEW k \in Nat, k \in S PROVE k + 1 \in S
    <3> SUFFICES ASSUME k + 1 <= n PROVE T[k + 1] \in DefSet
      OBVIOUS
    <3>1. k + 1 \in 1 .. n /\ (k + 1) - 1 = k /\ T[k] \in DefSet
      BY <1>1, <2>2
    <3>2. T[k + 1] = Learn(T[k], b[k + 1]) /\ b[k + 1] \in Instrs
      BY <1>1, <1>7, <3>1
    <3> QED
      BY <3>1, <3>2, LearnDefs
  <2> HIDE DEF S
  <2>3. \A k \in Nat : k \in S
    BY <2>1, <2>2, Induction
  <2>4. \A k \in 0 .. n : T[k] \in DefSet
    BY <1>1, <2>3 DEF S
  <2>5. T = [k \in 0 .. n |-> T[k]]
    BY <1>5
  <2> QED
    BY <2>4, <2>5
<1> QED
  BY <1>6, <1>7, <1>8 DEF n

\* A block leaves what the other leaves, where that is defined.
Refines(b, c) ==
  \A e, f \in Envs : EnvBelow(e, f) => /\ RunBlock(e, b) \in Envs /\ RunBlock(f, c) \in Envs
                                       /\ EnvBelow(RunBlock(e, b), RunBlock(f, c))

LEMMA BlocksRefine ==
  ASSUME NEW b \in Seq(Instrs), NEW c \in Seq(Instrs), Len(c) = Len(b),
         \A k \in 1 .. Len(b) : \A e \in Envs :
           Known(e, Defs(b)[k - 1]) => EnvBelow(Execute(e, b[k]), Execute(e, c[k]))
  PROVE  Refines(b, c)
<1> SUFFICES ASSUME NEW e \in Envs, NEW f \in Envs, EnvBelow(e, f)
             PROVE  /\ RunBlock(e, b) \in Envs /\ RunBlock(f, c) \in Envs
                    /\ EnvBelow(RunBlock(e, b), RunBlock(f, c))
  BY DEF Refines
<1> DEFINE n == Len(b)  T == Through(e, b)  U == Through(f, c)  D == Defs(b)
           S == {k \in Nat : k <= n => Known(T[k], D[k]) /\ EnvBelow(T[k], U[k])}
<1>1. n \in Nat /\ Len(c) = n /\ \A k \in 1 .. n : b[k] \in Instrs /\ c[k] \in Instrs
  OBVIOUS
<1>2. /\ T \in [0 .. n -> Envs] /\ T[0] = e
      /\ \A k \in 1 .. n : T[k] = Execute(T[k - 1], b[k])
  BY ThroughDefined
<1>3. /\ U \in [0 .. n -> Envs] /\ U[0] = f
      /\ \A k \in 1 .. n : U[k] = Execute(U[k - 1], c[k])
  BY ThroughDefined
<1>4. /\ D \in [0 .. n -> DefSet] /\ D[0] = NoDefs
      /\ \A k \in 1 .. n : D[k] = Learn(D[k - 1], b[k])
  BY DefsDefined
<1>5. RunBlock(e, b) = T[n] /\ RunBlock(f, c) = U[n]
  BY <1>1 DEF RunBlock
<1>6. \A k \in 1 .. n : \A g \in Envs : Known(g, D[k - 1]) => EnvBelow(Execute(g, b[k]), Execute(g, c[k]))
  OBVIOUS
<1> HIDE DEF n, T, U, D
<1>7. 0 \in S
  BY <1>2, <1>3, <1>4, NothingKnown
<1>8. ASSUME NEW k \in Nat, k \in S PROVE k + 1 \in S
  <2> SUFFICES ASSUME k + 1 <= n PROVE Known(T[k + 1], D[k + 1]) /\ EnvBelow(T[k + 1], U[k + 1])
    OBVIOUS
  <2> DEFINE m == k + 1
  <2>1. m \in 1 .. n /\ m - 1 = k /\ k \in 0 .. n /\ Known(T[k], D[k]) /\ EnvBelow(T[k], U[k])
    BY <1>1, <1>8
  <2> HIDE DEF m
  <2>2. T[k] \in Envs /\ U[k] \in Envs /\ D[k] \in DefSet /\ b[m] \in Instrs /\ c[m] \in Instrs
    BY <1>1, <1>2, <1>3, <1>4, <2>1
  <2>3. T[m] = Execute(T[k], b[m]) /\ U[m] = Execute(U[k], c[m]) /\ D[m] = Learn(D[k], b[m])
    BY <1>2, <1>3, <1>4, <2>1
  <2>4. Known(T[m], D[m])
    BY <2>1, <2>2, <2>3, LearnKnown
  <2>5. EnvBelow(Execute(T[k], b[m]), Execute(T[k], c[m]))
    BY <1>6, <2>1, <2>2
  <2>6. EnvBelow(Execute(T[k], c[m]), Execute(U[k], c[m]))
    BY <2>1, <2>2, ExecuteBelow
  <2>7. Execute(T[k], b[m]) \in Envs /\ Execute(T[k], c[m]) \in Envs /\ Execute(U[k], c[m]) \in Envs
    BY <2>2, ExecuteType
  <2>8. EnvBelow(T[m], U[m])
    BY <2>3, <2>5, <2>6, <2>7, EnvBelowTransitive
  <2> QED
    BY <2>4, <2>8 DEF m
<1> HIDE DEF S
<1>9. n \in S
  BY <1>1, <1>7, <1>8, Induction
<1>10. EnvBelow(T[n], U[n]) /\ T[n] \in Envs /\ U[n] \in Envs
  BY <1>1, <1>2, <1>3, <1>9 DEF S
<1> QED
  BY <1>5, <1>10

LEMMA EmittedInstrs == Emitted \subseteq Instrs /\ Seq(Emitted) \subseteq Seq(Instrs)
BY DEF Instrs

LEMMA FoldedBlock ==
  ASSUME NEW b \in Seq(Emitted)
  PROVE  /\ fold_block(b) \in Seq(Instrs) /\ Len(fold_block(b)) = Len(b)
         /\ \A k \in 1 .. Len(b) : /\ fold_block(b)[k] = FoldInstr(Defs(b)[k - 1], b[k])
                                   /\ b[k] \in Emitted /\ Defs(b)[k - 1] \in DefSet
<1> DEFINE n == Len(b)  D == Defs(b)  c == fold_block(b)
<1>1. b \in Seq(Instrs) /\ n \in Nat /\ DOMAIN b = 1 .. n /\ \A k \in 1 .. n : b[k] \in Emitted
  BY EmittedInstrs
<1>2. D \in [0 .. n -> DefSet]
  BY <1>1, DefsDefined
<1>3. c = [k \in 1 .. n |-> FoldInstr(D[k - 1], b[k])]
  BY <1>1 DEF fold_block
<1> HIDE DEF n, D, c
<1>4. \A k \in 1 .. n : D[k - 1] \in DefSet
  BY <1>1, <1>2
<1>5. \A k \in 1 .. n : FoldInstr(D[k - 1], b[k]) \in Instrs
  <2>1. \A d \in DefSet, i \in Emitted : FoldInstr(d, i) \in Instrs
    <3> TAKE d \in DefSet, i \in Emitted
    <3> DEFINE slots == [s \in Slots |-> IF s \in DOMAIN d THEN [v |-> d[s], w |-> WidthOf[s]] ELSE Poison]
               e == [slots |-> slots, temps |-> [t \in 1 .. MaxInstrs |-> Poison]]
    <3>1. \A s \in DOMAIN d : s \in Slots /\ d[s] \in Int
      BY DefsOf
    <3>2. slots \in [Slots -> Registers]
      BY <3>1, SlotWidths, Poisons DEF Registers, WidthsOfLLVM
    <3>3. e \in Envs
      BY <3>2, Poisons DEF Envs
    <3>4. Known(e, d)
      BY <3>1 DEF Known
    <3> QED
      BY <3>3, <3>4, FoldInstrBelow
  <2> QED
    BY <1>1, <1>4, <2>1
<1>6. c \in Seq(Instrs) /\ Len(c) = n
  BY <1>1, <1>3, <1>5
<1> QED
  BY <1>1, <1>3, <1>4, <1>6 DEF n, D, c

LEMMA FoldRefines ==
  ASSUME NEW b \in Seq(Emitted)
  PROVE  Refines(b, fold_block(b))
<1>1. b \in Seq(Instrs)
  BY EmittedInstrs
<1>2. ASSUME NEW k \in 1 .. Len(b), NEW e \in Envs, Known(e, Defs(b)[k - 1])
      PROVE  EnvBelow(Execute(e, b[k]), Execute(e, fold_block(b)[k]))
  BY <1>2, FoldedBlock, FoldInstrBelow
<1> QED
  BY <1>1, <1>2, FoldedBlock, BlocksRefine

LEMMA PeepholeRefines ==
  ASSUME NEW b \in Seq(Instrs)
  PROVE  peephole_block(b) \in Seq(Instrs) /\ Refines(b, peephole_block(b))
<1> DEFINE n == Len(b)  c == peephole_block(b)
<1>1. n \in Nat /\ DOMAIN b = 1 .. n /\ \A k \in 1 .. n : b[k] \in Instrs
  OBVIOUS
<1>2. c = [k \in 1 .. n |-> PeepholeInstr(b[k])]
  BY <1>1 DEF peephole_block
<1>3. \A k \in 1 .. n : PeepholeInstr(b[k]) \in Instrs
  <2>1. [slots |-> [s \in Slots |-> Poison], temps |-> [t \in 1 .. MaxInstrs |-> Poison]] \in Envs
    BY Poisons DEF Envs
  <2> QED
    BY <1>1, <2>1, PeepholeInstrBelow
<1> HIDE DEF c
<1>4. c \in Seq(Instrs) /\ Len(c) = n
  BY <1>1, <1>2, <1>3
<1>5. \A k \in 1 .. n : \A e \in Envs : EnvBelow(Execute(e, b[k]), Execute(e, c[k]))
  BY <1>1, <1>2, PeepholeInstrBelow
<1> QED
  BY <1>4, <1>5, BlocksRefine DEF c

\* Stores are left alone, so the second time defs is what it was the first time.
LEMMA FoldBlockTwice ==
  ASSUME NEW b \in Seq(Emitted)
  PROVE  fold_block(fold_block(b)) = fold_block(b)
<1> DEFINE n == Len(b)  D == Defs(b)  c == fold_block(b)  E == Defs(c)
           S == {k \in Nat : k <= n => E[k] = D[k]}
<1>1. /\ c \in Seq(Instrs) /\ Len(c) = n /\ b \in Seq(Instrs) /\ n \in Nat
      /\ \A k \in 1 .. n : c[k] = FoldInstr(D[k - 1], b[k]) /\ b[k] \in Emitted /\ D[k - 1] \in DefSet
  BY FoldedBlock, EmittedInstrs
<1>2. D[0] = NoDefs /\ \A k \in 1 .. n : D[k] = Learn(D[k - 1], b[k])
  BY <1>1, DefsDefined
<1>3. E[0] = NoDefs /\ \A k \in 1 .. n : E[k] = Learn(E[k - 1], c[k])
  BY <1>1, DefsDefined
<1>4. fold_block(c) = [k \in DOMAIN c |-> FoldInstr(E[k - 1], c[k])] /\ DOMAIN c = 1 .. n
  BY <1>1 DEF fold_block
<1> HIDE DEF n, D, c, E
<1>5. 0 \in S
  BY <1>2, <1>3
<1>6. ASSUME NEW k \in Nat, k \in S PROVE k + 1 \in S
  <2> SUFFICES ASSUME k + 1 <= n PROVE E[k + 1] = D[k + 1]
    OBVIOUS
  <2> DEFINE m == k + 1
  <2>1. m \in 1 .. n /\ m - 1 = k /\ E[k] = D[k]
    BY <1>1, <1>6
  <2> HIDE DEF m
  <2>2. c[m] = FoldInstr(D[k], b[m]) /\ b[m] \in Emitted
    BY <1>1, <2>1
  <2>3. Learn(D[k], c[m]) = Learn(D[k], b[m])
    <3>1. CASE c[m] = b[m]
      BY <3>1
    <3>2. CASE c[m] # b[m]
      <4>1. b[m].op # "store" /\ c[m].op # "store"
        <5>1. CASE b[m] \in LoadInstrs /\ c[m] = Adds(b[m], Const(D[k][b[m].slot]), Const(0))
          BY <5>1 DEF LoadInstrs, Adds
        <5>2. CASE b[m] \in BinaryInstrs /\ b[m].op \in BinOps /\ c[m] = Simplified(b[m])
          <6>1. [slots |-> [s \in Slots |-> Poison], temps |-> [t \in 1 .. MaxInstrs |-> Poison]] \in Envs
            BY Poisons DEF Envs
          <6> QED
            BY <5>2, <6>1, SimplifiedBelow DEF BinOps
        <5> QED
          BY <2>2, <3>2, <5>1, <5>2, FoldInstrCases
      <4> QED
        BY <4>1 DEF Learn
    <3> QED
      BY <3>1, <3>2
  <2> QED
    BY <1>2, <1>3, <2>1, <2>3 DEF m
<1> HIDE DEF S
<1>7. \A k \in 0 .. n : E[k] = D[k]
  <2>1. \A k \in Nat : k \in S
    BY <1>5, <1>6, Induction
  <2> QED
    BY <1>1, <2>1 DEF S
<1>8. \A k \in 1 .. n : FoldInstr(E[k - 1], c[k]) = c[k]
  <2> TAKE k \in 1 .. n
  <2>1. E[k - 1] = D[k - 1] /\ c[k] = FoldInstr(D[k - 1], b[k]) /\ b[k] \in Emitted /\ D[k - 1] \in DefSet
    BY <1>1, <1>7
  <2> QED
    BY <2>1, FoldInstrTwice
<1>9. fold_block(c) = c
  BY <1>1, <1>4, <1>8
<1> QED
  BY <1>9 DEF c

LEMMA RefinesTransitive ==
  ASSUME NEW a, NEW b, NEW c, Refines(a, b), Refines(b, c)
  PROVE  Refines(a, c)
<1> SUFFICES ASSUME NEW e \in Envs, NEW f \in Envs, EnvBelow(e, f)
             PROVE  /\ RunBlock(e, a) \in Envs /\ RunBlock(f, c) \in Envs
                    /\ EnvBelow(RunBlock(e, a), RunBlock(f, c))
  BY DEF Refines
<1>1. RunBlock(e, a) \in Envs /\ RunBlock(e, b) \in Envs /\ EnvBelow(RunBlock(e, a), RunBlock(e, b))
  BY EnvBelowItself DEF Refines
<1>2. RunBlock(f, c) \in Envs /\ EnvBelow(RunBlock(e, b), RunBlock(f, c))
  BY DEF Refines
<1> QED
  BY <1>1, <1>2, EnvBelowTransitive

-----------------------------------------------------------------------------
\* Paths of blocks.

LEMMA StartType ==
  ASSUME NEW mem \in [Slots -> Int]
  PROVE  Start(mem) \in Envs
<1>1. ASSUME NEW s \in Slots PROVE [v |-> Signed(mem[s], WidthOf[s]), w |-> WidthOf[s]] \in Registers
  BY SlotWidths, SignedComputed DEF Computed
<1> QED
  BY <1>1, Poisons DEF Start, Envs

LEMMA AlongDefined ==
  ASSUME NEW B, NEW bs, \A b \in B : \A e \in Envs : RunBlock(e, bs[b]) \in Envs,
         NEW path \in Seq(B), NEW mem \in [Slots -> Int]
  PROVE  /\ Along(bs, path, mem) \in [0 .. Len(path) -> Envs]
         /\ Along(bs, path, mem)[0] = Start(mem)
         /\ \A k \in 1 .. Len(path) : Along(bs, path, mem)[k] = RunBlock(Along(bs, path, mem)[k - 1], bs[path[k]])
<1> DEFINE n == Len(path)
           P(after) == after = [k \in 0 .. n |-> IF k = 0 THEN Start(mem) ELSE RunBlock(after[k - 1], bs[path[k]])]
           F == [p \in Envs \X (1 .. n) |-> RunBlock(p[1], bs[path[p[2]]])]
<1>1. n \in Nat /\ (\A k \in 1 .. n : path[k] \in B) /\ Start(mem) \in Envs
  BY StartType
<1> HIDE DEF n
<1>2. F \in [Envs \X (1 .. n) -> Envs]
  BY <1>1
<1>3. PICK f \in [0 .. n -> Envs] : Unrolls(f, Start(mem), F, n)
  <2> HIDE DEF F
  <2> QED
    BY <1>1, <1>2, Unrolling
<1>4. P(f)
  <2>1. f[0] = Start(mem) /\ \A k \in 1 .. n : f[k] = F[<<f[k - 1], k>>]
    BY <1>3 DEF Unrolls
  <2>2. ASSUME NEW k \in 1 .. n PROVE f[k] = RunBlock(f[k - 1], bs[path[k]])
    <3>1. f[k - 1] \in Envs /\ <<f[k - 1], k>> \in Envs \X (1 .. n)
      BY <1>1, <1>3
    <3>2. F[<<f[k - 1], k>>] = RunBlock(f[k - 1], bs[path[k]])
      BY <3>1
    <3> QED
      BY <2>1, <3>2
  <2> QED
    BY <1>1, <1>3, <2>1, <2>2
<1> DEFINE T == CHOOSE after : P(after)
<1>5. P(T)
  <2> HIDE DEF P
  <2> QED
    BY <1>4
<1>6. Along(bs, path, mem) = T
  BY DEF Along, n
<1> HIDE DEF T
<1>7. T[0] = Start(mem) /\ \A k \in 1 .. n : T[k] = RunBlock(T[k - 1], bs[path[k]])
  BY <1>1, <1>5
<1>8. T \in [0 .. n -> Envs]
  <2> DEFINE S == {k \in Nat : k <= n => T[k] \in Envs}
  <2>1. 0 \in S
    BY <1>1, <1>7
  <2>2. ASSUME NEW k \in Nat, k \in S PROVE k + 1 \in S
    <3> SUFFICES ASSUME k + 1 <= n PROVE T[k + 1] \in Envs
      OBVIOUS
    <3>1. k + 1 \in 1 .. n /\ (k + 1) - 1 = k /\ T[k] \in Envs
      BY <1>1, <2>2
    <3>2. T[k + 1] = RunBlock(T[k], bs[path[k + 1]]) /\ path[k + 1] \in B
      BY <1>1, <1>7, <3>1
    <3> QED
      BY <3>1, <3>2
  <2> HIDE DEF S
  <2>3. \A k \in Nat : k \in S
    BY <2>1, <2>2, Induction
  <2>4. \A k \in 0 .. n : T[k] \in Envs
    BY <1>1, <2>3 DEF S
  <2>5. T = [k \in 0 .. n |-> T[k]]
    BY <1>5
  <2> QED
    BY <2>4, <2>5
<1> QED
  BY <1>6, <1>7, <1>8 DEF n

LEMMA PathsRefine ==
  ASSUME NEW B, NEW bs, NEW cs, \A b \in B : Refines(bs[b], cs[b]),
         NEW path \in Seq(B), NEW mem \in [Slots -> Int]
  PROVE  EnvBelow(Run(bs, path, mem), Run(cs, path, mem))
<1> DEFINE n == Len(path)  T == Along(bs, path, mem)  U == Along(cs, path, mem)
           S == {k \in Nat : k <= n => EnvBelow(T[k], U[k])}
<1>1. n \in Nat /\ \A k \in 1 .. n : path[k] \in B
  OBVIOUS
<1>2. /\ \A b \in B : \A e \in Envs : RunBlock(e, bs[b]) \in Envs
      /\ \A b \in B : \A e \in Envs : RunBlock(e, cs[b]) \in Envs
  BY EnvBelowItself DEF Refines
<1>3. /\ T \in [0 .. n -> Envs] /\ T[0] = Start(mem)
      /\ \A k \in 1 .. n : T[k] = RunBlock(T[k - 1], bs[path[k]])
  BY <1>2, AlongDefined
<1>4. /\ U \in [0 .. n -> Envs] /\ U[0] = Start(mem)
      /\ \A k \in 1 .. n : U[k] = RunBlock(U[k - 1], cs[path[k]])
  BY <1>2, AlongDefined
<1>5. Run(bs, path, mem) = T[n] /\ Run(cs, path, mem) = U[n]
  BY DEF Run
<1> HIDE DEF n, T, U
<1>6. 0 \in S
  BY <1>3, <1>4, EnvBelowItself
<1>7. ASSUME NEW k \in Nat, k \in S PROVE k + 1 \in S
  <2> SUFFICES ASSUME k + 1 <= n PROVE EnvBelow(T[k + 1], U[k + 1])
    OBVIOUS
  <2> DEFINE m == k + 1
  <2>1. m \in 1 .. n /\ m - 1 = k /\ EnvBelow(T[k], U[k]) /\ path[m] \in B
    BY <1>1, <1>7
  <2> HIDE DEF m
  <2>2. /\ T[k] \in Envs /\ U[k] \in Envs
        /\ T[m] = RunBlock(T[k], bs[path[m]]) /\ U[m] = RunBlock(U[k], cs[path[m]])
    BY <1>1, <1>3, <1>4, <2>1
  <2>3. Refines(bs[path[m]], cs[path[m]])
    BY <2>1
  <2>4. EnvBelow(T[m], U[m])
    BY <2>1, <2>2, <2>3 DEF Refines
  <2> QED
    BY <2>4 DEF m
<1> HIDE DEF S
<1>8. n \in S
  BY <1>1, <1>6, <1>7, Induction
<1> QED
  BY <1>1, <1>5, <1>8 DEF S

-----------------------------------------------------------------------------
\* The specification.

\* The generator numbers no more temporaries than it has room for, and the
\* optimizer has either folded nothing or everything there is to fold.
IInv ==
  /\ tmp \in Nat /\ room \in Nat /\ tmp + room <= MaxInstrs
  /\ source \in Seq(Seq(Emitted)) /\ source # << >>
  /\ phase \in {"build", "fold", "done"} /\ pass \in Nat
  /\ phase = "build" => pass = 0
  /\ phase = "fold" => blocks = IF pass = 0 THEN source ELSE Mapped(fold_block, source)
  /\ phase = "done" => \/ blocks = Mapped(peephole_block, source)
                       \/ blocks = Mapped(peephole_block, Mapped(fold_block, source))

LEMMA EmptyBlocks == << << >> >> \in Seq(Seq(Emitted)) /\ << << >> >> # << >>
OBVIOUS

LEMMA EmitKeeps ==
  ASSUME IInv, NEW i \in Emitted, NEW cost \in Nat \ {0}, Emit(i, cost), tmp' \in {tmp, tmp + 1}
  PROVE  IInv'
<1> DEFINE n == Len(source)
<1>1. /\ phase = "build" /\ cost <= room /\ room' = room - cost
      /\ source' = [source EXCEPT ![n] = Append(source[n], i)]
      /\ blocks' = blocks /\ phase' = phase /\ pass' = pass
  BY DEF Emit
<1>2. tmp' \in Nat /\ room' \in Nat /\ tmp' + room' <= MaxInstrs
  <2>1. tmp \in Nat /\ room \in Nat /\ tmp + room <= MaxInstrs /\ MaxInstrs \in Nat
    BY BoundsAssumption DEF IInv
  <2>2. tmp' = tmp \/ tmp' = tmp + 1
    OBVIOUS
  <2>3. cost <= room /\ room' = room - cost /\ cost \in Nat /\ cost >= 1
    BY <1>1
  <2>4. room' \in Nat /\ room' <= room - 1
    BY <2>1, <2>3
  <2>5. tmp' \in Nat /\ tmp' <= tmp + 1
    BY <2>1, <2>2
  <2> DEFINE t == tmp'  r == room'
  <2>6. t \in Nat /\ r \in Nat /\ t <= tmp + 1 /\ r <= room - 1
    BY <2>4, <2>5
  <2> HIDE DEF t, r
  <2>7. t + r <= MaxInstrs
    BY <2>1, <2>6
  <2> QED
    BY <2>6, <2>7 DEF t, r
<1>3. source' \in Seq(Seq(Emitted)) /\ source' # << >>
  <2>1. source \in Seq(Seq(Emitted)) /\ n \in Nat /\ n > 0 /\ n \in 1 .. Len(source)
    BY DEF IInv
  <2>2. Append(source[n], i) \in Seq(Emitted)
    BY <2>1
  <2> HIDE DEF n
  <2>3. source' \in Seq(Seq(Emitted)) /\ Len(source') = Len(source)
    BY <1>1, <2>1, <2>2
  <2> QED
    BY <2>1, <2>3
<1> QED
  BY <1>1, <1>2, <1>3 DEF IInv

LEMMA Operanded ==
  ASSUME IInv, NEW w \in WidthsOfLLVM, NEW literals, literals \subseteq Int, NEW x \in Operands(literals, w)
  PROVE  x \in Operand /\ Ranged(x, w)
<1>1. tmp \in Nat /\ tmp <= MaxInstrs /\ MaxInstrs \in Nat
  BY BoundsAssumption DEF IInv
<1>2. CASE x \in {Const(c) : c \in {c \in literals : InRange(c, w)}}
  BY <1>2 DEF Operand, Ranged, Const
<1>3. CASE x \in {Temp(t) : t \in 1 .. tmp}
  BY <1>1, <1>3 DEF Operand, Ranged, Temp
<1> QED
  BY <1>2, <1>3 DEF Operands

LEMMA FoldedTwice ==
  ASSUME source \in Seq(Seq(Emitted))
  PROVE  Mapped(fold_block, Mapped(fold_block, source)) = Mapped(fold_block, source)
<1>1. \A b \in DOMAIN source : source[b] \in Seq(Emitted)
  OBVIOUS
<1>2. \A b \in DOMAIN source : fold_block(fold_block(source[b])) = fold_block(source[b])
  BY <1>1, FoldBlockTwice
<1> QED
  BY <1>2 DEF Mapped

THEOREM FoldInvariant == Spec => []IInv
<1>1. Init => IInv
  BY EmptyBlocks, BoundsAssumption DEF Init, IInv
<1>2. ASSUME IInv, [Next]_vars PROVE IInv'
  <2>1. ASSUME NEW s \in Slots, EmitStore(s) PROVE IInv'
    <3>1. PICK x \in Operands(StoreLiterals, WidthOf[s]) :
             Emit([op |-> "store", slot |-> s, w |-> WidthOf[s], src1 |-> x], 1)
      BY <2>1 DEF EmitStore
    <3>2. x \in Operand /\ Ranged(x, WidthOf[s])
      BY <1>2, <3>1, SlotWidths, Operanded, BoundsAssumption
    <3>3. [op |-> "store", slot |-> s, w |-> WidthOf[s], src1 |-> x] \in Emitted
      BY <3>2, SlotWidths DEF Emitted, StoreInstrs
    <3>4. tmp' \in {tmp, tmp + 1}
      BY <2>1 DEF EmitStore
    <3> QED
      BY <1>2, <3>1, <3>3, <3>4, EmitKeeps
  <2>2. ASSUME NEW s \in Slots, EmitLoad(s) PROVE IInv'
    <3> DEFINE i == [op |-> "load", slot |-> s, w |-> WidthOf[s], dst |-> tmp + 1]
    <3>1. Emit(i, 1) /\ tmp' = tmp + 1
      BY <2>2 DEF EmitLoad
    <3>2. tmp + 1 \in 1 .. MaxInstrs
      BY <1>2, <3>1, BoundsAssumption DEF IInv, Emit
    <3>3. i \in Emitted
      BY <3>2, SlotWidths DEF Emitted, LoadInstrs
    <3> QED
      BY <1>2, <3>1, <3>3, EmitKeeps
  <2>3. ASSUME NEW w \in Widths, EmitOp(w) PROVE IInv'
    <3>1. w \in WidthsOfLLVM /\ Widths \subseteq WidthsOfLLVM /\ Literals \subseteq Int
      BY WidthsAssumption, BoundsAssumption DEF WidthsOfLLVM
    <3>2. tmp' \in {tmp, tmp + 1}
      BY <2>3 DEF EmitOp
    <3>3. ASSUME NEW op \in BinOps \union {"icmp"}, NEW x \in Operands(Literals, w), NEW y \in Operands(Literals, w),
                 Emit([op |-> op, dst |-> tmp + 1, w |-> w, src1 |-> x, src2 |-> y], OpCost)
          PROVE  IInv'
      <4>1. x \in Operand /\ Ranged(x, w) /\ y \in Operand /\ Ranged(y, w)
        BY <1>2, <3>1, Operanded
      <4>2. tmp + 1 \in 1 .. MaxInstrs
        BY <1>2, <3>3, BoundsAssumption DEF IInv, Emit
      <4>3. [op |-> op, dst |-> tmp + 1, w |-> w, src1 |-> x, src2 |-> y] \in Emitted
        BY <3>1, <4>1, <4>2 DEF Emitted, BinaryInstrs
      <4> QED
        BY <1>2, <3>2, <3>3, <4>3, EmitKeeps, BoundsAssumption
    <3>4. ASSUME NEW from \in {f \in Widths : f < w}, NEW x \in Operands(Literals, from),
                 Emit([op |-> "sext", dst |-> tmp + 1, w |-> w, from |-> from, src1 |-> x], OpCost)
          PROVE  IInv'
      <4>1. from \in WidthsOfLLVM /\ from < w /\ x \in Operand /\ Ranged(x, from)
        BY <1>2, <3>1, Operanded
      <4>2. tmp + 1 \in 1 .. MaxInstrs
        BY <1>2, <3>4, BoundsAssumption DEF IInv, Emit
      <4>3. [op |-> "sext", dst |-> tmp + 1, w |-> w, from |-> from, src1 |-> x] \in Emitted
        BY <3>1, <4>1, <4>2 DEF Emitted, SextInstrs
      <4> QED
        BY <1>2, <3>2, <3>4, <4>3, EmitKeeps, BoundsAssumption
    <3> QED
      BY <2>3, <3>3, <3>4 DEF EmitOp
  <2>4. CASE NewBlock
    <3>1. source' = Append(source, << >>) /\ phase' = "build" /\ UNCHANGED <<tmp, room, blocks, pass>> /\ phase = "build"
      BY <2>4 DEF NewBlock
    <3>2. source' \in Seq(Seq(Emitted)) /\ source' # << >>
      <4>1. << >> \in Seq(Emitted) /\ source \in Seq(Seq(Emitted))
        BY <1>2 DEF IInv
      <4> QED
        BY <3>1, <4>1
    <3> QED
      BY <1>2, <3>1, <3>2 DEF IInv
  <2>5. CASE Begin
    BY <1>2, <2>5 DEF Begin, IInv
  <2>6. CASE FoldPass
    <3> DEFINE folded == Mapped(fold_block, source)
    <3>1. Mapped(fold_block, folded) = folded
      BY <1>2, FoldedTwice DEF IInv
    <3>2. blocks' = folded
      BY <1>2, <2>6, <3>1 DEF FoldPass, IInv
    <3>3. pass' \in Nat /\ pass' # 0 /\ phase' = "fold" /\ UNCHANGED <<source, tmp, room>>
      BY <1>2, <2>6 DEF FoldPass, IInv
    <3> QED
      BY <1>2, <3>2, <3>3 DEF IInv
  <2>7. CASE Peephole
    BY <1>2, <2>7 DEF Peephole, IInv
  <2>8. CASE UNCHANGED vars
    BY <1>2, <2>8 DEF vars, IInv
  <2> QED
    BY <1>2, <2>1, <2>2, <2>3, <2>4, <2>5, <2>6, <2>7, <2>8 DEF Next
<1> QED
  BY <1>1, <1>2, PTL DEF Spec

\* One pass folds all there is to fold: another leaves every block of every
\* function as it is (fold_block of opt.c, called up to MAX_PASSES times).
THEOREM Settles == Spec => []FoldingSettles
<1>1. IInv => FoldingSettles
  BY FoldedTwice DEF IInv, FoldingSettles
<1> QED
  BY <1>1, FoldInvariant, PTL

\* Along any path of blocks, of any length, a slot or temporary that has a
\* defined value in the code as generated has that value in the code that
\* fold_block and peephole_block leave.
THEOREM Meaning == Spec => []SameMeaning
<1>1. IInv => SameMeaning
  <2> SUFFICES ASSUME IInv, phase # "build", NEW path \in Paths, NEW mem \in Memories
               PROVE  EnvBelow(Run(source, path, mem), Run(blocks, path, mem))
    BY DEF SameMeaning, EnvBelow
  <2> DEFINE B == DOMAIN source
  <2>1. source \in Seq(Seq(Emitted)) /\ \A b \in B : source[b] \in Seq(Emitted) /\ source[b] \in Seq(Instrs)
    BY EmittedInstrs DEF IInv
  <2>2. path \in Seq(B)
    <3>1. PICK n \in 1 .. MaxPath : path \in [1 .. n -> B]
      BY DEF Paths
    <3>2. n \in Nat
      BY BoundsAssumption
    <3> QED
      BY <3>1, <3>2
  <2>3. mem \in [Slots -> Int]
    BY BoundsAssumption
  <2>4. \A b \in B : /\ Refines(source[b], source[b])
                      /\ Refines(source[b], fold_block(source[b]))
                      /\ Refines(source[b], peephole_block(source[b]))
                      /\ Refines(source[b], peephole_block(fold_block(source[b])))
    <3> TAKE b \in B
    <3>1. Refines(source[b], fold_block(source[b])) /\ fold_block(source[b]) \in Seq(Instrs)
      BY <2>1, FoldRefines, FoldedBlock
    <3>2. Refines(source[b], peephole_block(source[b]))
      BY <2>1, PeepholeRefines
    <3>3. Refines(fold_block(source[b]), peephole_block(fold_block(source[b])))
      BY <3>1, PeepholeRefines
    <3>4. Refines(source[b], source[b])
      BY <2>1, BlocksRefine, EnvBelowItself
    <3> QED
      BY <3>1, <3>2, <3>3, <3>4, RefinesTransitive
  <2>5. \A b \in B : Refines(source[b], blocks[b])
    <3>1. CASE blocks = source
      BY <2>4, <3>1
    <3>2. CASE blocks = Mapped(fold_block, source)
      BY <2>4, <3>2 DEF Mapped
    <3>3. CASE blocks = Mapped(peephole_block, source)
      BY <2>4, <3>3 DEF Mapped
    <3>4. CASE blocks = Mapped(peephole_block, Mapped(fold_block, source))
      BY <2>4, <3>4 DEF Mapped
    <3> QED
      BY <3>1, <3>2, <3>3, <3>4 DEF IInv
  <2> QED
    BY <2>2, <2>3, <2>5, PathsRefine
<1> QED
  BY <1>1, FoldInvariant, PTL
=============================================================================
