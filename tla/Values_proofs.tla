---------------------------- MODULE Values_proofs ----------------------------
(***************************************************************************)
(* The passes agree on every type and generated code computes what the     *)
(* program means, whatever the widths of the types.                        *)
(***************************************************************************)
EXTENDS Values, Counting, TLAPS

-----------------------------------------------------------------------------
\* Arithmetic.

\* Adding a multiple of the divisor leaves a remainder as it is.
LEMMA RemainderUnique ==
  ASSUME NEW s \in Nat \ {0}, NEW q \in Int, NEW r \in 0 .. s - 1
  PROVE  (s * q + r) % s = r
OBVIOUS

LEMMA Division ==
  ASSUME NEW s \in Nat \ {0}, NEW x \in Int
  PROVE  x \div s \in Int /\ x % s \in 0 .. s - 1 /\ x = s * (x \div s) + (x % s)
OBVIOUS

LEMMA RemainderShift ==
  ASSUME NEW s \in Nat \ {0}, NEW x \in Int, NEW q \in Int
  PROVE  (x + s * q) % s = x % s
<1> DEFINE d == x \div s  r == x % s
<1>1. d \in Int /\ r \in 0 .. s - 1 /\ x = s * d + r
  BY Division
<1> HIDE DEF d, r
<1>2. d + q \in Int /\ s * d + r + s * q = s * (d + q) + r
  BY <1>1
<1>3. (s * (d + q) + r) % s = r
  BY <1>1, <1>2, RemainderUnique
<1> QED
  BY <1>1, <1>2, <1>3 DEF r

-----------------------------------------------------------------------------
\* Powers of two.

LEMMA PowersPositive == \A n \in DOMAIN Powers : Powers[n] \in Nat \ {0}
<1> DEFINE b == Bits["i64"] - 1
<1>1. /\ b \in Nat /\ DOMAIN Powers = 0 .. b
      /\ \A n \in 0 .. b : Powers[n] = IF n = 0 THEN 1 ELSE 2 * Powers[n - 1]
  BY BitsAssumption, PowersAssumption DEF Types
<1> HIDE DEF b
<1>2. Powers[0] \in Nat \ {0}
  BY <1>1
<1>3. \A n \in 1 .. b : Powers[n - 1] \in Nat \ {0} => Powers[n] \in Nat \ {0}
  BY <1>1
<1> QED
  BY <1>1, <1>2, <1>3, Staying

LEMMA PowersMultiply ==
  ASSUME NEW m \in DOMAIN Powers
  PROVE  \A n \in DOMAIN Powers : m + n \in DOMAIN Powers => Powers[m + n] = Powers[m] * Powers[n]
<1> DEFINE b == Bits["i64"] - 1
           S == {n \in Nat : m + n <= b => Powers[m + n] = Powers[m] * Powers[n]}
<1>1. /\ b \in Nat /\ DOMAIN Powers = 0 .. b
      /\ \A n \in 0 .. b : Powers[n] = IF n = 0 THEN 1 ELSE 2 * Powers[n - 1]
  BY BitsAssumption, PowersAssumption DEF Types
<1> HIDE DEF b
<1>2. m \in 0 .. b /\ Powers[m] \in Nat
  BY <1>1, PowersPositive
<1>3. 0 \in S
  <2>1. m + 0 = m /\ Powers[0] = 1
    BY <1>1, <1>2
  <2> QED
    BY <1>2, <2>1
<1>4. ASSUME NEW n \in Nat, n \in S PROVE n + 1 \in S
  <2> SUFFICES ASSUME m + (n + 1) <= b PROVE Powers[m + (n + 1)] = Powers[m] * Powers[n + 1]
    OBVIOUS
  <2>1. n + 1 \in 0 .. b /\ n + 1 # 0 /\ (n + 1) - 1 = n /\ n \in 0 .. b
        /\ m + (n + 1) \in 0 .. b /\ m + (n + 1) # 0 /\ (m + (n + 1)) - 1 = m + n /\ m + n <= b
    BY <1>1, <1>2
  <2>2. Powers[m + n] = Powers[m] * Powers[n]
    BY <1>4, <2>1
  <2>3. Powers[n + 1] = 2 * Powers[n] /\ Powers[m + (n + 1)] = 2 * Powers[m + n]
    BY <1>1, <2>1
  <2>4. Powers[n] \in Nat
    BY <1>1, <2>1, PowersPositive
  <2> DEFINE p == Powers[m]  q == Powers[n]
  <2>5. p \in Nat /\ q \in Nat /\ Powers[m + (n + 1)] = 2 * (p * q) /\ Powers[n + 1] = 2 * q
    BY <1>2, <2>2, <2>3, <2>4
  <2> HIDE DEF p, q
  <2>6. 2 * (p * q) = p * (2 * q)
    BY <2>5
  <2> QED
    BY <2>5, <2>6 DEF p
<1> HIDE DEF S
<1>5. \A n \in Nat : n \in S
  BY <1>3, <1>4, Induction
<1> QED
  BY <1>1, <1>2, <1>5 DEF S

-----------------------------------------------------------------------------
\* Types.

LEMMA TypesHaveWidths ==
  ASSUME NEW t \in Types
  PROVE  /\ Bits[t] \in Nat \ {0} /\ Bits[t] <= Bits["i64"] /\ Bits["i1"] <= Bits[t]
         /\ Bits[t] - 1 \in DOMAIN Powers
         /\ Half(t) \in Nat \ {0}
BY BitsAssumption, PowersAssumption, PowersPositive DEF Types, Half

LEMMA Booleans == Half("i1") = 1 /\ Range("i1") = {-1, 0}
<1>1. Half("i1") = 1
  <2>1. Bits["i1"] - 1 = 0 /\ 0 \in DOMAIN Powers
    BY BitsAssumption, PowersAssumption DEF Types
  <2>2. Powers[0] = 1
    BY <2>1, PowersAssumption
  <2> QED
    BY <2>1, <2>2 DEF Half
<1> QED
  BY <1>1 DEF Range

\* The values of a type are divided evenly among those of a narrower one.
LEMMA Divides ==
  ASSUME NEW s \in Types, NEW t \in Types, Bits[s] <= Bits[t]
  PROVE  \E q \in Nat \ {0} : Half(t) = Half(s) * q
<1> DEFINE m == Bits[s] - 1  n == Bits[t] - Bits[s]
<1>1. m \in DOMAIN Powers /\ n \in DOMAIN Powers /\ m + n = Bits[t] - 1 /\ m + n \in DOMAIN Powers
  <2>1. Bits[s] \in Nat \ {0} /\ Bits[t] \in Nat \ {0} /\ Bits[t] <= Bits["i64"] /\ Bits["i64"] \in Nat
    BY TypesHaveWidths DEF Types
  <2>2. DOMAIN Powers = 0 .. Bits["i64"] - 1
    BY PowersAssumption
  <2> QED
    BY <2>1, <2>2
<1>2. Powers[m + n] = Powers[m] * Powers[n] /\ Powers[n] \in Nat \ {0}
  BY <1>1, PowersPositive, PowersMultiply
<1> QED
  BY <1>1, <1>2 DEF Half

LEMMA Wider ==
  ASSUME NEW s \in Types, NEW t \in Types, Bits[s] <= Bits[t]
  PROVE  Half(s) <= Half(t) /\ Range(s) \subseteq Range(t)
<1>1. PICK q \in Nat \ {0} : Half(t) = Half(s) * q
  BY Divides
<1>2. Half(s) \in Nat \ {0} /\ Half(t) \in Nat \ {0}
  BY TypesHaveWidths
<1>3. Half(s) <= Half(t)
  BY <1>1, <1>2
<1> QED
  BY <1>2, <1>3 DEF Range

LEMMA WrapInRange ==
  ASSUME NEW t \in Types, NEW v \in Int
  PROVE  Wrap(t, v) \in Range(t) /\ Wrap(t, v) \in Int
<1>1. Half(t) \in Nat \ {0}
  BY TypesHaveWidths
<1> QED
  BY <1>1 DEF Wrap, Range

LEMMA WrapKeeps ==
  ASSUME NEW t \in Types, NEW v \in Range(t)
  PROVE  v \in Int /\ Wrap(t, v) = v
<1>1. Half(t) \in Nat \ {0}
  BY TypesHaveWidths
<1> QED
  BY <1>1 DEF Wrap, Range

LEMMA WrapShift ==
  ASSUME NEW t \in Types, NEW v \in Int, NEW q \in Int
  PROVE  Wrap(t, v + 2 * Half(t) * q) = Wrap(t, v)
<1> DEFINE h == Half(t)  s == 2 * h  x == v + h
<1>1. h \in Nat \ {0} /\ s \in Nat \ {0} /\ x \in Int
  BY TypesHaveWidths
<1>2. v + s * q + h = x + s * q
  BY <1>1
<1>3. Wrap(t, v + s * q) = ((v + s * q + h) % s) - h /\ Wrap(t, v) = (x % s) - h
  BY DEF Wrap
<1> HIDE DEF h, s, x
<1>4. (x + s * q) % s = x % s
  BY <1>1, RemainderShift
<1>5. Wrap(t, v + s * q) = Wrap(t, v)
  BY <1>2, <1>3, <1>4
<1> QED
  BY <1>5 DEF s, h

\* Wrapping takes away a multiple of the number of values.
LEMMA WrapDiffers ==
  ASSUME NEW t \in Types, NEW v \in Int
  PROVE  \E q \in Int : Wrap(t, v) = v + 2 * Half(t) * q
<1> DEFINE h == Half(t)  s == 2 * h  x == v + h
           d == x \div s  r == x % s
<1>1. h \in Nat \ {0} /\ s \in Nat \ {0} /\ x \in Int
  BY TypesHaveWidths
<1>2. Wrap(t, v) = r - h
  BY DEF Wrap
<1>3. x = v + h
  OBVIOUS
<1> HIDE DEF h, s, x
<1>4. d \in Int /\ r \in Int /\ x = s * d + r
  BY <1>1, Division
<1> HIDE DEF d, r
<1>5. -d \in Int /\ r - h = v + s * (-d)
  BY <1>1, <1>3, <1>4
<1> QED
  BY <1>2, <1>5 DEF s, h

\* What is wrapped to a narrower type need not have been wrapped before.
LEMMA WrapTwice ==
  ASSUME NEW s \in Types, NEW t \in Types, Bits[s] <= Bits[t], NEW v \in Int
  PROVE  Wrap(s, Wrap(t, v)) = Wrap(s, v)
<1> DEFINE h == Half(s)
<1>1. PICK q \in Int : Wrap(t, v) = v + 2 * Half(t) * q
  BY WrapDiffers
<1>2. PICK m \in Nat \ {0} : Half(t) = h * m
  BY Divides
<1>3. h \in Nat \ {0}
  BY TypesHaveWidths
<1>4. Wrap(s, v + 2 * h * (m * q)) = Wrap(s, v)
  BY WrapShift, m * q \in Int
<1> HIDE DEF h
<1>5. 2 * (h * m) * q = 2 * h * (m * q)
  BY <1>3
<1> QED
  BY <1>1, <1>2, <1>4, <1>5

\* An operand of a sum, a difference or a product may be wrapped beforehand.
LEMMA WrapOperand ==
  ASSUME NEW t \in Types, NEW a \in Int, NEW b \in Int
  PROVE  /\ Wrap(t, a + Wrap(t, b)) = Wrap(t, a + b)
         /\ Wrap(t, a - Wrap(t, b)) = Wrap(t, a - b)
         /\ Wrap(t, a * Wrap(t, b)) = Wrap(t, a * b)
<1> DEFINE h == Half(t)
<1>1. PICK q \in Int : Wrap(t, b) = b + 2 * h * q
  BY WrapDiffers
<1>2. h \in Nat \ {0}
  BY TypesHaveWidths
<1>3. /\ Wrap(t, (a + b) + 2 * h * q) = Wrap(t, a + b)
      /\ Wrap(t, (a - b) + 2 * h * (-q)) = Wrap(t, a - b)
      /\ Wrap(t, a * b + 2 * h * (a * q)) = Wrap(t, a * b)
  BY WrapShift, a + b \in Int, a - b \in Int, -q \in Int, a * b \in Int, a * q \in Int
<1> HIDE DEF h
<1>4. a + (b + 2 * h * q) = (a + b) + 2 * h * q
  BY <1>2
<1>5. a - (b + 2 * h * q) = (a - b) + 2 * h * (-q)
  BY <1>2
<1>6. a * (b + 2 * h * q) = a * b + 2 * h * (a * q)
  BY <1>2
<1> QED
  BY <1>1, <1>3, <1>4, <1>5, <1>6

-----------------------------------------------------------------------------
\* Kinds, their values and the registers of those.

LEMMA KindsHaveTypes ==
  ASSUME NEW k \in Kinds
  PROVE  typekind_to_llvm(k) \in Types /\ KindOfType(typekind_to_llvm(k)) = k
BY DEF Kinds, Types, typekind_to_llvm, KindOfType

LEMMA NumericKinds == Numeric = {"char", "int", "long"} /\ Kinds = Numeric \union {"bool"}
BY DEF Numeric, Kinds

LEMMA Images ==
  ASSUME NEW k \in Kinds, NEW m \in Value(k)
  PROVE  /\ m \in Int
         /\ Image(k, m) \in Range(typekind_to_llvm(k)) /\ Image(k, m) \in Int
         /\ k \in Numeric => m \in Range(typekind_to_llvm(k)) /\ Image(k, m) = m
         /\ Wrap(typekind_to_llvm(k), Image(k, m)) = Image(k, m)
<1> DEFINE t == typekind_to_llvm(k)
<1>1. t \in Types /\ Half(t) \in Nat \ {0}
  BY KindsHaveTypes, TypesHaveWidths
<1>2. Range(t) \subseteq Int
  BY <1>1 DEF Range
<1>3. CASE k = "bool"
  <2>1. t = "i1" /\ m \in {0, 1} /\ Image(k, m) = -m /\ k \notin Numeric
    BY <1>3 DEF typekind_to_llvm, Value, Image, Numeric
  <2>2. -m \in Range(t)
    BY <2>1, Booleans
  <2> QED
    BY <1>1, <1>2, <2>1, <2>2, WrapKeeps
<1>4. CASE k # "bool"
  <2>1. m \in Range(t) /\ Image(k, m) = m
    BY <1>4 DEF Value, Image
  <2> QED
    BY <1>1, <1>2, <2>1, WrapKeeps
<1> QED
  BY <1>3, <1>4

LEMMA Conversions ==
  ASSUME NEW k \in Kinds, NEW from \in Kinds, NEW m \in Value(from), Convertible(from, k)
  PROVE  /\ Converted(k, m) \in Value(k)
         /\ Image(k, Converted(k, m)) = Wrap(typekind_to_llvm(k), Image(from, m))
<1>1. CASE k = "bool"
  <2>1. from = "bool" /\ Converted(k, m) = m
    BY <1>1 DEF Convertible, Converted
  <2> QED
    BY <1>1, <2>1, Images
<1>2. CASE k # "bool"
  <2>1. from # "bool" /\ Converted(k, m) = Wrap(typekind_to_llvm(k), m)
    BY <1>2 DEF Convertible, Converted, In
  <2>2. m \in Int /\ Image(from, m) = m
    BY <2>1, Images DEF Numeric
  <2>3. Wrap(typekind_to_llvm(k), m) \in Range(typekind_to_llvm(k))
    BY <2>2, KindsHaveTypes, WrapInRange
  <2> QED
    BY <1>2, <2>1, <2>2, <2>3 DEF Value, Image
<1> QED
  BY <1>1, <1>2

\* A register or constant that stands for a value of a kind.
Sources == [v : Int, t : Types \union {"const"}]
Means(x, k, m) == /\ x \in Sources /\ x.t \in {typekind_to_llvm(k), "const"}
                  /\ m \in Value(k)
                  /\ Wrap(typekind_to_llvm(k), x.v) = Image(k, m)

LEMMA RegistersAreSources ==
  ASSUME NEW v \in Int, NEW t \in Types
  PROVE  Reg(v, t) \in Sources /\ Reg(v, t).v = v /\ Reg(v, t).t = t
BY DEF Reg, Sources

LEMMA ImagesMean ==
  ASSUME NEW k \in Kinds, NEW m \in Value(k)
  PROVE  LET r == Reg(Image(k, m), typekind_to_llvm(k))
         IN  Means(r, k, m) /\ rval(r, typekind_to_llvm(k)) = r
<1> DEFINE t == typekind_to_llvm(k)
<1>1. Reg(Image(k, m), t) \in Sources /\ Reg(Image(k, m), t).v = Image(k, m) /\ Reg(Image(k, m), t).t = t
  BY Images, KindsHaveTypes, RegistersAreSources
<1> QED
  BY <1>1, Images DEF Means, rval

LEMMA Coercions ==
  ASSUME NEW x, NEW from \in Kinds, NEW to \in Kinds, NEW m, Means(x, from, m), Convertible(from, to)
  PROVE  LET c == coerce_to(x, typekind_to_llvm(from), typekind_to_llvm(to))
         IN  /\ rval(c, typekind_to_llvm(to)) = Reg(Image(to, Converted(to, m)), typekind_to_llvm(to))
             /\ Means(c, to, Converted(to, m))
<1> DEFINE s == typekind_to_llvm(from)  t == typekind_to_llvm(to)
           c == coerce_to(x, s, t)
<1>1. s \in Types /\ t \in Types
  BY KindsHaveTypes
<1>2. x.v \in Int /\ x.t \in {s, "const"} /\ m \in Value(from) /\ Wrap(s, x.v) = Image(from, m)
  BY DEF Means, Sources
<1>3. /\ Converted(to, m) \in Value(to)
      /\ Image(to, Converted(to, m)) = Wrap(t, Image(from, m))
  BY <1>2, Conversions
<1>4. Image(from, m) \in Int
  BY <1>2, Images
<1>5. Wrap(t, Wrap(t, Image(from, m))) = Wrap(t, Image(from, m))
  BY <1>1, <1>4, WrapInRange, WrapKeeps
<1>6. CASE s = t
  <2>1. c = x /\ from = to
    BY <1>6, KindsHaveTypes DEF coerce_to
  <2>2. Wrap(t, Image(from, m)) = Image(from, m)
    BY <1>2, <2>1, Images
  <2> QED
    BY <1>2, <1>3, <1>6, <2>1, <2>2 DEF rval, Reg, Means
<1>7. CASE s # t
  <2>1. c = Reg(Wrap(t, Image(from, m)), t)
    BY <1>2, <1>7 DEF coerce_to, rval, Reg
  <2> QED
    <3>1. Wrap(t, Image(from, m)) \in Int
      BY <1>1, <1>4, WrapInRange
    <3>2. c \in Sources /\ c.v = Wrap(t, Image(from, m)) /\ c.t = t
      BY <1>1, <2>1, <3>1, RegistersAreSources
    <3>3. rval(c, t) = Reg(Wrap(t, Image(from, m)), t)
      BY <1>5, <3>2 DEF rval
    <3> QED
      BY <1>3, <1>5, <3>2, <3>3 DEF Means
<1> QED
  BY <1>6, <1>7

-----------------------------------------------------------------------------
\* Operations.

LEMMA ExactIsInteger ==
  ASSUME NEW op \in BinaryOps \ Comparisons, NEW a \in Int, NEW b \in Int, NEW t \in Types,
         Defined(op, a, b, t)
  PROVE  Exact(op, a, b, t) \in Int
<1>1. Half(t) \in Nat \ {0} /\ Bits[t] \in Nat \ {0} /\ Bits[t] <= Bits["i64"] /\ Bits["i64"] \in Nat
  BY TypesHaveWidths DEF Types
<1>2. CASE op \in {"+", "-", "*"}
  BY <1>2 DEF Exact
<1>3. CASE op \in Divisions
  <2>1. b # 0
    BY <1>3 DEF Defined
  <2>2. Abs(a) \in Int /\ Abs(b) \in Nat \ {0} /\ Sign(a) \in Int /\ Sign(b) \in Int
    BY <2>1 DEF Abs, Sign
  <2>3. Abs(a) \div Abs(b) \in Int
    BY <2>2
  <2>4. Sign(a) * Sign(b) \in Int
    BY <2>2
  <2>5. Quotient(a, b) \in Int
    BY <2>3, <2>4 DEF Quotient
  <2>6. Exact(op, a, b, t) = Quotient(a, b) \/ Exact(op, a, b, t) = a - b * Quotient(a, b)
    BY <1>3 DEF Exact, Divisions
  <2> QED
    BY <2>5, <2>6
<1>4. CASE op \in Shifts
  <2>1. b \in 0 .. Bits["i64"] - 1
    BY <1>1, <1>4 DEF Defined
  <2>2. Powers[b] \in Nat \ {0}
    BY <2>1, PowersAssumption, PowersPositive
  <2>3. \/ Exact(op, a, b, t) = a * Powers[b]
        \/ Exact(op, a, b, t) = a \div Powers[b]
        \/ Exact(op, a, b, t) = (a % (2 * Half(t))) \div Powers[b]
    BY <1>4 DEF Exact, Shifts
  <2>4. a % (2 * Half(t)) \in Int
    BY <1>1
  <2> QED
    BY <2>2, <2>3, <2>4
<1> QED
  BY <1>2, <1>3, <1>4 DEF BinaryOps

\* A source that is coerced to a type as wide as its own keeps its value.
LEMMA SourcesKeepValues ==
  ASSUME NEW x, NEW k \in Kinds, NEW m, Means(x, k, m), NEW t \in Types,
         Bits[typekind_to_llvm(k)] <= Bits[t]
  PROVE  rval(coerce_to(x, typekind_to_llvm(k), t), t).v = Image(k, m)
<1> DEFINE s == typekind_to_llvm(k)
<1>1. s \in Types
  BY KindsHaveTypes
<1>2. x.v \in Int /\ Wrap(s, x.v) = Image(k, m) /\ Image(k, m) \in Range(s)
  BY Images DEF Means, Sources
<1>3. Range(s) \subseteq Range(t)
  BY <1>1, Wider
<1>4. Wrap(t, Image(k, m)) = Image(k, m)
  BY <1>2, <1>3, WrapKeeps
<1> QED
  BY <1>2, <1>4 DEF coerce_to, rval, Reg

LEMMA Promotion ==
  ASSUME NEW a \in Numeric, NEW b \in Numeric
  PROVE  /\ promote(a, b) \in Numeric
         /\ Bits[typekind_to_llvm(a)] <= Bits[typekind_to_llvm(promote(a, b))]
         /\ Bits[typekind_to_llvm(b)] <= Bits[typekind_to_llvm(promote(a, b))]
<1>1. Bits["i8"] \in Nat /\ Bits["i32"] \in Nat /\ Bits["i64"] \in Nat
  BY BitsAssumption DEF Types
<1> QED
  BY <1>1, BitsAssumption, NumericKinds DEF promote, typekind_to_llvm

\* The operands of an operation fit the type it is given.
LEMMA OperationType ==
  ASSUME NEW op, NEW a \in Kinds, NEW b \in Kinds, Plain(op, a, b)
  PROVE  LET t == type_for_op(typekind_to_llvm(a), typekind_to_llvm(b))
         IN  /\ t \in Types
             /\ Bits[typekind_to_llvm(a)] <= Bits[t] /\ Bits[typekind_to_llvm(b)] <= Bits[t]
             /\ op \notin Comparisons => t = typekind_to_llvm(promote(a, b))
<1>1. /\ Bits["i1"] \in Nat /\ Bits["i8"] \in Nat /\ Bits["i32"] \in Nat /\ Bits["i64"] \in Nat
      /\ Bits["i1"] <= Bits["i8"] /\ Bits["i8"] <= Bits["i32"] /\ Bits["i32"] <= Bits["i64"]
  BY BitsAssumption DEF Types
<1>2. CASE a = "bool"
  <2>1. b = "bool" /\ op \in Comparisons
    BY <1>2 DEF Plain, Numeric, Comparisons
  <2> QED
    BY <1>1, <1>2, <2>1 DEF type_for_op, typekind_to_llvm, Types
<1>3. CASE a \in Numeric
  <2>1. b \in Numeric /\ (op \in Comparisons \/ {a, b} # {"char"})
    BY <1>3 DEF Plain, Numeric
  <2> QED
    BY <1>1, <1>3, <2>1, NumericKinds DEF type_for_op, typekind_to_llvm, Types, promote
<1> QED
  BY <1>2, <1>3, NumericKinds

LEMMA Truths == Means(Reg(-1, "i1"), "bool", 1) /\ Means(Reg(0, "i1"), "bool", 0)
<1>1. Wrap("i1", -1) = -1 /\ Wrap("i1", 0) = 0
  BY Booleans, WrapKeeps DEF Types
<1> QED
  <2>1. /\ Reg(-1, "i1") \in Sources /\ Reg(-1, "i1").v = -1 /\ Reg(-1, "i1").t = "i1"
        /\ Reg(0, "i1") \in Sources /\ Reg(0, "i1").v = 0 /\ Reg(0, "i1").t = "i1"
    BY RegistersAreSources DEF Types
  <2> QED
    BY <1>1, <2>1 DEF Means, typekind_to_llvm, Value, Image

LEMMA ComparisonMeans ==
  ASSUME NEW op \in Comparisons, NEW ka \in Kinds, NEW kb \in Kinds, Plain(op, ka, kb),
         NEW x, NEW a, Means(x, ka, a), NEW y, NEW b, Means(y, kb, b)
  PROVE  LET t == type_for_op(typekind_to_llvm(ka), typekind_to_llvm(kb))
             c == Compare(op, coerce_to(x, typekind_to_llvm(ka), t), coerce_to(y, typekind_to_llvm(kb), t), t)
         IN  Means(c, "bool", IF Holds(op, a, b) THEN 1 ELSE 0)
<1> DEFINE t == type_for_op(typekind_to_llvm(ka), typekind_to_llvm(kb))
           u == rval(coerce_to(x, typekind_to_llvm(ka), t), t).v
           w == rval(coerce_to(y, typekind_to_llvm(kb), t), t).v
<1>1. u = Image(ka, a) /\ w = Image(kb, b)
  BY OperationType, SourcesKeepValues
<1>2. a \in Value(ka) /\ b \in Value(kb)
  BY DEF Means
<1>3. Holds(op, u, w) <=> Holds(op, a, b)
  <2>1. CASE ka \in Numeric
    <3>1. kb \in Numeric
      BY <2>1 DEF Plain, Numeric
    <3>2. u = a /\ w = b
      BY <1>1, <1>2, <2>1, <3>1, Images
    <3> QED
      BY <3>2
  <2>2. CASE ka = "bool"
    <3>1. kb = "bool" /\ op \in {"==", "!="}
      BY <2>2 DEF Plain, Numeric
    <3>2. a \in {0, 1} /\ b \in {0, 1} /\ u = -a /\ w = -b
      BY <1>1, <1>2, <2>2, <3>1 DEF Value, Image
    <3>3. u = w <=> a = b
      BY <3>2
    <3> QED
      BY <3>1, <3>3 DEF Holds
  <2> QED
    BY <2>1, <2>2, NumericKinds
<1> HIDE DEF u, w
<1>4. CASE Holds(op, a, b)
  BY <1>3, <1>4, Truths DEF Compare, u, w
<1>5. CASE ~Holds(op, a, b)
  BY <1>3, <1>5, Truths DEF Compare, u, w
<1> QED
  BY <1>4, <1>5

\* The register of an operation.
LEMMA Computed ==
  ASSUME NEW k \in Numeric, NEW e \in Int
  PROVE  LET t == typekind_to_llvm(k)
         IN  Means(Reg(Wrap(t, e), t), k, In(k, e)) /\ rval(Reg(Wrap(t, e), t), t) = Reg(Wrap(t, e), t)
<1> DEFINE t == typekind_to_llvm(k)
<1>1. k \in Kinds /\ k # "bool" /\ t \in Types
  BY NumericKinds, KindsHaveTypes
<1>2. Wrap(t, e) \in Range(t) /\ Wrap(t, e) \in Int
  BY <1>1, WrapInRange
<1>3. Wrap(t, Wrap(t, e)) = Wrap(t, e)
  BY <1>1, <1>2, WrapKeeps
<1> QED
  <2>1. /\ Reg(Wrap(t, e), t) \in Sources /\ Reg(Wrap(t, e), t).v = Wrap(t, e)
        /\ Reg(Wrap(t, e), t).t = t
    BY <1>1, <1>2, RegistersAreSources
  <2> QED
    BY <1>1, <1>2, <1>3, <2>1 DEF Means, Value, Image, In, rval

LEMMA OperationMeans ==
  ASSUME NEW op \in BinaryOps \ Comparisons, NEW ka \in Kinds, NEW kb \in Kinds, Plain(op, ka, kb),
         NEW x, NEW a, Means(x, ka, a), NEW y, NEW b, Means(y, kb, b),
         Defined(op, a, b, typekind_to_llvm(promote(ka, kb)))
  PROVE  LET t == type_for_op(typekind_to_llvm(ka), typekind_to_llvm(kb))
             r == Operate(op, coerce_to(x, typekind_to_llvm(ka), t), coerce_to(y, typekind_to_llvm(kb), t), t)
         IN  /\ Means(r, promote(ka, kb), Meaning(op, a, b, ka, kb))
             /\ KindOfResult(t) = promote(ka, kb)
<1> DEFINE k == promote(ka, kb)  t == typekind_to_llvm(k)
           u == rval(coerce_to(x, typekind_to_llvm(ka), t), t).v
           w == rval(coerce_to(y, typekind_to_llvm(kb), t), t).v
<1>1. ka \in Numeric /\ kb \in Numeric
  BY NumericKinds DEF Plain, Comparisons
<1>2. k \in Numeric /\ t \in Types /\ type_for_op(typekind_to_llvm(ka), typekind_to_llvm(kb)) = t
  BY <1>1, Promotion, OperationType
<1>3. u = a /\ w = b /\ a \in Int /\ b \in Int
  <2>1. u = Image(ka, a) /\ w = Image(kb, b)
    BY <1>2, OperationType, SourcesKeepValues
  <2> QED
    BY <1>1, <2>1, Images DEF Means
<1>4. Exact(op, a, b, t) \in Int
  BY <1>2, <1>3, ExactIsInteger
<1>5. Means(Reg(Wrap(t, Exact(op, a, b, t)), t), k, In(k, Exact(op, a, b, t)))
  BY <1>2, <1>4, Computed
<1>6. KindOfResult(t) = k
  BY DEF KindOfResult, promote, typekind_to_llvm
<1> QED
  BY <1>2, <1>3, <1>5, <1>6 DEF Operate, Meaning

\* x op= e in the type of x leaves what the operation in the wider kind would.
LEMMA CompoundMeans ==
  ASSUME NEW op \in CompoundOps, NEW kx \in Numeric, NEW ke \in Kinds, PlainCompound(op, kx, ke),
         NEW a \in Value(kx), NEW y, NEW b, Means(y, ke, b),
         Defined(op, a, b, typekind_to_llvm(kx))
  PROVE  LET t == typekind_to_llvm(kx)
             r == Operate(op, Reg(a, t), coerce_to(y, typekind_to_llvm(ke), t), t)
             m == In(kx, Meaning(op, a, b, kx, ke))
         IN  m \in Value(kx) /\ rval(r, t) = Reg(Image(kx, m), t)
<1> DEFINE t == typekind_to_llvm(kx)
           k == promote(kx, ke)  p == typekind_to_llvm(k)
           w == rval(coerce_to(y, typekind_to_llvm(ke), t), t).v
<1>1. /\ kx \in Kinds /\ ke \in Numeric /\ k \in Numeric /\ k \in Kinds
      /\ t \in Types /\ p \in Types /\ Bits[t] <= Bits[p]
  BY NumericKinds, Promotion, KindsHaveTypes DEF PlainCompound
<1>2. a \in Int /\ a \in Range(t) /\ b \in Int /\ Image(ke, b) = b /\ b \in Value(ke)
  BY <1>1, Images DEF Means
<1>3. rval(Reg(a, t), t).v = a
  BY <1>1, <1>2, WrapKeeps DEF rval, Reg
<1>4. w = Wrap(t, b)
  <2>1. Convertible(ke, kx)
    BY <1>1 DEF Convertible, Numeric
  <2>2. rval(coerce_to(y, typekind_to_llvm(ke), t), t) = Reg(Image(kx, Converted(kx, b)), t)
    BY <1>1, <2>1, Coercions
  <2>3. w = Image(kx, Converted(kx, b))
    BY <2>2 DEF Reg
  <2> QED
    BY <1>1, <1>2, <2>1, <2>3, Conversions
<1>5. op \in BinaryOps \ Comparisons
  BY DEF CompoundOps, BinaryOps, Comparisons, Divisions, Shifts
<1>6. Exact(op, a, b, t) \in Int /\ Exact(op, a, b, p) = Exact(op, a, b, t)
  <2>1. Exact(op, a, b, t) \in Int
    BY <1>1, <1>2, <1>5, ExactIsInteger
  <2>2. Exact(op, a, b, p) = Exact(op, a, b, t)
    BY DEF Exact, CompoundOps
  <2> QED
    BY <2>1, <2>2
<1>7. Wrap(t, Exact(op, a, w, t)) = Wrap(t, Exact(op, a, b, t))
  <2>1. CASE op \in {"+", "-", "*"}
    <3>1. /\ Wrap(t, a + w) = Wrap(t, a + b) /\ Wrap(t, a - w) = Wrap(t, a - b)
          /\ Wrap(t, a * w) = Wrap(t, a * b)
      BY <1>1, <1>2, <1>4, WrapOperand
    <3> QED
      BY <2>1, <3>1 DEF Exact
  <2>2. CASE op \in Divisions \union Shifts
    <3>1. ~Narrower(kx, ke)
      BY <2>2 DEF PlainCompound
    <3>2. Bits[typekind_to_llvm(ke)] <= Bits[t]
      <4>1. typekind_to_llvm(ke) \in Types
        BY <1>1, NumericKinds, KindsHaveTypes
      <4> QED
        BY <1>1, <3>1, <4>1, TypesHaveWidths DEF Narrower
    <3>3. w = b
      BY <1>1, <1>2, <3>2, SourcesKeepValues
    <3> QED
      BY <3>3
  <2> QED
    BY <2>1, <2>2, <1>5 DEF BinaryOps
<1>8. Operate(op, Reg(a, t), coerce_to(y, typekind_to_llvm(ke), t), t) = Reg(Wrap(t, Exact(op, a, b, t)), t)
  BY <1>3, <1>7 DEF Operate
<1>9. In(kx, Meaning(op, a, b, kx, ke)) = Wrap(t, Exact(op, a, b, t))
  <2>1. Meaning(op, a, b, kx, ke) = Wrap(p, Exact(op, a, b, p))
    BY <1>5 DEF Meaning, In
  <2> QED
    BY <1>1, <1>6, <2>1, WrapTwice DEF In
<1>10. /\ Means(Reg(Wrap(t, Exact(op, a, b, t)), t), kx, In(kx, Exact(op, a, b, t)))
       /\ rval(Reg(Wrap(t, Exact(op, a, b, t)), t), t) = Reg(Wrap(t, Exact(op, a, b, t)), t)
  BY <1>6, Computed
<1>11. In(kx, Exact(op, a, b, t)) = Wrap(t, Exact(op, a, b, t))
  BY DEF In
<1>12. Image(kx, Wrap(t, Exact(op, a, b, t))) = Wrap(t, Exact(op, a, b, t))
  BY DEF Image, Numeric
<1> QED
  BY <1>8, <1>9, <1>10, <1>11, <1>12 DEF Means

-----------------------------------------------------------------------------
\* The inductive invariant.

Operands == [val : Sources, gen : Kinds, tc : Kinds, mean : Int,
             id : Vars \union {NoVar}]

Typed == /\ kinds \in [Vars -> Kinds \union {"none"}]
         /\ types \in [Vars -> Types \union {"none"}]
         /\ slots \in [Vars -> [v : Int, t : Types \union {"none"}]]
         /\ means \in [Vars -> Int]
         /\ stack \in Seq(Operands)
         /\ nodes \in 0..MaxNodes /\ statements \in 0..MaxStatements

\* Of a variable: both tables know its kind, and its slot holds its value.
Stored(x) == /\ types[x] = typekind_to_llvm(kinds[x])
             /\ means[x] \in Value(kinds[x])
             /\ slots[x] = Reg(Image(kinds[x], means[x]), types[x])

\* Of an operand: checker and generator take it for one kind, it stands for a
\* value of it, and a variable it was read from still has that kind.
Faithful(o, ks) == /\ o.gen = o.tc /\ Means(o.val, o.tc, o.mean)
                   /\ o.id # NoVar => ks[o.id] = o.tc

\* A compound assignment has loaded a value of its variable.
Loaded == compound # NoCompound =>
            /\ compound.var \in Vars /\ compound.op \in CompoundOps
            /\ kinds[compound.var] \in Numeric
            /\ compound.mean \in Value(kinds[compound.var])
            /\ compound.val = Reg(compound.mean, typekind_to_llvm(kinds[compound.var]))

Inv == /\ Typed
       /\ \A x \in Declared : Stored(x)
       /\ \A i \in 1..Len(stack) : Faithful(stack[i], kinds)
       /\ Loaded

LEMMA Tops ==
  ASSUME Inv, stack # <<>>
  PROVE  /\ Len(stack) \in Nat \ {0} /\ Top \in Operands /\ Faithful(Top, kinds)
         /\ Top.tc \in Kinds /\ Top.gen = Top.tc /\ TypeOf(Top) = typekind_to_llvm(Top.tc)
         /\ Means(Top.val, Top.tc, Top.mean) /\ Top.mean \in Value(Top.tc) /\ Top.mean \in Int
<1>1. stack \in Seq(Operands)
  BY DEF Inv, Typed
<1>2. Len(stack) \in Nat \ {0} /\ Len(stack) \in 1..Len(stack)
  BY <1>1
<1>3. Top \in Operands /\ Faithful(Top, kinds)
  BY <1>1, <1>2 DEF Inv, Top
<1>4. Top.tc \in Kinds /\ Top.mean \in Int
  BY <1>3 DEF Operands
<1> QED
  BY <1>2, <1>3, <1>4 DEF Faithful, Means, TypeOf

\* Stacks of faithful operands.
Faithfuls(s, ks) == s \in Seq(Operands) /\ \A i \in 1..Len(s) : Faithful(s[i], ks)

LEMMA StackPush ==
  ASSUME NEW ks, NEW s, Faithfuls(s, ks), NEW o \in Operands, Faithful(o, ks)
  PROVE  Faithfuls(Append(s, o), ks)
BY DEF Faithfuls

LEMMA StackReplace ==
  ASSUME NEW ks, NEW s, Faithfuls(s, ks), s # <<>>, NEW o \in Operands, Faithful(o, ks)
  PROVE  Faithfuls([s EXCEPT ![Len(s)] = o], ks)
<1>1. s \in Seq(Operands) /\ Len(s) \in 1..Len(s)
  BY DEF Faithfuls
<1> QED
  BY <1>1 DEF Faithfuls

LEMMA StackDrop ==
  ASSUME NEW ks, NEW s, Faithfuls(s, ks), NEW n \in 0..Len(s)
  PROVE  Faithfuls(SubSeq(s, 1, n), ks)
<1>1. s \in Seq(Operands) /\ n \in Nat /\ n <= Len(s)
  BY DEF Faithfuls
<1>2. SubSeq(s, 1, n) \in Seq(Operands) /\ Len(SubSeq(s, 1, n)) = n
  BY <1>1
<1>3. \A i \in 1..n : SubSeq(s, 1, n)[i] = s[i]
  BY <1>1
<1> QED
  BY <1>1, <1>2, <1>3 DEF Faithfuls

LEMMA Made ==
  ASSUME NEW ks, NEW k \in Kinds, NEW x, NEW m, Means(x, k, m)
  PROVE  Operand(x, k, k, m) \in Operands /\ Faithful(Operand(x, k, k, m), ks)
<1>1. x \in Sources /\ m \in Int
  BY Images DEF Means
<1> QED
  BY <1>1 DEF Operand, Operands, Faithful

-----------------------------------------------------------------------------
\* Every step keeps the invariant.

LEMMA InitInv == Init => Inv
<1> SUFFICES ASSUME Init PROVE Inv
  OBVIOUS
<1>1. /\ kinds \in [Vars -> Kinds \union {"none"}]
      /\ types = [x \in Vars |-> IF kinds[x] = "none" THEN "none" ELSE typekind_to_llvm(kinds[x])]
      /\ means \in [Vars -> Arguments \union {0}]
      /\ \A x \in Vars : IF kinds[x] = "none" THEN means[x] = 0 ELSE means[x] \in Value(kinds[x])
      /\ slots = [x \in Vars |-> Reg(Image(kinds[x], means[x]), types[x])]
      /\ stack = <<>> /\ compound = NoCompound /\ nodes = 0 /\ statements = 0
  BY DEF Init
<1>2. types \in [Vars -> Types \union {"none"}]
  BY <1>1, KindsHaveTypes
<1>3. means \in [Vars -> Int]
  <2>1. Arguments \union {0} \subseteq Int
    BY BoundsAssumption
  <2> QED
    BY <1>1, <2>1
<1>4. \A x \in Vars : Image(kinds[x], means[x]) \in Int
  BY <1>3 DEF Image
<1>5. slots \in [Vars -> [v : Int, t : Types \union {"none"}]]
  BY <1>1, <1>2, <1>4 DEF Reg
<1>6. Typed
  BY <1>1, <1>2, <1>3, <1>5, BoundsAssumption DEF Typed
<1>7. ASSUME NEW x \in Declared PROVE Stored(x)
  <2>1. x \in Vars /\ kinds[x] # "none"
    BY DEF Declared, Undeclared
  <2> QED
    BY <1>1, <2>1 DEF Stored
<1>8. \A i \in 1..Len(stack) : Faithful(stack[i], kinds)
  BY <1>1
<1> QED
  BY <1>1, <1>6, <1>7, <1>8 DEF Inv, Loaded

LEMMA Stacked == Inv => Faithfuls(stack, kinds)
BY DEF Inv, Typed, Faithfuls

\* A node that touches nothing but the stack.
LEMMA ExpressionStep ==
  ASSUME Inv, Faithfuls(stack', kinds), nodes' \in 0..MaxNodes,
         UNCHANGED <<kinds, types, slots, means, compound, statements>>
  PROVE  Inv'
<1>1. Typed'
  BY DEF Inv, Typed, Faithfuls
<1>2. Declared' = Declared /\ \A x \in Declared : Stored(x)'
  BY DEF Inv, Declared, Undeclared, Stored
<1>3. Loaded'
  BY DEF Inv, Loaded
<1> QED
  BY <1>1, <1>2, <1>3 DEF Inv, Faithfuls

\* The end of a statement that gives a variable a value.
LEMMA StatementStep ==
  ASSUME Inv, EndStatement, statements < MaxStatements,
         NEW x \in Vars, NEW k \in Kinds, NEW m \in Value(k),
         kinds' = [kinds EXCEPT ![x] = k], types' = [types EXCEPT ![x] = typekind_to_llvm(k)],
         means' = [means EXCEPT ![x] = m],
         slots' = [slots EXCEPT ![x] = Reg(Image(k, m), typekind_to_llvm(k))]
  PROVE  Inv'
<1> DEFINE t == typekind_to_llvm(k)
<1>1. t \in Types /\ m \in Int /\ Image(k, m) \in Int
  BY KindsHaveTypes, Images
<1>2. Reg(Image(k, m), t) \in [v : Int, t : Types \union {"none"}]
  BY <1>1 DEF Reg
<1>3. Typed /\ stack' = <<>> /\ compound' = NoCompound /\ nodes' = nodes /\ statements' = statements + 1
  BY DEF Inv, EndStatement
<1>4. Typed'
  BY <1>1, <1>2, <1>3, BoundsAssumption DEF Typed
<1>5. ASSUME NEW y \in Declared' PROVE Stored(y)'
  <2>1. CASE y = x
    BY <1>3, <2>1 DEF Typed, Stored
  <2>2. CASE y # x
    <3>1. y \in Vars /\ y \in Declared
      BY <1>3, <2>2 DEF Declared, Undeclared, Typed
    <3>2. Stored(y) /\ kinds'[y] = kinds[y] /\ types'[y] = types[y] /\ means'[y] = means[y] /\ slots'[y] = slots[y]
      BY <1>3, <2>2, <3>1 DEF Inv, Typed
    <3> QED
      BY <3>2 DEF Stored
  <2> QED
    BY <2>1, <2>2
<1>6. Loaded'
  BY <1>3 DEF Loaded
<1> QED
  BY <1>3, <1>4, <1>5, <1>6 DEF Inv

\* A declared variable has a kind, and its slot loads at its type.
LEMMA Variables ==
  ASSUME Inv, NEW x \in Declared
  PROVE  /\ x \in Vars /\ kinds[x] \in Kinds /\ types[x] = typekind_to_llvm(kinds[x])
         /\ means[x] \in Value(kinds[x])
         /\ slots[x] = Reg(Image(kinds[x], means[x]), types[x])
BY DEF Inv, Typed, Stored, Declared, Undeclared

LEMMA NodeCounts ==
  ASSUME Inv, NEW needed \in Nat, Node(needed)
  PROVE  nodes' \in 0..MaxNodes /\ UNCHANGED <<kinds, types, compound, statements>>
BY BoundsAssumption DEF Inv, Typed, Node

\* A leaf of the expression.
LEMMA PushStep ==
  ASSUME Inv, NEW o \in Operands, Faithful(o, kinds), Push(o)
  PROVE  Inv'
<1>1. Faithfuls(stack', kinds)
  BY Stacked, StackPush DEF Push
<1>2. Len(stack) \in Nat
  BY DEF Inv, Typed
<1> QED
  BY <1>1, <1>2, NodeCounts, ExpressionStep DEF Push

LEMMA LiteralStep ==
  ASSUME Inv, NEW k \in Kinds, NEW n \in Literals, Literal(k, n)
  PROVE  Inv'
<1> DEFINE m == IF k = "char" THEN In(k, n) ELSE n
           t == typekind_to_llvm(k)
<1>1. n \in Nat /\ t \in Types /\ Half(t) \in Nat \ {0}
  BY BoundsAssumption, KindsHaveTypes, TypesHaveWidths
<1>2. m \in Value(k) /\ Wrap(t, n) = Image(k, m)
  <2>1. CASE k = "char"
    BY <1>1, <2>1, WrapInRange DEF In, Value, Image
  <2>2. CASE k = "bool"
    <3>1. n \in {0, 1} /\ t = "i1"
      BY <1>1, <2>2 DEF Literal, typekind_to_llvm
    <3>2. Wrap("i1", n) = -n
      BY <3>1, Booleans DEF Wrap
    <3> QED
      BY <2>2, <3>1, <3>2 DEF Value, Image
  <2>3. CASE k \in {"int", "long"}
    <3>1. n < Half(t)
      BY <2>3 DEF Literal
    <3>2. n \in Range(t)
      BY <1>1, <3>1 DEF Range
    <3>3. Wrap(t, n) = n
      BY <1>1, <3>2, WrapKeeps
    <3> QED
      BY <2>3, <3>2, <3>3 DEF Value, Image
  <2> QED
    BY <2>1, <2>2, <2>3 DEF Kinds
<1>3. Means(Constant(n), k, m)
  BY <1>1, <1>2 DEF Means, Constant, Reg, Sources
<1>4. Push(Operand(Constant(n), k, k, m))
  BY DEF Literal
<1> HIDE DEF m
<1> QED
  BY <1>3, <1>4, Made, PushStep

LEMMA IdentifierStep ==
  ASSUME Inv, NEW x \in Vars, Identifier(x)
  PROVE  Inv'
<1> DEFINE k == kinds[x]  m == means[x]  t == types[x]
           o == Operand(rval(slots[x], t), KindOfType(t), k, m)
           oid == [o EXCEPT !.id = x]
<1>1. x \in Declared
  BY DEF Identifier
<1>2. k \in Kinds /\ t = typekind_to_llvm(k) /\ m \in Value(k) /\ slots[x] = Reg(Image(k, m), t)
  BY <1>1, Variables
<1>3. rval(slots[x], t) = slots[x] /\ Means(slots[x], k, m) /\ KindOfType(t) = k
  BY <1>2, ImagesMean, KindsHaveTypes
<1>4. o \in Operands /\ Faithful(o, kinds)
  BY <1>2, <1>3, Made
<1>5. /\ oid \in Operands /\ oid.id = x
      /\ oid.val = o.val /\ oid.gen = o.gen /\ oid.tc = o.tc /\ oid.mean = o.mean /\ o.tc = k
  BY <1>4 DEF Operands, Operand
<1>6. Faithful(oid, kinds)
  BY <1>4, <1>5 DEF Faithful
<1>7. Push(oid)
  BY DEF Identifier
<1> HIDE DEF oid
<1> QED
  BY <1>5, <1>6, <1>7, PushStep

\* An operator in the place of its operand.
LEMMA ReplaceStep ==
  ASSUME Inv, stack # <<>>, NEW o \in Operands, Faithful(o, kinds), Replace(o), UNCHANGED <<slots, means>>
  PROVE  Inv'
<1>1. Faithfuls(stack', kinds)
  BY Stacked, StackReplace DEF Replace
<1>2. Len(stack) - 1 \in Nat
  BY DEF Inv, Typed
<1> QED
  BY <1>1, <1>2, NodeCounts, ExpressionStep DEF Replace

LEMMA NotStep ==
  ASSUME Inv, Not
  PROVE  Inv'
<1> DEFINE c == Compare("==", Top.val, Constant(0), "i1")
<1>1. stack # <<>> /\ Top.tc = "bool"
  BY DEF Not
<1>2. Means(Top.val, "bool", Top.mean)
  BY <1>1, Tops
<1>3. Top.mean \in {0, 1} /\ rval(Top.val, "i1").v = -Top.mean
  BY <1>2 DEF Means, Value, Image, typekind_to_llvm, rval, Reg
<1>4. rval(Constant(0), "i1").v = 0
  BY Booleans, WrapKeeps DEF Types, rval, Reg, Constant
<1>5. Means(c, "bool", 1 - Top.mean)
  <2>1. CASE Top.mean = 0
    <3>1. c = Reg(-1, "i1")
      BY <1>3, <1>4, <2>1 DEF Compare, Holds
    <3> QED
      BY <2>1, <3>1, Truths
  <2>2. CASE Top.mean = 1
    <3>1. c = Reg(0, "i1")
      BY <1>3, <1>4, <2>2 DEF Compare, Holds
    <3> QED
      BY <2>2, <3>1, Truths
  <2> QED
    BY <1>3, <2>1, <2>2
<1>6. Operand(c, "bool", "bool", 1 - Top.mean) \in Operands /\ Faithful(Operand(c, "bool", "bool", 1 - Top.mean), kinds)
  BY <1>5, Made DEF Kinds
<1> QED
  BY <1>1, <1>6, ReplaceStep DEF Not

\* An arithmetic operation on a constant and the operand on top.
LEMMA NumericTop ==
  ASSUME Inv, stack # <<>>, Top.tc \in Numeric
  PROVE  /\ TypeOf(Top) \in Types /\ Top.gen = Top.tc /\ TypeOf(Top) = typekind_to_llvm(Top.tc)
         /\ Top.mean \in Range(TypeOf(Top)) /\ Top.mean \in Int
         /\ rval(Top.val, TypeOf(Top)).v = Top.mean
<1>1. Top.tc \in Kinds /\ TypeOf(Top) = typekind_to_llvm(Top.tc) /\ Top.gen = Top.tc
      /\ Means(Top.val, Top.tc, Top.mean)
  BY Tops
<1>2. Top.mean \in Value(Top.tc) /\ Wrap(TypeOf(Top), Top.val.v) = Image(Top.tc, Top.mean)
  BY <1>1 DEF Means
<1> QED
  BY <1>1, <1>2, KindsHaveTypes, Images DEF rval, Reg

\* 0 and -1 are values of every type.
LEMMA SmallConstants ==
  ASSUME NEW t \in Types
  PROVE  rval(Constant(0), t).v = 0 /\ rval(Constant(-1), t).v = -1
<1>1. 0 \in Range(t) /\ -1 \in Range(t)
  BY TypesHaveWidths DEF Range
<1> QED
  BY <1>1, WrapKeeps DEF rval, Reg, Constant

LEMMA NegateStep ==
  ASSUME Inv, Negate
  PROVE  Inv'
<1> DEFINE k == Top.tc  t == TypeOf(Top)  m == Top.mean
           r == Operate("-", Constant(0), Top.val, t)
<1>1. stack # <<>> /\ k \in Numeric /\ k \in Kinds
  BY NumericKinds DEF Negate
<1>2. t \in Types /\ Top.gen = k /\ t = typekind_to_llvm(k) /\ m \in Int /\ rval(Top.val, t).v = m
  BY <1>1, NumericTop
<1>3. r = Reg(Wrap(t, -m), t)
  <2>1. Exact("-", 0, m, t) = -m
    BY <1>2 DEF Exact
  <2> QED
    BY <1>2, <2>1, SmallConstants DEF Operate
<1>4. Means(r, k, In(k, -m))
  BY <1>1, <1>2, <1>3, Computed
<1>5. Operand(r, k, k, In(k, -m)) \in Operands /\ Faithful(Operand(r, k, k, In(k, -m)), kinds)
  BY <1>1, <1>4, Made
<1> QED
  BY <1>1, <1>2, <1>5, ReplaceStep DEF Negate

LEMMA ComplementStep ==
  ASSUME Inv, Complement
  PROVE  Inv'
<1> DEFINE k == Top.tc  t == TypeOf(Top)  m == Top.mean
           r == Operate("-", Constant(-1), Top.val, t)
<1>1. stack # <<>> /\ k \in Numeric /\ k \in Kinds
  BY NumericKinds DEF Complement
<1>2. t \in Types /\ Top.gen = k /\ t = typekind_to_llvm(k) /\ m \in Int /\ rval(Top.val, t).v = m
  BY <1>1, NumericTop
<1>3. r = Reg(Wrap(t, -1 - m), t)
  <2>1. Exact("-", -1, m, t) = -1 - m
    BY <1>2 DEF Exact
  <2> QED
    BY <1>2, <2>1, SmallConstants DEF Operate
<1>4. Means(r, k, In(k, -1 - m))
  BY <1>1, <1>2, <1>3, Computed
<1>5. Operand(r, k, k, In(k, -1 - m)) \in Operands /\ Faithful(Operand(r, k, k, In(k, -1 - m)), kinds)
  BY <1>1, <1>4, Made
<1> QED
  BY <1>1, <1>2, <1>5, ReplaceStep DEF Complement

LEMMA CastStep ==
  ASSUME Inv, NEW k \in Kinds, Cast(k)
  PROVE  Inv'
<1> DEFINE c == coerce_to(Top.val, TypeOf(Top), typekind_to_llvm(k))
<1>1. stack # <<>> /\ Convertible(Top.tc, k)
  BY DEF Cast
<1>2. Means(c, k, Converted(k, Top.mean))
  BY <1>1, Tops, Coercions
<1>3. /\ Operand(c, k, k, Converted(k, Top.mean)) \in Operands
      /\ Faithful(Operand(c, k, k, Converted(k, Top.mean)), kinds)
  BY <1>2, Made
<1> QED
  BY <1>1, <1>3, ReplaceStep DEF Cast

LEMMA CallStep ==
  ASSUME Inv, NEW param \in Kinds, NEW ret \in Kinds, Call(param, ret)
  PROVE  Inv'
<1> DEFINE p == typekind_to_llvm(param)  r == typekind_to_llvm(ret)
           a == Converted(param, Top.mean)  m == Converted(ret, a)
           slot == rval(coerce_to(Top.val, TypeOf(Top), p), p)
           res == rval(coerce_to(slot, p, r), r)
<1>1. stack # <<>> /\ Convertible(Top.tc, param) /\ Convertible(param, ret)
  BY DEF Call
<1>2. slot = Reg(Image(param, a), p) /\ a \in Value(param)
  BY <1>1, Tops, Coercions DEF Means
<1>3. Means(slot, param, a)
  BY <1>2, ImagesMean
<1>4. res = Reg(Image(ret, m), r) /\ m \in Value(ret)
  BY <1>1, <1>3, Coercions DEF Means
<1>5. Means(res, ret, m) /\ KindOfType(r) = ret
  BY <1>4, ImagesMean, KindsHaveTypes
<1>6. Operand(res, ret, ret, m) \in Operands /\ Faithful(Operand(res, ret, ret, m), kinds)
  BY <1>5, Made
<1>7. Replace(Operand(res, KindOfType(r), ret, m)) /\ UNCHANGED <<slots, means>>
  BY DEF Call
<1> HIDE DEF res, m, r
<1> QED
  BY <1>1, <1>5, <1>6, <1>7, ReplaceStep

\* ++ and -- store what they compute before anything else is loaded.
LEMMA StepStep ==
  ASSUME Inv, NEW op \in {"+", "-"}, NEW prefix \in BOOLEAN, Step(op, prefix)
  PROVE  Inv'
<1> DEFINE k == Top.tc  t == TypeOf(Top)  x == Top.id  m == Top.mean
           new == Operate(op, Top.val, Constant(1), t)
           to == In(k, Exact(op, m, 1, t))
           val == IF prefix THEN new ELSE Top.val
           mean == IF prefix THEN to ELSE m
<1>1. stack # <<>> /\ x # NoVar /\ k \in Numeric /\ k \in Kinds
  BY NumericKinds DEF Step
<1>2. /\ t \in Types /\ Top.gen = k /\ t = typekind_to_llvm(k) /\ m \in Int /\ rval(Top.val, t).v = m
      /\ Means(Top.val, k, m)
  BY <1>1, NumericTop, Tops
<1>3. x \in Vars /\ kinds[x] = k
  BY <1>1, Tops DEF Operands, Faithful
<1>4. Exact(op, m, 1, t) \in Int
  BY <1>2 DEF Exact
<1>5. new = Reg(Wrap(t, Exact(op, m, 1, t)), t)
  <2>1. rval(Constant(1), t).v = Wrap(t, 1)
    BY DEF rval, Reg, Constant
  <2>2. Wrap(t, m + Wrap(t, 1)) = Wrap(t, m + 1) /\ Wrap(t, m - Wrap(t, 1)) = Wrap(t, m - 1)
    BY <1>2, WrapOperand
  <2> QED
    BY <1>2, <2>1, <2>2 DEF Operate, Exact
<1>6. Means(new, k, to) /\ rval(new, t) = new /\ to \in Value(k) /\ to \in Int
  <2>1. Means(new, k, to) /\ rval(new, t) = new
    BY <1>1, <1>2, <1>4, <1>5, Computed
  <2> QED
    BY <1>1, <2>1, Images DEF Means
<1>7. new = Reg(Image(k, to), t)
  BY <1>1, <1>2, <1>5 DEF In, Image, Numeric
<1>8. Means(val, k, mean)
  BY <1>2, <1>6
<1>9. Operand(val, k, k, mean) \in Operands /\ Faithful(Operand(val, k, k, mean), kinds)
  BY <1>1, <1>8, Made
<1>10. /\ Replace(Operand(val, k, k, mean))
       /\ slots' = [slots EXCEPT ![x] = new] /\ means' = [means EXCEPT ![x] = to]
  BY <1>2, <1>6 DEF Step
<1> HIDE DEF val, mean, new, to, k, t, x, m
<1>11. Faithfuls(stack', kinds)
  BY <1>1, <1>9, <1>10, Stacked, StackReplace DEF Replace
<1>12. nodes' \in 0..MaxNodes /\ UNCHANGED <<kinds, types, compound, statements>>
  <2>1. Len(stack) - 1 \in Nat
    BY <1>1 DEF Inv, Typed
  <2> QED
    BY <1>10, <2>1, NodeCounts DEF Replace
<1>13. Image(k, to) \in Int /\ new \in [v : Int, t : Types \union {"none"}]
  BY <1>1, <1>2, <1>6, <1>7, Images DEF Reg
<1>14. Typed'
  BY <1>6, <1>10, <1>11, <1>12, <1>13 DEF Inv, Typed, Faithfuls
<1>15. ASSUME NEW y \in Declared' PROVE Stored(y)'
  <2>1. y \in Declared /\ Stored(y) /\ y \in Vars
    BY <1>12 DEF Inv, Declared, Undeclared
  <2>2. CASE y = x
    BY <1>2, <1>3, <1>6, <1>7, <1>10, <1>12, <2>1, <2>2 DEF Inv, Typed, Stored
  <2>3. CASE y # x
    BY <1>10, <1>12, <2>1, <2>3 DEF Inv, Typed, Stored
  <2> QED
    BY <2>2, <2>3
<1>16. Loaded'
  BY <1>12 DEF Inv, Loaded
<1> QED
  BY <1>11, <1>12, <1>14, <1>15, <1>16 DEF Inv, Faithfuls

LEMMA BinaryStep ==
  ASSUME Inv, NEW op \in BinaryOps, Binary(op)
  PROVE  Inv'
<1> DEFINE ka == Below.tc  kb == Top.tc  n == Len(stack) - 2
           t == type_for_op(TypeOf(Below), TypeOf(Top))
           u == coerce_to(Below.val, TypeOf(Below), t)
           w == coerce_to(Top.val, TypeOf(Top), t)
           val == IF op \in Comparisons THEN Compare(op, u, w, t) ELSE Operate(op, u, w, t)
           gen == IF op \in Comparisons THEN "bool" ELSE KindOfResult(t)
           k == InferBinary(op, ka, kb)
           m == Meaning(op, Below.mean, Top.mean, ka, kb)
<1>1. /\ Len(stack) > 1 /\ Plain(op, ka, kb)
      /\ Defined(op, Below.mean, Top.mean, typekind_to_llvm(promote(ka, kb)))
  BY DEF Binary
<1>2. stack \in Seq(Operands) /\ n \in 0..Len(stack) /\ stack # <<>> /\ Len(stack) - 1 \in 1..Len(stack)
  BY <1>1 DEF Inv, Typed
<1>3. kb \in Kinds /\ TypeOf(Top) = typekind_to_llvm(kb) /\ Means(Top.val, kb, Top.mean)
  BY <1>2, Tops
<1>4. ka \in Kinds /\ TypeOf(Below) = typekind_to_llvm(ka) /\ Means(Below.val, ka, Below.mean)
  <2>1. Below \in Operands /\ Faithful(Below, kinds)
    BY <1>2 DEF Inv, Below
  <2> QED
    BY <2>1 DEF Operands, Faithful, TypeOf
<1>5. Means(val, k, m) /\ gen = k /\ k \in Kinds
  <2>1. CASE op \in Comparisons
    <3>1. Means(Compare(op, u, w, t), "bool", IF Holds(op, Below.mean, Top.mean) THEN 1 ELSE 0)
      BY <1>1, <1>3, <1>4, <2>1, ComparisonMeans
    <3> QED
      BY <2>1, <3>1 DEF Meaning, InferBinary, Kinds
  <2>2. CASE op \notin Comparisons
    <3>1. Means(Operate(op, u, w, t), promote(ka, kb), m) /\ KindOfResult(t) = promote(ka, kb)
      BY <1>1, <1>3, <1>4, <2>2, OperationMeans
    <3> QED
      BY <2>2, <3>1 DEF InferBinary, promote, Kinds
  <2> QED
    BY <2>1, <2>2
<1>6. /\ stack' = Append(SubSeq(stack, 1, n), Operand(val, gen, k, m))
      /\ Node(n) /\ UNCHANGED <<slots, means>>
  BY DEF Binary
<1> HIDE DEF val, gen, k, m, n
<1>7. Operand(val, gen, k, m) \in Operands /\ Faithful(Operand(val, gen, k, m), kinds)
  BY <1>5, Made
<1>8. Faithfuls(stack', kinds)
  <2>1. Faithfuls(SubSeq(stack, 1, n), kinds)
    BY <1>2, Stacked, StackDrop
  <2> QED
    BY <1>6, <1>7, <2>1, StackPush
<1>9. nodes' \in 0..MaxNodes /\ UNCHANGED <<kinds, types, compound, statements>>
  BY <1>2, <1>6, NodeCounts
<1> QED
  BY <1>6, <1>8, <1>9, ExpressionStep

\* Statements.
LEMMA Completes ==
  ASSUME Inv, Complete
  PROVE  stack # <<>> /\ statements < MaxStatements
<1>1. Len(stack) = 1 /\ statements < MaxStatements
  BY DEF Complete
<1>2. ASSUME stack = <<>> PROVE FALSE
  <2>1. Len(<<>>) = 0
    OBVIOUS
  <2> QED
    BY <1>1, <1>2, <2>1
<1> QED
  BY <1>1, <1>2

LEMMA ExprStmtStep ==
  ASSUME Inv, ExprStmt
  PROVE  Inv'
<1>1. Whole /\ EndStatement /\ UNCHANGED <<kinds, types, slots, means>>
  BY DEF ExprStmt
<1>2. statements < MaxStatements
  BY <1>1, Completes DEF Whole
<1>3. Typed'
  BY <1>1, <1>2, BoundsAssumption DEF Inv, Typed, EndStatement
<1>4. Declared' = Declared /\ \A x \in Declared : Stored(x)'
  BY <1>1 DEF Inv, Declared, Undeclared, Stored
<1>5. stack' = <<>> /\ compound' = NoCompound
  BY <1>1 DEF EndStatement
<1> QED
  BY <1>3, <1>4, <1>5 DEF Inv, Loaded

LEMMA DeclareStep ==
  ASSUME Inv, NEW x \in Vars, Declare(x)
  PROVE  Inv'
<1> DEFINE k == Top.tc  t == typekind_to_llvm(k)  m == Top.mean
<1>1. stack # <<>> /\ statements < MaxStatements
  BY Completes DEF Declare, Whole
<1>2. k \in Kinds /\ TypeOf(Top) = t /\ m \in Value(k) /\ Means(Top.val, k, m)
  BY <1>1, Tops
<1>3. rval(Top.val, t) = Reg(Image(k, m), t)
  BY <1>2 DEF Means, rval
<1>4. /\ EndStatement
      /\ kinds' = [kinds EXCEPT ![x] = k] /\ types' = [types EXCEPT ![x] = t]
      /\ means' = [means EXCEPT ![x] = m] /\ slots' = [slots EXCEPT ![x] = Reg(Image(k, m), t)]
  BY <1>2, <1>3 DEF Declare, emit_store
<1> QED
  BY <1>1, <1>2, <1>4, StatementStep

LEMMA DeclareTypedStep ==
  ASSUME Inv, NEW x \in Vars, NEW k \in Kinds, DeclareTyped(x, k)
  PROVE  Inv'
<1> DEFINE t == typekind_to_llvm(k)  m == Converted(k, Top.mean)
           c == coerce_to(Top.val, TypeOf(Top), t)
<1>1. stack # <<>> /\ statements < MaxStatements /\ Convertible(Top.tc, k)
  BY Completes DEF DeclareTyped, Whole
<1>2. rval(c, t) = Reg(Image(k, m), t) /\ m \in Value(k)
  BY <1>1, Tops, Coercions DEF Means
<1>3. /\ EndStatement
      /\ kinds' = [kinds EXCEPT ![x] = k] /\ types' = [types EXCEPT ![x] = t]
      /\ means' = [means EXCEPT ![x] = m] /\ slots' = [slots EXCEPT ![x] = rval(c, t)]
  BY DEF DeclareTyped, emit_store
<1> QED
  BY <1>1, <1>2, <1>3, StatementStep

LEMMA DeclareEmptyStep ==
  ASSUME Inv, NEW x \in Vars, NEW k \in Kinds, DeclareEmpty(x, k)
  PROVE  Inv'
<1> DEFINE t == typekind_to_llvm(k)
<1>1. t \in Types /\ Half(t) \in Nat \ {0}
  BY KindsHaveTypes, TypesHaveWidths
<1>2. 0 \in Range(t)
  BY <1>1 DEF Range
<1>3. 0 \in Value(k) /\ Image(k, 0) = 0
  <2>1. CASE k = "bool"
    <3>1. Value(k) = {0, 1} /\ Image(k, 0) = -0
      BY <2>1 DEF Value, Image
    <3> QED
      BY <3>1
  <2>2. CASE k # "bool"
    <3>1. Value(k) = Range(t) /\ Image(k, 0) = 0
      BY <2>2 DEF Value, Image
    <3> QED
      BY <1>2, <3>1
  <2> QED
    BY <2>1, <2>2
<1>4. rval(Constant(0), t) = Reg(Image(k, 0), t)
  BY <1>1, <1>2, <1>3, WrapKeeps DEF rval, Constant, Reg
<1>5. /\ EndStatement /\ statements < MaxStatements
      /\ kinds' = [kinds EXCEPT ![x] = k] /\ types' = [types EXCEPT ![x] = t]
      /\ means' = [means EXCEPT ![x] = 0] /\ slots' = [slots EXCEPT ![x] = rval(Constant(0), t)]
  BY DEF DeclareEmpty, emit_store
<1> HIDE DEF t
<1> QED
  BY <1>3, <1>4, <1>5, StatementStep DEF t

LEMMA AssignStep ==
  ASSUME Inv, NEW x \in Vars, Assign(x)
  PROVE  Inv'
<1> DEFINE k == kinds[x]  t == types[x]  m == Converted(k, Top.mean)
           c == coerce_to(Top.val, TypeOf(Top), t)
<1>1. stack # <<>> /\ statements < MaxStatements /\ x \in Declared /\ Convertible(Top.tc, k)
  BY Completes DEF Assign, Whole
<1>2. k \in Kinds /\ t = typekind_to_llvm(k)
  BY <1>1, Variables
<1>3. rval(c, t) = Reg(Image(k, m), t) /\ m \in Value(k)
  BY <1>1, <1>2, Tops, Coercions DEF Means
<1>4. /\ EndStatement /\ kinds' = kinds /\ types' = types
      /\ means' = [means EXCEPT ![x] = m] /\ slots' = [slots EXCEPT ![x] = rval(c, t)]
  BY DEF Assign, emit_store
<1>5. kinds' = [kinds EXCEPT ![x] = k] /\ types' = [types EXCEPT ![x] = typekind_to_llvm(k)]
  BY <1>2, <1>4 DEF Inv, Typed
<1> QED
  BY <1>1, <1>2, <1>3, <1>4, <1>5, StatementStep

LEMMA BeginCompoundStep ==
  ASSUME Inv, NEW x \in Vars, NEW op \in CompoundOps, BeginCompound(x, op)
  PROVE  Inv'
<1> DEFINE k == kinds[x]
<1>1. /\ x \in Declared /\ k \in Numeric /\ UNCHANGED <<kinds, types, slots, means, stack, nodes, statements>>
      /\ compound' = [var |-> x, op |-> op, val |-> rval(slots[x], types[x]), mean |-> means[x]]
  BY DEF BeginCompound
<1>2. /\ k \in Kinds /\ types[x] = typekind_to_llvm(k) /\ means[x] \in Value(k)
      /\ slots[x] = Reg(Image(k, means[x]), types[x])
  BY <1>1, Variables
<1>3. rval(slots[x], types[x]) = Reg(means[x], typekind_to_llvm(k))
  BY <1>1, <1>2, ImagesMean, Images
<1>4. Loaded'
  BY <1>1, <1>2, <1>3 DEF Loaded
<1>5. Declared' = Declared /\ \A y \in Declared : Stored(y)'
  BY <1>1 DEF Inv, Declared, Undeclared, Stored
<1>6. Typed'
  BY <1>1 DEF Inv, Typed
<1>7. \A i \in 1..Len(stack') : Faithful(stack'[i], kinds')
  BY <1>1 DEF Inv
<1> QED
  BY <1>4, <1>5, <1>6, <1>7 DEF Inv

LEMMA EndCompoundStep ==
  ASSUME Inv, EndCompound
  PROVE  Inv'
<1> DEFINE x == compound.var  op == compound.op  k == kinds[x]  t == types[x]
           new == Operate(op, compound.val, coerce_to(Top.val, TypeOf(Top), t), t)
           m == In(k, Meaning(op, compound.mean, Top.mean, k, Top.tc))
<1>1. /\ stack # <<>> /\ statements < MaxStatements /\ compound # NoCompound
      /\ PlainCompound(op, k, Top.tc) /\ Defined(op, compound.mean, Top.mean, typekind_to_llvm(k))
  BY Completes DEF EndCompound
<1>2. /\ x \in Vars /\ op \in CompoundOps /\ k \in Numeric /\ compound.mean \in Value(k)
      /\ compound.val = Reg(compound.mean, typekind_to_llvm(k))
  BY <1>1 DEF Inv, Loaded
<1>3. x \in Declared /\ k \in Kinds
  BY <1>2, NumericKinds DEF Declared, Undeclared
<1>4. t = typekind_to_llvm(k)
  BY <1>3, Variables
<1>5. Top.tc \in Kinds /\ TypeOf(Top) = typekind_to_llvm(Top.tc) /\ Means(Top.val, Top.tc, Top.mean)
  BY <1>1, Tops
<1>6. m \in Value(k) /\ rval(new, t) = Reg(Image(k, m), t)
  BY <1>1, <1>2, <1>4, <1>5, CompoundMeans
<1>7. /\ EndStatement /\ kinds' = kinds /\ types' = types
      /\ means' = [means EXCEPT ![x] = m] /\ slots' = [slots EXCEPT ![x] = rval(new, t)]
  BY DEF EndCompound, emit_store
<1>8. kinds' = [kinds EXCEPT ![x] = k] /\ types' = [types EXCEPT ![x] = typekind_to_llvm(k)]
  BY <1>2, <1>4, <1>7 DEF Inv, Typed
<1> HIDE DEF m, new, x, op, k, t
<1>9. slots' = [slots EXCEPT ![x] = Reg(Image(k, m), typekind_to_llvm(k))]
  BY <1>4, <1>6, <1>7
<1> QED
  BY <1>1, <1>2, <1>3, <1>6, <1>7, <1>8, <1>9, StatementStep

LEMMA NextInv == Inv /\ [Next]_vars => Inv'
<1> SUFFICES ASSUME Inv, [Next]_vars PROVE Inv'
  OBVIOUS
<1>1. CASE UNCHANGED vars
  BY <1>1 DEF vars, Inv, Typed, Stored, Loaded, Declared, Undeclared
<1>2. CASE \E k \in Kinds, n \in Literals : Literal(k, n)
  BY <1>2, LiteralStep
<1>3. CASE \E x \in Vars : Identifier(x)
  BY <1>3, IdentifierStep
<1>4. CASE Not \/ Negate \/ Complement
  BY <1>4, NotStep, NegateStep, ComplementStep
<1>5. CASE \E op \in {"+", "-"}, prefix \in BOOLEAN : Step(op, prefix)
  BY <1>5, StepStep
<1>6. CASE \E op \in Operators : Binary(op)
  BY <1>6, BinaryStep, BoundsAssumption
<1>7. CASE \E k \in Kinds : Cast(k)
  BY <1>7, CastStep
<1>8. CASE \E param, ret \in Kinds : Call(param, ret)
  BY <1>8, CallStep
<1>9. CASE ExprStmt
  BY <1>9, ExprStmtStep
<1>10. CASE \E x \in Vars : Declare(x) \/ Assign(x)
  BY <1>10, DeclareStep, AssignStep
<1>11. CASE \E x \in Vars, k \in Kinds : DeclareTyped(x, k) \/ DeclareEmpty(x, k)
  BY <1>11, DeclareTypedStep, DeclareEmptyStep
<1>12. CASE \E x \in Vars, op \in CompoundOps \intersect Operators : BeginCompound(x, op)
  BY <1>12, BeginCompoundStep
<1>13. CASE EndCompound
  BY <1>13, EndCompoundStep
<1> QED
  BY <1>1, <1>2, <1>3, <1>4, <1>5, <1>6, <1>7, <1>8, <1>9, <1>10, <1>11, <1>12, <1>13 DEF Next

LEMMA SpecInv == Spec => []Inv
BY InitInv, NextInv, PTL DEF Spec

-----------------------------------------------------------------------------
\* The theorems.

LEMMA InvTypeOK == Inv => TypeOK
<1> SUFFICES ASSUME Inv PROVE TypeOK
  OBVIOUS
<1>1. Typed
  BY DEF Inv
<1>2. ASSUME NEW x \in Declared PROVE slots[x] \in Registers
  <2>1. /\ kinds[x] \in Kinds /\ types[x] = typekind_to_llvm(kinds[x])
        /\ slots[x] = Reg(Image(kinds[x], means[x]), types[x]) /\ means[x] \in Value(kinds[x])
    BY Variables
  <2>2. types[x] \in Types /\ Image(kinds[x], means[x]) \in Range(types[x]) /\ Image(kinds[x], means[x]) \in Int
    BY <2>1, KindsHaveTypes, Images
  <2> QED
    BY <2>1, <2>2 DEF Reg, Registers
<1>3. compound = NoCompound \/ compound.var \in Declared
  BY DEF Inv, Loaded, Numeric, Declared, Undeclared, Kinds
<1>4. ASSUME NEW i \in DOMAIN stack
      PROVE  stack[i].gen \in Kinds /\ stack[i].tc \in Kinds /\ stack[i].id \in Declared \union {NoVar}
  <2>1. i \in 1..Len(stack) /\ stack[i] \in Operands
    BY <1>1 DEF Typed
  <2>2. Faithful(stack[i], kinds)
    BY <2>1 DEF Inv
  <2>3. stack[i].gen \in Kinds /\ stack[i].tc \in Kinds /\ stack[i].id \in Vars \union {NoVar}
    BY <2>1 DEF Operands
  <2>4. stack[i].id # NoVar => stack[i].id \in Declared
    BY <2>2, <2>3 DEF Faithful, Declared, Undeclared, Kinds
  <2> QED
    BY <2>3, <2>4
<1>5. DOMAIN slots = Vars
  BY <1>1 DEF Typed
<1> QED
  BY <1>1, <1>2, <1>3, <1>4, <1>5 DEF TypeOK, Typed

\* Tables, operands and counters are of their types, and the slots of declared
\* variables are registers in the range of their types.
THEOREM TypeCorrect == Spec => []TypeOK
BY SpecInv, InvTypeOK, PTL

LEMMA OperandsMean ==
  ASSUME Inv, NEW i \in DOMAIN stack
  PROVE  /\ stack[i].gen = stack[i].tc /\ stack[i].tc \in Kinds
         /\ Means(stack[i].val, stack[i].tc, stack[i].mean)
<1>1. stack \in Seq(Operands) /\ i \in 1..Len(stack) /\ stack[i] \in Operands
  BY DEF Inv, Typed
<1>2. Faithful(stack[i], kinds)
  BY <1>1 DEF Inv
<1> QED
  BY <1>1, <1>2 DEF Faithful, Operands

LEMMA InvTypesAgree == Inv => TypesAgree
<1> SUFFICES ASSUME Inv PROVE TypesAgree
  OBVIOUS
<1>1. ASSUME NEW i \in DOMAIN stack
      PROVE  stack[i].gen = stack[i].tc /\ stack[i].val.t \in {TypeOf(stack[i]), "const"}
  BY <1>1, OperandsMean DEF Means, TypeOf
<1>2. ASSUME NEW x \in Declared
      PROVE  types[x] = typekind_to_llvm(kinds[x]) /\ slots[x].t = types[x]
  <2>1. /\ types[x] = typekind_to_llvm(kinds[x])
        /\ slots[x] = Reg(Image(kinds[x], means[x]), types[x])
    BY <1>2, Variables
  <2>2. Reg(Image(kinds[x], means[x]), types[x]).t = types[x]
    BY DEF Reg
  <2> QED
    BY <2>1, <2>2
<1> QED
  BY <1>1, <1>2 DEF TypesAgree

\* The checker and the generator give every node and every variable one kind,
\* and its register has that kind's type, whatever the widths.
THEOREM PassesAgree == Spec => []TypesAgree
BY SpecInv, InvTypesAgree, PTL

LEMMA InvSlotsHoldVariables == Inv => SlotsHoldVariables
<1> SUFFICES ASSUME Inv, NEW x \in Declared PROVE slots[x].v = Image(kinds[x], means[x])
  BY DEF SlotsHoldVariables
<1>1. slots[x] = Reg(Image(kinds[x], means[x]), types[x])
  BY Variables
<1>2. Reg(Image(kinds[x], means[x]), types[x]).v = Image(kinds[x], means[x])
  BY DEF Reg
<1> QED
  BY <1>1, <1>2

\* Generated code leaves in every slot what the program means its variable to
\* hold, whatever the expressions assigned to it and the widths of the types.
THEOREM SlotsAreRight == Spec => []SlotsHoldVariables
BY SpecInv, InvSlotsHoldVariables, PTL

LEMMA InvOperandsKeepMeaning == Inv => OperandsKeepMeaning
<1> SUFFICES ASSUME Inv PROVE OperandsKeepMeaning
  OBVIOUS
<1>1. ASSUME NEW i \in DOMAIN stack
      PROVE  rval(stack[i].val, TypeOf(stack[i])).v = Image(stack[i].tc, stack[i].mean)
  BY <1>1, OperandsMean DEF Means, TypeOf, rval, Reg
<1>2. ASSUME compound # NoCompound
      PROVE  compound.val.v = Image(kinds[compound.var], compound.mean)
  BY <1>2 DEF Inv, Loaded, Reg, Image, Numeric
<1> QED
  BY <1>1, <1>2 DEF OperandsKeepMeaning

\* An operand computed keeps standing for the value of its expression until it
\* is used, whatever the nodes between store.
THEOREM OperandsAreRight == Spec => []OperandsKeepMeaning
BY SpecInv, InvOperandsKeepMeaning, PTL
=============================================================================
