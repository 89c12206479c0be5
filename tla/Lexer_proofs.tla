----------------------------- MODULE Lexer_proofs -----------------------------
(***************************************************************************)
(* The arena's blocks lie apart, whatever is asked of it and when the      *)
(* lexer uses it; and for texts of any length, every token is the longest  *)
(* lexeme that begins where it does, its place is true, and all the lexer  *)
(* skips between two tokens are blanks and comments.                       *)
(***************************************************************************)
EXTENDS Lexemes, Counting, FiniteSetTheorems, TLAPS

\* The inductive invariant: BlocksApart says nothing of a chunk without
\* blocks, and where the next block goes depends on the chunk alone.
Filled(a) == \A k \in DOMAIN a.chunks : /\ a.chunks[k].used <= a.chunks[k].cap
                                        /\ a.chunks[k].used % 8 = 0

Inside(a) == \A i \in DOMAIN a.blocks :
                /\ a.blocks[i].chunk \in DOMAIN a.chunks
                /\ a.blocks[i].off + a.blocks[i].size <= a.chunks[a.blocks[i].chunk].used
                /\ a.blocks[i].off % 8 = 0

Apart(a) == \A i, j \in DOMAIN a.blocks :
               i < j /\ a.blocks[i].chunk = a.blocks[j].chunk =>
                  a.blocks[i].off + a.blocks[i].size <= a.blocks[j].off

Good(a) == a \in ArenaType /\ Filled(a) /\ Inside(a) /\ Apart(a)

(***************************************************************************)
(* Sizes and sequences                                                     *)
(***************************************************************************)
\* Rounding up gives a multiple of eight.
LEMMA AlignedIsMultiple == \A n \in Nat : Aligned(n) \in Nat /\ Aligned(n) % 8 = 0
BY DEF Aligned

\* Sums of multiples of eight are multiples of eight.
LEMMA Multiples == \A m, n \in Nat : m % 8 = 0 /\ n % 8 = 0 => (m + n) % 8 = 0
OBVIOUS

\* A chunk is as large as what it was made for, and starts empty.
LEMMA NewChunkHolds ==
    \A n \in Nat : NewChunk(n) \in Chunk /\ NewChunk(n).used = 0 /\ n <= NewChunk(n).cap
BY BlockSizeAssumption DEF NewChunk, Chunk

\* The chunks once there is room: there is a last one, n more bytes fit in it,
\* and all that were there before still are.
Roomy(a, n) == IF Fits(a.chunks, n) THEN a.chunks ELSE Append(a.chunks, NewChunk(n))

LEMMA RoomyHolds ==
    ASSUME NEW a, Good(a), NEW n \in Nat
    PROVE  /\ Roomy(a, n) \in Seq(Chunk)
           /\ Len(Roomy(a, n)) \in DOMAIN Roomy(a, n)
           /\ Len(a.chunks) <= Len(Roomy(a, n))
           /\ \A k \in DOMAIN a.chunks : Roomy(a, n)[k] = a.chunks[k]
           /\ \A k \in DOMAIN Roomy(a, n) : /\ Roomy(a, n)[k].used <= Roomy(a, n)[k].cap
                                            /\ Roomy(a, n)[k].used % 8 = 0
           /\ Roomy(a, n)[Len(Roomy(a, n))].used + n <= Roomy(a, n)[Len(Roomy(a, n))].cap
<1>1. a.chunks \in Seq(Chunk)
  BY DEF Good, ArenaType
<1>2. NewChunk(n) \in Chunk /\ NewChunk(n).used = 0 /\ n <= NewChunk(n).cap
  BY NewChunkHolds
<1>3. CASE Fits(a.chunks, n)
  BY <1>1, <1>3 DEF Roomy, Fits, Good, Filled
<1>4. CASE ~Fits(a.chunks, n)
  <2>1. Roomy(a, n) = Append(a.chunks, NewChunk(n))
    BY <1>4 DEF Roomy
  <2>2. /\ Roomy(a, n) \in Seq(Chunk)
        /\ Len(Roomy(a, n)) = Len(a.chunks) + 1
        /\ DOMAIN Roomy(a, n) = 1..(Len(a.chunks) + 1)
        /\ Roomy(a, n)[Len(a.chunks) + 1] = NewChunk(n)
        /\ \A k \in DOMAIN a.chunks : Roomy(a, n)[k] = a.chunks[k]
    BY <1>1, <1>2, <2>1
  <2>3. NewChunk(n).used <= NewChunk(n).cap /\ NewChunk(n).used % 8 = 0
    BY <1>2 DEF Chunk
  <2> QED
    BY <1>1, <1>2, <2>2, <2>3 DEF Good, Filled
<1> QED
  BY <1>3, <1>4

(***************************************************************************)
(* Operations                                                              *)
(***************************************************************************)
LEMMA TakeKeepsGood ==
    ASSUME NEW a, Good(a), NEW n \in Nat, n % 8 = 0
    PROVE  Good(Take(a, n))
<1> DEFINE R == Roomy(a, n)
           last == Len(R)
           used == R[last].used
           C == [R EXCEPT ![last] = [@ EXCEPT !.used = used + n]]
           b == [chunk |-> last, off |-> used, size |-> n]
           B == Append(a.blocks, b)
<1>1. Take(a, n) = [chunks |-> C, blocks |-> B]
  BY DEF Take, Roomy
<1>2. /\ R \in Seq(Chunk)
      /\ last \in DOMAIN R
      /\ Len(a.chunks) <= last
      /\ \A k \in DOMAIN a.chunks : R[k] = a.chunks[k]
      /\ \A k \in DOMAIN R : R[k].used <= R[k].cap /\ R[k].used % 8 = 0
      /\ used + n <= R[last].cap
  BY RoomyHolds
<1>3. a.chunks \in Seq(Chunk) /\ a.blocks \in Seq(Block)
  BY DEF Good, ArenaType
<1>4. used \in Nat /\ last \in Nat \ {0} /\ used % 8 = 0 /\ (used + n) % 8 = 0
  <2>1. R[last] \in Chunk /\ last \in Nat \ {0} /\ used % 8 = 0
    BY <1>2
  <2>2. used \in Nat
    BY <2>1 DEF Chunk
  <2> QED
    BY <2>1, <2>2, Multiples
<1> HIDE DEF R
<1>5. /\ C \in Seq(Chunk) /\ DOMAIN C = DOMAIN R
      /\ C[last].used = used + n /\ C[last].cap = R[last].cap
      /\ \A k \in DOMAIN R : k # last => C[k] = R[k]
  <2>1. R[last] \in Chunk
    BY <1>2
  <2>2. [R[last] EXCEPT !.used = used + n] \in Chunk
    BY <2>1, <1>4 DEF Chunk
  <2>3. C = [k \in DOMAIN R |-> IF k = last THEN [R[last] EXCEPT !.used = used + n] ELSE R[k]]
    BY <1>2
  <2>4. C \in Seq(Chunk)
    BY <1>2, <2>2, <2>3
  <2>5. [R[last] EXCEPT !.used = used + n].used = used + n /\ [R[last] EXCEPT !.used = used + n].cap = R[last].cap
    BY <2>1 DEF Chunk
  <2> QED
    BY <1>2, <2>3, <2>4, <2>5
<1>6. /\ B \in Seq(Block) /\ Len(B) = Len(a.blocks) + 1 /\ DOMAIN B = 1..(Len(a.blocks) + 1)
      /\ DOMAIN a.blocks = 1..Len(a.blocks)
      /\ Len(a.blocks) \in Nat
      /\ B[Len(a.blocks) + 1] = b
      /\ \A i \in DOMAIN a.blocks : B[i] = a.blocks[i]
  <2>1. b \in Block
    BY <1>4 DEF Block
  <2> QED
    BY <1>3, <2>1
<1>7. DOMAIN a.chunks \subseteq DOMAIN R
  BY <1>2, <1>3
\* What was used of a chunk still is.
<1>8. \A k \in DOMAIN a.chunks : a.chunks[k].used \in Nat /\ C[k].used \in Nat /\ a.chunks[k].used <= C[k].used
  <2> TAKE k \in DOMAIN a.chunks
  <2>1. R[k] = a.chunks[k] /\ k \in DOMAIN R /\ a.chunks[k] \in Chunk
    BY <1>2, <1>3, <1>7
  <2>2. a.chunks[k].used \in Nat
    BY <2>1 DEF Chunk
  <2>3. CASE k = last
    BY <2>1, <2>2, <2>3, <1>4, <1>5
  <2>4. CASE k # last
    BY <2>1, <2>2, <2>4, <1>5
  <2> QED
    BY <2>3, <2>4
<1>9. \A k \in DOMAIN C : C[k].used <= C[k].cap /\ C[k].used % 8 = 0
  BY <1>2, <1>4, <1>5
<1>10. \A i \in DOMAIN a.blocks :
          /\ a.blocks[i].chunk \in DOMAIN a.chunks
          /\ a.blocks[i].off + a.blocks[i].size <= a.chunks[a.blocks[i].chunk].used
          /\ a.blocks[i].off % 8 = 0
          /\ a.blocks[i].off \in Nat /\ a.blocks[i].size \in Nat
  <2> TAKE i \in DOMAIN a.blocks
  <2>1. a.blocks[i] \in Block
    BY <1>3
  <2>2. a.blocks[i].off \in Nat /\ a.blocks[i].size \in Nat
    BY <2>1 DEF Block
  <2> QED
    BY <2>2 DEF Good, Inside
<1> HIDE DEF C, B
<1>11. \A i \in DOMAIN B :
          /\ B[i].chunk \in DOMAIN C
          /\ B[i].off + B[i].size <= C[B[i].chunk].used
          /\ B[i].off % 8 = 0
  <2> TAKE i \in DOMAIN B
  <2>1. CASE i \in DOMAIN a.blocks
    <3> DEFINE k == a.blocks[i].chunk
               end == a.blocks[i].off + a.blocks[i].size
    <3>1. B[i] = a.blocks[i] /\ k \in DOMAIN a.chunks /\ end <= a.chunks[k].used
          /\ a.blocks[i].off % 8 = 0 /\ end \in Nat
      BY <2>1, <1>6, <1>10
    <3>2. k \in DOMAIN C /\ a.chunks[k].used \in Nat /\ C[k].used \in Nat /\ a.chunks[k].used <= C[k].used
      BY <3>1, <1>5, <1>7, <1>8
    <3> HIDE DEF k, end
    <3>3. end <= C[k].used
      BY <3>1, <3>2
    <3> QED
      BY <3>1, <3>2, <3>3 DEF k, end
  <2>2. CASE i = Len(a.blocks) + 1
    BY <2>2, <1>2, <1>4, <1>5, <1>6
  <2> QED
    BY <2>1, <2>2, <1>6
<1>12. \A i, j \in DOMAIN B : i < j /\ B[i].chunk = B[j].chunk => B[i].off + B[i].size <= B[j].off
  <2> SUFFICES ASSUME NEW i \in DOMAIN B, NEW j \in DOMAIN B, i < j, B[i].chunk = B[j].chunk
               PROVE  B[i].off + B[i].size <= B[j].off
    OBVIOUS
  <2>1. i \in DOMAIN a.blocks /\ B[i] = a.blocks[i]
    BY <1>6
  <2>2. CASE j \in DOMAIN a.blocks
    BY <2>1, <2>2, <1>6 DEF Good, Apart
  <2>3. CASE j = Len(a.blocks) + 1
    <3>1. B[j].chunk = last /\ B[j].off = used
      BY <2>3, <1>6
    <3>2. a.blocks[i].chunk = last /\ last \in DOMAIN a.chunks
      BY <3>1, <2>1, <1>10
    <3>3. a.chunks[last].used = used
      BY <3>2, <1>2
    <3>4. a.blocks[i].off + a.blocks[i].size <= used
      BY <3>2, <3>3, <2>1, <1>10
    <3> QED
      BY <3>1, <3>4, <2>1
  <2> QED
    BY <2>2, <2>3, <1>6
<1> HIDE DEF b, last, used
<1>13. [chunks |-> C, blocks |-> B] \in ArenaType
  BY <1>5, <1>6 DEF ArenaType
<1>14. Good([chunks |-> C, blocks |-> B])
  BY <1>9, <1>11, <1>12, <1>13 DEF Good, Filled, Inside, Apart
<1> QED
  BY <1>1, <1>14

LEMMA AllocKeepsGood ==
    ASSUME NEW a, Good(a), NEW n \in Nat
    PROVE  Good(arena_alloc(a, n)) /\ Good(arena_strndup(a, n))
<1>1. Aligned(n) \in Nat /\ Aligned(n) % 8 = 0 /\ Aligned(n + 1) \in Nat /\ Aligned(n + 1) % 8 = 0
  BY AlignedIsMultiple
<1> QED
  BY <1>1, TakeKeepsGood DEF arena_alloc, arena_strndup

LEMMA NewIsGood == Good(arena_new)
<1>1. NewChunk(0) \in Chunk /\ NewChunk(0).used = 0 /\ 0 <= NewChunk(0).cap
  BY NewChunkHolds
<1>2. arena_new \in ArenaType
  BY <1>1 DEF arena_new, ArenaType
<1>3. DOMAIN arena_new.chunks = {1} /\ arena_new.chunks[1] = NewChunk(0) /\ DOMAIN arena_new.blocks = {}
  BY DEF arena_new
<1>4. 0 % 8 = 0
  OBVIOUS
<1> QED
  BY <1>1, <1>2, <1>3, <1>4 DEF Good, Filled, Inside, Apart

LEMMA FreeIsGood == \A a : Good(arena_free(a))
<1> TAKE a
<1>1. DOMAIN arena_free(a).chunks = {} /\ DOMAIN arena_free(a).blocks = {}
  BY DEF arena_free
<1>2. arena_free(a) \in ArenaType
  BY DEF arena_free, ArenaType
<1> QED
  BY <1>1, <1>2 DEF Good, Filled, Inside, Apart

(***************************************************************************)
(* Theorem of the arena                                                    *)
(***************************************************************************)
GoodArena == Good(arena)

LEMMA GoodIsApart == GoodArena => BlocksApart
BY DEF GoodArena, Good, Filled, Inside, Apart, BlocksApart

\* For every block size and every sequence of requests and frees, a block lies
\* within its chunk, begins at a multiple of eight and shares no byte with
\* another (arena_alloc, arena_strdup, arena_strndup, arena_free).
THEOREM ArenaBlocksApart == ASpec => []BlocksApart
<1>1. AInit => GoodArena
  BY NewIsGood DEF AInit, GoodArena
<1>2. GoodArena /\ [ANext]_arena => GoodArena'
  <2> SUFFICES ASSUME Good(arena), [ANext]_arena PROVE Good(arena')
    BY DEF GoodArena
  <2>1. ASSUME NEW n \in Requests, arena' = arena_alloc(arena, n) PROVE Good(arena')
    BY <2>1, AllocKeepsGood, RequestsAssumption
  <2>2. ASSUME NEW n \in Requests, arena' = arena_strndup(arena, n) PROVE Good(arena')
    BY <2>2, AllocKeepsGood, RequestsAssumption
  <2>3. CASE arena' = arena_free(arena)
    BY <2>3, FreeIsGood
  <2>4. CASE UNCHANGED arena
    BY <2>4
  <2> QED
    BY <2>1, <2>2, <2>3, <2>4 DEF ANext
<1> QED
  BY <1>1, <1>2, GoodIsApart, PTL DEF ASpec

(***************************************************************************)
(* Characters and positions                                                *)
(***************************************************************************)
\* Where there is a character, the text has not ended.
LEMMA Characters ==
  ASSUME NEW s, Len(s) \in Nat, NEW i \in Nat
  PROVE  At(s, i) # "" => i <= Len(s)
BY Zenon DEF At

LEMMA LeastHolds ==
  ASSUME NEW s, NEW S, S \subseteq Nat
  PROVE  /\ S = {} => Least(s, S) = Len(s) + 1
         /\ S # {} => Least(s, S) \in S /\ \A j \in S : Least(s, S) <= j
<1>1. CASE S = {}
  BY <1>1 DEF Least
<1>2. CASE S # {}
  <2>1. \E m \in S : \A n \in S : m <= n
    BY <1>2, Minimum
  <2> QED
    BY <1>2, <2>1 DEF Least
<1> QED
  BY <1>1, <1>2

\* A span ends where it begins at the earliest, later if its first character
\* belongs to it, and at the end of the text at the latest.
LEMMA SpanHolds ==
  ASSUME NEW s, Len(s) \in Nat, NEW i \in Nat \ {0}, i <= Len(s) + 1, NEW chars
  PROVE  /\ Span(s, i, chars) \in Nat \ {0}
         /\ i <= Span(s, i, chars) /\ Span(s, i, chars) <= Len(s) + 1
         /\ i <= Len(s) /\ At(s, i) \in chars => i < Span(s, i, chars)
<1> DEFINE S == {j \in i..Len(s) : At(s, j) \notin chars}
<1>1. /\ S \subseteq Nat
      /\ \A j \in S : j \in Nat /\ i <= j /\ j <= Len(s) /\ (At(s, i) \in chars => j # i)
  OBVIOUS
<1>2. Span(s, i, chars) = Least(s, S)
  BY DEF Span
<1> HIDE DEF S
<1>3. /\ S = {} => Span(s, i, chars) = Len(s) + 1
      /\ S # {} => Span(s, i, chars) \in S
  BY <1>1, <1>2, LeastHolds
<1> DEFINE n == Len(s)  e == Span(s, i, chars)  c == At(s, i)
<1>4. S = {} => e = n + 1
  BY <1>3
<1>5. S # {} => e \in Nat /\ i <= e /\ e <= n
  BY <1>1, <1>3
<1>6. S # {} => (c \in chars => e # i)
  BY <1>1, <1>3
<1>7. n \in Nat /\ i <= n + 1
  OBVIOUS
<1> HIDE DEF n, e, c
<1>8. /\ e \in Nat \ {0} /\ i <= e /\ e <= n + 1
      /\ i <= n /\ c \in chars => i < e
  BY <1>4, <1>5, <1>6, <1>7
<1> QED
  BY <1>8 DEF n, e, c

\* A lexeme takes a character at least.
Advances(t, i) == t.to \in Nat /\ t.to > i /\ t.size \in Nat

LEMMA TokenFields ==
  ASSUME NEW kind, NEW to, NEW size
  PROVE  /\ Token(kind, to, size).kind = kind
         /\ Token(kind, to, size).to = to
         /\ Token(kind, to, size).size = size
BY DEF Token

(***************************************************************************)
(* Words and numbers                                                       *)
(***************************************************************************)
LEMMA KeptHolds ==
  ASSUME NEW s, NEW n \in Nat, NEW i \in Nat, NEW j \in Nat
  PROVE  Kept(s, n, i, j) \in Nat
<1> DEFINE S == {k \in i..j - 1 : At(s, k) # "_"}
<1>0. i \in Int /\ j - 1 \in Int
  OBVIOUS
<1>1. S \in SUBSET (i..j - 1) /\ IsFiniteSet(i..j - 1)
  <2>1. IsFiniteSet(i..j - 1)
    BY <1>0, FS_Interval
  <2>2. S \in SUBSET (i..j - 1)
    OBVIOUS
  <2> QED
    BY <2>1, <2>2
<1>2. Cardinality(S) \in Nat
  BY <1>1, FS_Subset, FS_CardinalityType
<1> HIDE DEF S
<1>3. Kept(s, n, i, j) = IF n >= NumLimit THEN n ELSE Least2(n + Cardinality(S), NumLimit)
  BY DEF Kept, S
<1> QED
  BY <1>2, <1>3, LimitAssumption DEF Least2

LEMMA IdentHolds ==
  ASSUME NEW s, Len(s) \in Nat, NEW i \in Nat \ {0}, i <= Len(s), At(s, i) \in WordChars
  PROVE  Advances(lex_ident(s, i), i) /\ lex_ident(s, i).kind # "eof"
<1> DEFINE j == Span(s, i, WordChars)
<1>1. j \in Nat /\ j > i
  BY SpanHolds
<1>2. kw_check(Slice(s, i, j)) # "eof"
  BY DEF kw_check, Keywords
<1> HIDE DEF j
<1>3. lex_ident(s, i) = Token(kw_check(Slice(s, i, j)), j, j - i)
  BY DEF lex_ident, j
<1> QED
  BY <1>1, <1>2, <1>3, TokenFields DEF Advances

LEMMA RadixHolds ==
  ASSUME NEW s, Len(s) \in Nat, NEW i \in Nat \ {0}, i + 1 <= Len(s), NEW chars, NEW long
  PROVE  Advances(lex_radix(s, i, chars, long), i) /\ lex_radix(s, i, chars, long).kind # "eof"
<1> DEFINE j == Span(s, i + 2, chars \cup {"_"})
           size == Kept(s, 2, i + 2, j)
<1>1. j \in Nat /\ j > i
  <2>1. i + 2 \in Nat \ {0} /\ i + 2 <= Len(s) + 1
    OBVIOUS
  <2>2. j \in Nat \ {0} /\ i + 2 <= j
    BY <2>1, SpanHolds
  <2> HIDE DEF j
  <2> QED
    BY <2>2
<1>2. size \in Nat
  <2>1. i + 2 \in Nat /\ 2 \in Nat
    OBVIOUS
  <2> HIDE DEF j
  <2> QED
    BY <1>1, <2>1, KeptHolds
<1> HIDE DEF j, size
<1>3. lex_radix(s, i, chars, long) \in {Token("long_lit", j + 1, size), Token("int_lit", j, size)}
  BY DEF lex_radix, j, size
<1> QED
  BY <1>1, <1>2, <1>3, TokenFields DEF Advances

LEMMA DecimalHolds ==
  ASSUME NEW s, Len(s) \in Nat, NEW i \in Nat \ {0}, i <= Len(s), At(s, i) \in Digits
  PROVE  Advances(lex_decimal(s, i), i) /\ lex_decimal(s, i).kind # "eof"
<1> DEFINE whole == Span(s, i, Digits \cup {"_"})
           fraction == HasFraction(s, whole)
           point == IF fraction THEN Span(s, whole + 1, Digits \cup {"_"}) ELSE whole
           exponent == At(s, point) \in {"e", "E"}
           sign == IF At(s, point + 1) \in {"+", "-"} THEN point + 2 ELSE point + 1
           j == IF exponent THEN Span(s, sign, Digits) ELSE point
           wholeSize == Kept(s, 0, i, whole)
           size == (IF fraction THEN Kept(s, wholeSize + 1, whole + 1, point) ELSE wholeSize) + (j - point)
<1>1. whole \in Nat \ {0} /\ whole > i /\ whole <= Len(s) + 1
  <2>1. i <= Len(s) + 1
    OBVIOUS
  <2>2. At(s, i) \in Digits \cup {"_"}
    OBVIOUS
  <2>3. whole \in Nat \ {0} /\ i < whole /\ whole <= Len(s) + 1
    BY <2>1, <2>2, SpanHolds
  <2> HIDE DEF whole
  <2> QED
    BY <2>3
<1> HIDE DEF whole
<1>2. fraction => whole <= Len(s)
  BY <1>1, Characters DEF HasFraction
<1> HIDE DEF fraction
<1>3. point \in Nat \ {0} /\ point >= whole /\ point <= Len(s) + 1
  <2>1. CASE fraction
    <3>1. whole + 1 \in Nat \ {0} /\ whole + 1 <= Len(s) + 1
      BY <2>1, <1>1, <1>2
    <3>2. Span(s, whole + 1, Digits \cup {"_"}) \in Nat \ {0}
          /\ whole + 1 <= Span(s, whole + 1, Digits \cup {"_"})
          /\ Span(s, whole + 1, Digits \cup {"_"}) <= Len(s) + 1
      BY <3>1, SpanHolds
    <3>3. point \in Nat \ {0} /\ whole + 1 <= point /\ point <= Len(s) + 1
      BY <2>1, <3>2
    <3> HIDE DEF point
    <3> QED
      BY <3>3, <1>1
  <2>2. CASE ~fraction
    BY <2>2, <1>1
  <2> QED
    BY <2>1, <2>2
<1> HIDE DEF point
<1>4. j \in Nat /\ j >= point
  <2>1. CASE exponent
    <3>1. point <= Len(s)
      BY <2>1, <1>3, Characters
    <3>2. sign \in Nat \ {0} /\ sign > point /\ sign <= Len(s) + 1
      <4>1. ASSUME At(s, point + 1) \in {"+", "-"} PROVE point + 1 <= Len(s)
        <5>1. point + 1 \in Nat
          BY <1>3
        <5>2. At(s, point + 1) # ""
          BY <4>1
        <5> QED
          BY <5>1, <5>2, Characters
      <4> QED
        BY <3>1, <4>1, <1>3
    <3> HIDE DEF sign
    <3> QED
      BY <2>1, <3>2, <1>3, SpanHolds
  <2>2. CASE ~exponent
    BY <2>2, <1>3
  <2> QED
    BY <2>1, <2>2
<1> HIDE DEF j, exponent
<1>5. size \in Nat
  <2>1. wholeSize \in Nat
    BY <1>1, KeptHolds
  <2> HIDE DEF wholeSize
  <2>2. Kept(s, wholeSize + 1, whole + 1, point) \in Nat
    BY <2>1, <1>1, <1>3, KeptHolds
  <2> QED
    BY <2>1, <2>2, <1>3, <1>4
<1> HIDE DEF size
<1>6. lex_decimal(s, i) \in
        {Token(kind, to, size) : kind \in {"double_lit", "float_lit", "long_lit", "int_lit"}, to \in {j, j + 1, j + 2}}
  <2> DEFINE suffix == At(s, j)
  <2>1. lex_decimal(s, i) =
          CASE suffix \in {"d", "D"} -> Token("double_lit", j + 1, size)
            [] suffix \in {"f", "F"} -> Token("float_lit", j + 1, size)
            [] suffix = "L" -> Token("long_lit", j + 1, size)
            [] suffix = "u" /\ At(s, j + 1) = "L" -> Token("long_lit", j + 2, size)
            [] suffix = "u" /\ At(s, j + 1) # "L" -> Token("int_lit", j + 1, size)
            [] OTHER -> Token(IF fraction \/ exponent THEN "float_lit" ELSE "int_lit", j, size)
    BY DEF lex_decimal, whole, fraction, point, exponent, sign, j, wholeSize, size
  <2> QED
    BY <2>1
<1>7. PICK kind \in {"double_lit", "float_lit", "long_lit", "int_lit"}, to \in {j, j + 1, j + 2} :
         lex_decimal(s, i) = Token(kind, to, size)
  BY <1>6
<1>8. to \in Nat /\ to > i
  BY <1>1, <1>3, <1>4
<1> QED
  BY <1>5, <1>7, <1>8, TokenFields DEF Advances

LEMMA NumberHolds ==
  ASSUME NEW s, Len(s) \in Nat, NEW i \in Nat \ {0}, i <= Len(s), At(s, i) \in Digits
  PROVE  Advances(lex_number(s, i), i) /\ lex_number(s, i).kind # "eof"
<1>1. At(s, i + 1) # "" => i + 1 <= Len(s)
  <2>1. i + 1 \in Nat
    OBVIOUS
  <2> QED
    BY <2>1, Characters
<1>2. CASE \/ At(s, i) = "0" /\ At(s, i + 1) \in {"x", "X"}
           \/ At(s, i) = "0" /\ At(s, i + 1) \in {"b", "B"}
           \/ At(s, i) = "0" /\ At(s, i + 1) \in {"o", "O"}
  <2>1. i + 1 <= Len(s)
    BY <1>1, <1>2
  <2>2. \E chars \in {HexDigits, {"0", "1"}, Digits \ {"8", "9"}}, long \in BOOLEAN :
           lex_number(s, i) = lex_radix(s, i, chars, long)
    BY <1>2 DEF lex_number
  <2> QED
    BY <2>1, <2>2, RadixHolds
<1>3. CASE ~ \/ At(s, i) = "0" /\ At(s, i + 1) \in {"x", "X"}
             \/ At(s, i) = "0" /\ At(s, i + 1) \in {"b", "B"}
             \/ At(s, i) = "0" /\ At(s, i + 1) \in {"o", "O"}
  <2>1. lex_number(s, i) = lex_decimal(s, i)
    BY <1>3 DEF lex_number
  <2> QED
    BY <2>1, DecimalHolds
<1> QED
  BY <1>2, <1>3

(***************************************************************************)
(* Strings and characters                                                  *)
(***************************************************************************)
LEMMA Utf8Holds == \A cp : encode_utf8(cp) \in Nat
<1> TAKE cp
<1> DEFINE one == cp < 128  two == cp \in 128..2047  three == cp \in 2048..65535
<1>1. encode_utf8(cp) = CASE one -> 1 [] two -> 2 [] three -> 3 [] OTHER -> 4
  BY DEF encode_utf8
<1> HIDE DEF one, two, three
<1> QED
  BY <1>1

\* An escape never ends before the letter that says which it is.
LEMMA EscapeHolds ==
  ASSUME NEW s, Len(s) \in Nat, NEW i \in Nat \ {0}
  PROVE  /\ lex_escape(s, i).to \in Nat /\ lex_escape(s, i).size \in Nat
         /\ i <= lex_escape(s, i).to
<1> DEFINE upto(n) == Least2(i + 1 + n, Len(s) + 1)
           hex == Span(s, i + 1, HexDigits)
           brace == Span(s, i + 2, HexDigits)
           first == IF brace > i + 10 THEN brace - 8 ELSE i + 2
           Leaves(e) == e.to \in Nat /\ e.size \in Nat /\ i <= e.to
<1>1. lex_escape(s, i) =
        IF i > Len(s) THEN [to |-> i, size |-> 0] ELSE
        CASE At(s, i) \in Plain -> [to |-> i + 1, size |-> 1]
          [] At(s, i) = "x" -> [to |-> Least2(hex, i + 3), size |-> 1]
          [] At(s, i) = "u" /\ At(s, i + 1) = "{" ->
                [to |-> IF At(s, brace) = "}" THEN brace + 1 ELSE brace,
                 size |-> encode_utf8(CodePoint(s, first, brace))]
          [] At(s, i) = "u" /\ At(s, i + 1) # "{" ->
                [to |-> upto(4), size |-> encode_utf8(CodePoint(s, i + 1, upto(4)))]
          [] At(s, i) = "U" -> [to |-> upto(8), size |-> encode_utf8(CodePoint(s, i + 1, upto(8)))]
          [] At(s, i) = "\n" -> [to |-> i + 1, size |-> 0]
          [] OTHER -> [to |-> i + 1, size |-> 2]
  BY DEF lex_escape
<1>2. Leaves([to |-> i, size |-> 0]) /\ Leaves([to |-> i + 1, size |-> 0])
      /\ Leaves([to |-> i + 1, size |-> 1]) /\ Leaves([to |-> i + 1, size |-> 2])
  OBVIOUS
<1>3. ASSUME NEW to \in Nat, i <= to, NEW cp PROVE Leaves([to |-> to, size |-> encode_utf8(cp)])
  BY <1>3, Utf8Holds
<1>4. CASE i > Len(s)
  <2>1. lex_escape(s, i) = [to |-> i, size |-> 0]
    BY <1>1, <1>4
  <2> QED
    BY <1>2, <2>1
<1>5. CASE i <= Len(s)
  <2>1. hex \in Nat /\ i + 1 <= hex
    <3>1. i + 1 \in Nat \ {0} /\ i + 1 <= Len(s) + 1
      BY <1>5
    <3> QED
      BY <3>1, SpanHolds
  <2>2. Leaves([to |-> Least2(hex, i + 3), size |-> 1])
    <3> HIDE DEF hex
    <3> QED
      BY <2>1 DEF Least2
  <2>3. ASSUME At(s, i + 1) = "{" PROVE brace \in Nat /\ i + 2 <= brace
    <3>4. i + 1 \in Nat
      OBVIOUS
    <3>1. At(s, i + 1) # ""
      BY <2>3
    <3>2. i + 1 <= Len(s)
      BY <3>1, <3>4, Characters
    <3>3. i + 2 \in Nat \ {0} /\ i + 2 <= Len(s) + 1
      BY <3>2
    <3> QED
      BY <3>3, SpanHolds
  <2>4. ASSUME At(s, i + 1) = "{", NEW cp
        PROVE  Leaves([to |-> IF At(s, brace) = "}" THEN brace + 1 ELSE brace, size |-> encode_utf8(cp)])
    <3> DEFINE to == IF At(s, brace) = "}" THEN brace + 1 ELSE brace
    <3>1. to \in Nat /\ i <= to
      <4>1. brace \in Nat /\ i + 2 <= brace
        BY <2>3, <2>4
      <4>2. \A b \in Nat : i + 2 <= b => b + 1 \in Nat /\ i <= b /\ i <= b + 1
        OBVIOUS
      <4>3. to = brace \/ to = brace + 1
        OBVIOUS
      <4> HIDE DEF brace, to
      <4> QED
        BY <4>1, <4>2, <4>3
    <3> HIDE DEF to, Leaves
    <3>2. Leaves([to |-> to, size |-> encode_utf8(cp)])
      BY <3>1, <1>3
    <3> QED
      BY <3>2 DEF to
  <2>5. ASSUME NEW n \in Nat PROVE upto(n) \in Nat /\ i <= upto(n)
    BY <1>5 DEF Least2
  <2>6. \A cp : Leaves([to |-> upto(4), size |-> encode_utf8(cp)])
    <3>1. upto(4) \in Nat /\ i <= upto(4)
      BY <2>5
    <3> HIDE DEF upto, Leaves
    <3> QED
      BY <1>3, <3>1
  <2>7. \A cp : Leaves([to |-> upto(8), size |-> encode_utf8(cp)])
    <3>1. upto(8) \in Nat /\ i <= upto(8)
      BY <2>5
    <3> HIDE DEF upto, Leaves
    <3> QED
      BY <1>3, <3>1
  <2> HIDE DEF upto, hex, brace, first, Leaves
  <2>8. Leaves(lex_escape(s, i))
    BY <1>1, <1>2, <1>4, <2>2, <2>4, <2>6, <2>7
  <2> QED
    BY <2>8 DEF Leaves
<1> QED
  BY <1>4, <1>5

\* What a string body may be while it is read from i on.
Bodies(i) == [to : {j \in Nat : i <= j}, size : Nat]

LEMMA NextCharHolds ==
  ASSUME NEW s, Len(s) \in Nat, NEW i \in Nat \ {0}, NEW triple, NEW body \in Bodies(i)
  PROVE  NextChar(s, triple, body) \in Bodies(i)
<1> DEFINE c == IF At(s, body.to) = "\\" THEN lex_escape(s, body.to + 1)
                ELSE [to |-> body.to + 1, size |-> 1]
<1>1. body.to \in Nat /\ i <= body.to /\ body.size \in Nat
  BY DEF Bodies
<1>2. c.to \in Nat /\ c.size \in Nat /\ i <= c.to
  <2>1. CASE At(s, body.to) = "\\"
    <3>1. body.to + 1 \in Nat \ {0}
      BY <1>1
    <3>2. /\ lex_escape(s, body.to + 1).to \in Nat /\ lex_escape(s, body.to + 1).size \in Nat
          /\ body.to + 1 <= lex_escape(s, body.to + 1).to
      BY <3>1, EscapeHolds
    <3> QED
      BY <2>1, <3>2, <1>1
  <2>2. CASE At(s, body.to) # "\\"
    BY <2>2, <1>1
  <2> QED
    BY <2>1, <2>2
<1> HIDE DEF c
<1>3. Least2(body.size + c.size, StrLimit) \in Nat
  BY <1>1, <1>2, LimitAssumption DEF Least2
<1>4. [to |-> c.to, size |-> Least2(body.size + c.size, StrLimit)] \in Bodies(i)
  BY <1>2, <1>3 DEF Bodies
<1>5. NextChar(s, triple, body) \in {body, [to |-> c.to, size |-> Least2(body.size + c.size, StrLimit)]}
  BY DEF NextChar, c
<1> QED
  BY <1>4, <1>5

\* The loop over a string's characters, turn by turn.
LEMMA StringTurns ==
  ASSUME NEW s, Len(s) \in Nat, NEW i \in Nat \ {0}, NEW triple
  PROVE  \E T : /\ T[0] = [to |-> i, size |-> 0]
                /\ \A k \in 1..Len(s) : T[k] = NextChar(s, triple, T[k - 1])
                /\ \A k \in 0..Len(s) : T[k] \in Bodies(i)
                /\ StringBody(s, i, triple) = T[Len(s)]
<1> DEFINE n == Len(s)
           a == [to |-> i, size |-> 0]
           P(b) == b = [k \in 0..n |-> IF k = 0 THEN a ELSE NextChar(s, triple, b[k - 1])]
           F == [p \in Bodies(i) \X (1..n) |-> NextChar(s, triple, p[1])]
<1>1. n \in Nat /\ a \in Bodies(i)
  BY DEF Bodies
<1>2. F \in [Bodies(i) \X (1..n) -> Bodies(i)]
  BY NextCharHolds
<1>3. StringBody(s, i, triple) = (CHOOSE b : P(b))[n]
  BY DEF StringBody
<1> HIDE DEF n, a
<1>4. PICK f \in [0..n -> Bodies(i)] : Unrolls(f, a, F, n)
  <2> HIDE DEF F
  <2> QED
    BY <1>1, <1>2, Unrolling
<1>5. P(f)
  <2>1. f[0] = a /\ \A k \in 1..n : f[k] = F[<<f[k - 1], k>>]
    BY <1>4 DEF Unrolls
  <2>2. ASSUME NEW k \in 1..n PROVE f[k] = NextChar(s, triple, f[k - 1])
    <3>1. f[k - 1] \in Bodies(i) /\ <<f[k - 1], k>> \in Bodies(i) \X (1..n)
      BY <1>1, <1>4
    <3>2. F[<<f[k - 1], k>>] = NextChar(s, triple, f[k - 1])
      BY <3>1
    <3> QED
      BY <2>1, <3>2
  <2> QED
    BY <1>1, <1>4, <2>1, <2>2
<1> DEFINE T == CHOOSE b : P(b)
<1>6. P(T)
  <2> HIDE DEF P
  <2> QED
    BY <1>5
<1> HIDE DEF T
<1>7. T[0] = a /\ \A k \in 1..n : T[k] = NextChar(s, triple, T[k - 1])
  BY <1>1, <1>6
<1>8. \A k \in 0..n : T[k] \in Bodies(i)
  <2>1. \A k \in 1..n : T[k - 1] \in Bodies(i) => T[k] \in Bodies(i)
    BY <1>7, NextCharHolds
  <2> QED
    BY <1>1, <1>7, <2>1, Staying
<1>9. StringBody(s, i, triple) = T[n]
  BY <1>3 DEF T
<1>10. WITNESS T
<1> QED
  BY <1>7, <1>8, <1>9 DEF n, a

\* It ends where it began at the earliest.
LEMMA StringBodyHolds ==
  ASSUME NEW s, Len(s) \in Nat, NEW i \in Nat \ {0}, NEW triple
  PROVE  StringBody(s, i, triple) \in Bodies(i)
<1>1. PICK T : /\ T[0] = [to |-> i, size |-> 0]
               /\ \A k \in 1..Len(s) : T[k] = NextChar(s, triple, T[k - 1])
               /\ \A k \in 0..Len(s) : T[k] \in Bodies(i)
               /\ StringBody(s, i, triple) = T[Len(s)]
  BY StringTurns
<1>2. Len(s) \in 0..Len(s)
  OBVIOUS
<1> QED
  BY <1>1, <1>2

\* A lexeme that is no end of the text.
Lexed(t, i) == Advances(t, i) /\ t.kind # "eof"

LEMMA StringHolds ==
  ASSUME NEW s, Len(s) \in Nat, NEW i \in Nat \ {0}
  PROVE  Lexed(lex_string(s, i), i)
<1> DEFINE triple == At(s, i + 1) = "\"" /\ At(s, i + 2) = "\""
           start == IF triple THEN i + 3 ELSE i + 1
           body == StringBody(s, start, triple)
           closing == IF At(s, body.to) = "\"" THEN (IF triple THEN 3 ELSE 1) ELSE 0
<1>1. lex_string(s, i) = Token("string_lit", body.to + closing, body.size)
  BY DEF lex_string
<1>2. start \in Nat \ {0} /\ start > i
  <2> HIDE DEF triple
  <2> QED
    OBVIOUS
<1> HIDE DEF start, triple
<1>3. body \in Bodies(start)
  BY <1>2, StringBodyHolds
<1> HIDE DEF body
<1>4. body.to \in Nat /\ body.to > i /\ body.size \in Nat
  BY <1>2, <1>3 DEF Bodies
<1>5. closing \in {0, 1, 3}
  OBVIOUS
<1> HIDE DEF closing
<1>6. body.to + closing \in Nat /\ body.to + closing > i
  BY <1>4, <1>5
<1> QED
  BY <1>1, <1>4, <1>6, TokenFields DEF Advances, Lexed

LEMMA RawStringHolds ==
  ASSUME NEW s, Len(s) \in Nat, NEW i \in Nat \ {0}, i + 1 <= Len(s)
  PROVE  Lexed(lex_raw_string(s, i), i)
<1> DEFINE S == {k \in (i + 2)..Len(s) : At(s, k) = "\""}
           n == Len(s)
           j == Least(s, S)
           size == Least2(j - (i + 2), StrLimit)
           to == IF j <= n THEN j + 1 ELSE j
<1>1. lex_raw_string(s, i) = Token("string_lit", to, size)
  BY DEF lex_raw_string
<1>2. \A k \in S : k \in (i + 2)..n
  OBVIOUS
<1> HIDE DEF S
<1>3. n \in Nat /\ i + 1 <= n
  OBVIOUS
<1> HIDE DEF n
<1>4. S \subseteq Nat
  BY <1>2, <1>3
<1>5. j \in Nat /\ i + 2 <= j
  <2>1. CASE S = {}
    <3>1. j = n + 1
      BY <2>1, <1>4, LeastHolds DEF n
    <3> HIDE DEF j
    <3> QED
      BY <3>1, <1>3
  <2>2. CASE S # {}
    <3>1. j \in S
      BY <2>2, <1>4, LeastHolds
    <3> HIDE DEF j
    <3> QED
      BY <3>1, <1>2, <1>3
  <2> QED
    BY <2>1, <2>2
<1> HIDE DEF j
<1>6. to \in Nat /\ to > i
  BY <1>5
<1>7. size \in Nat
  BY <1>5, LimitAssumption DEF Least2
<1> HIDE DEF to, size
<1> QED
  BY <1>1, <1>6, <1>7, TokenFields DEF Advances, Lexed

LEMMA CharHolds ==
  ASSUME NEW s, Len(s) \in Nat, NEW i \in Nat \ {0}
  PROVE  Lexed(lex_char(s, i), i)
<1> DEFINE c == CASE At(s, i + 1) = "\\" -> lex_escape(s, i + 2)
                  [] At(s, i + 1) = "'" -> [to |-> i + 1, size |-> 0]
                  [] OTHER -> [to |-> i + 2, size |-> 1]
           to == IF At(s, c.to) = "'" THEN c.to + 1 ELSE c.to
<1>1. lex_char(s, i) = Token("char_lit", to, c.size)
  BY DEF lex_char
<1>2. c \in {lex_escape(s, i + 2), [to |-> i + 1, size |-> 0], [to |-> i + 2, size |-> 1]}
  OBVIOUS
<1>3. i + 2 \in Nat \ {0}
  OBVIOUS
<1>4. /\ lex_escape(s, i + 2).to \in Nat /\ lex_escape(s, i + 2).size \in Nat
      /\ i + 2 <= lex_escape(s, i + 2).to
  BY <1>3, EscapeHolds
<1> HIDE DEF c
<1>5. c.to \in Nat /\ i < c.to /\ c.size \in Nat
  BY <1>2, <1>4
<1>6. to = c.to \/ to = c.to + 1
  OBVIOUS
<1> HIDE DEF to
<1>7. to \in Nat /\ i < to
  BY <1>5, <1>6
<1> QED
  BY <1>1, <1>5, <1>7, TokenFields DEF Advances, Lexed

LEMMA OperatorHolds ==
  ASSUME NEW s, Len(s) \in Nat, NEW i \in Nat \ {0}, i <= Len(s)
  PROVE  Lexed(lex_operator(s, i), i)
<1> DEFINE two == Two(s, i) \in Twos
           three == Three(s, i) \in Threes
           n == CASE two /\ three -> 3 [] two /\ ~three -> 2 [] OTHER -> 1
           kind == IF At(s, i) \in Ones THEN "operator" ELSE "unknown"
<1>1. lex_operator(s, i) = Token(kind, i + n, n)
  BY DEF lex_operator
<1>2. kind # "eof"
  OBVIOUS
<1>3. n \in {1, 2, 3}
  <2> HIDE DEF two, three
  <2> QED
    OBVIOUS
<1> HIDE DEF n, kind
<1>4. i + n \in Nat /\ i + n > i /\ n \in Nat
  BY <1>3
<1> QED
  BY <1>1, <1>2, <1>4, TokenFields DEF Advances, Lexed

\* Every call of lexer_next but the one at the end takes a character at least.
LEMMA LexHolds ==
  ASSUME NEW s, Len(s) \in Nat, NEW i \in Nat \ {0}
  PROVE  /\ i > Len(s) => Lex(s, i) = Token("eof", i, 0)
         /\ i <= Len(s) => Lexed(Lex(s, i), i)
<1>1. CASE i > Len(s)
  <2>1. Lex(s, i) = Token("eof", i, 0)
    BY <1>1 DEF Lex
  <2>2. ~(i <= Len(s))
    BY <1>1
  <2> QED
    BY <2>1, <2>2
<1>2. CASE i <= Len(s)
  <2> DEFINE raw == OpensRaw(s, i)
             letter == At(s, i) \in Letters \cup {"_"}
             digit == At(s, i) \in Digits
             quote == At(s, i) = "\""
             tick == At(s, i) = "'"
  <2>1. Lex(s, i) = CASE raw -> lex_raw_string(s, i)
                      [] ~raw /\ letter -> lex_ident(s, i)
                      [] digit -> lex_number(s, i)
                      [] quote -> lex_string(s, i)
                      [] tick -> lex_char(s, i)
                      [] OTHER -> lex_operator(s, i)
    <3>1. ~(i > Len(s))
      BY <1>2
    <3> QED
      BY <3>1, Zenon DEF Lex
  <2>2. raw => Lexed(lex_raw_string(s, i), i)
    <3> SUFFICES ASSUME raw PROVE Lexed(lex_raw_string(s, i), i)
      OBVIOUS
    <3>1. i + 1 \in Nat
      OBVIOUS
    <3>2. At(s, i + 1) # ""
      BY DEF OpensRaw
    <3>3. i + 1 <= Len(s)
      BY <3>1, <3>2, Characters
    <3> QED
      BY <3>3, RawStringHolds
  <2>3. letter => Lexed(lex_ident(s, i), i)
    <3> SUFFICES ASSUME letter PROVE Lexed(lex_ident(s, i), i)
      OBVIOUS
    <3>1. At(s, i) \in WordChars
      BY DEF WordChars
    <3> QED
      BY <1>2, <3>1, IdentHolds DEF Lexed
  <2>4. digit => Lexed(lex_number(s, i), i)
    BY <1>2, NumberHolds DEF Lexed
  <2>5. Lexed(lex_string(s, i), i) /\ Lexed(lex_char(s, i), i)
    BY StringHolds, CharHolds
  <2>6. Lexed(lex_operator(s, i), i)
    BY <1>2, OperatorHolds
  <2> HIDE DEF raw, letter, digit, quote, tick
  <2>7. Lexed(Lex(s, i), i)
    BY <2>1, <2>2, <2>3, <2>4, <2>5, <2>6
  <2>8. ~(i > Len(s))
    BY <1>2
  <2> QED
    BY <2>7, <2>8
<1>3. i > Len(s) \/ i <= Len(s)
  OBVIOUS
<1> QED
  BY <1>1, <1>2, <1>3

(***************************************************************************)
(* Blanks and comments                                                     *)
(***************************************************************************)
LEMMA PieceInText ==
  ASSUME Len(src) \in Nat, NEW i \in Nat
  PROVE  StartsPiece(i) => i <= Len(src)
<1> SUFFICES ASSUME StartsPiece(i) PROVE i <= Len(src)
  OBVIOUS
<1>1. At(src, i) # ""
  BY DEF StartsPiece, Blanks
<1> QED
  BY <1>1, Characters

LEMMA LineCommentHolds ==
  ASSUME Len(src) \in Nat, NEW i \in Nat \ {0}, i <= Len(src),
         At(src, i) = "/", At(src, i + 1) = "/"
  PROVE  /\ LineEnd(src, i) \in Nat /\ i < LineEnd(src, i)
         /\ IsLineComment(i, LineEnd(src, i))
<1> DEFINE n == Len(src)
           newline(k) == At(src, k) = "\n"
           S == {k \in i..n : newline(k)}
           e == LineEnd(src, i)
<1>1. n \in Nat /\ i <= n
  OBVIOUS
<1>2. ~newline(i)
  OBVIOUS
<1>3. e = Least(src, S)
  BY DEF LineEnd
<1> HIDE DEF newline, e
<1>4. S \subseteq Nat
  BY <1>1
<1>5. /\ S = {} => e = n + 1
      /\ S # {} => e \in S /\ \A k \in S : e <= k
  BY <1>3, <1>4, LeastHolds
<1> HIDE DEF n
<1>6. CASE S = {}
  <2>1. e = n + 1 /\ e \in Nat /\ i < e
    BY <1>1, <1>5, <1>6
  <2>2. \A k \in i..e - 1 : ~newline(k)
    BY <1>1, <1>6, <2>1
  <2> QED
    BY <2>1, <2>2 DEF IsLineComment, newline, e, n
<1>7. CASE S # {}
  <2>1. e \in i..n /\ newline(e) /\ \A k \in S : e <= k
    BY <1>5, <1>7
  <2>2. e # i
    BY <1>2, <2>1
  <2>3. e \in Nat /\ i < e
    BY <1>1, <2>1, <2>2
  <2>4. \A k \in i..e - 1 : ~newline(k)
    BY <1>1, <2>1, <2>3
  <2> QED
    BY <2>1, <2>3, <2>4 DEF IsLineComment, newline, e
<1> QED
  BY <1>6, <1>7

LEMMA BlockCommentHolds ==
  ASSUME Len(src) \in Nat, NEW i \in Nat \ {0}, i <= Len(src),
         At(src, i) = "/", At(src, i + 1) = "*"
  PROVE  /\ CommentEnd(src, i) \in Nat /\ i < CommentEnd(src, i)
         /\ IsBlockComment(i, CommentEnd(src, i))
<1> DEFINE n == Len(src)
           closes(k) == At(src, k) = "*" /\ At(src, k + 1) = "/"
           S == {k \in (i + 2)..n : closes(k)}
           e == CommentEnd(src, i)
<1>1. n \in Nat /\ i <= n
  OBVIOUS
<1>2. e = IF S = {} THEN n + 1 ELSE Least(src, S) + 2
  BY DEF CommentEnd
<1>3. IsBlockComment(i, e) <=>
        \/ e - 2 \in S /\ \A k \in S : e - 2 <= k
        \/ S = {} /\ e = n + 1
  BY DEF IsBlockComment
<1> HIDE DEF closes, e, n
<1>4. S \subseteq Nat
  BY <1>1
<1>5. S # {} => Least(src, S) \in S /\ \A k \in S : Least(src, S) <= k
  BY <1>4, LeastHolds
<1>6. CASE S = {}
  <2>1. e = n + 1 /\ e \in Nat /\ i < e
    BY <1>1, <1>2, <1>6
  <2> QED
    BY <1>3, <1>6, <2>1 DEF e
<1>7. CASE S # {}
  <2> DEFINE m == Least(src, S)
  <2>1. m \in (i + 2)..n /\ m \in S /\ e = m + 2 /\ \A k \in S : m <= k
    BY <1>2, <1>5, <1>7
  <2> HIDE DEF m
  <2>2. e \in Nat /\ i < e /\ e - 2 = m
    BY <1>1, <2>1
  <2> QED
    BY <1>3, <2>1, <2>2 DEF e
<1> QED
  BY <1>6, <1>7

\* A turn of skip_ws takes a whole piece, or nothing if none starts there.
LEMMA PastHolds ==
  ASSUME Len(src) \in Nat, NEW i \in Nat \ {0}
  PROVE  /\ Past(src, i) \in Nat /\ i <= Past(src, i)
         /\ StartsPiece(i) => i < Past(src, i) /\ IsPiece(i, Past(src, i))
         /\ ~StartsPiece(i) => Past(src, i) = i
<1> DEFINE blank == At(src, i) \in Blanks
           rest == At(src, i) = "/" /\ At(src, i + 1) = "/"
           block == At(src, i) = "/" /\ At(src, i + 1) = "*"
<1>1. Past(src, i) = CASE blank -> i + 1 [] rest -> LineEnd(src, i)
                       [] block -> CommentEnd(src, i) [] OTHER -> i
  BY Zenon DEF Past
<1>2. StartsPiece(i) <=> blank \/ rest \/ block
  BY DEF StartsPiece
<1>3. ~(blank /\ (rest \/ block)) /\ ~(rest /\ block)
  BY DEF Blanks
<1>4. blank => IsPiece(i, i + 1)
  BY DEF IsPiece, IsBlank
<1>5. rest => LineEnd(src, i) \in Nat /\ i < LineEnd(src, i) /\ IsPiece(i, LineEnd(src, i))
  BY <1>2, PieceInText, LineCommentHolds DEF IsPiece
<1>6. block => CommentEnd(src, i) \in Nat /\ i < CommentEnd(src, i) /\ IsPiece(i, CommentEnd(src, i))
  BY <1>2, PieceInText, BlockCommentHolds DEF IsPiece
<1> HIDE DEF blank, rest, block
<1>7. CASE blank
  <2>1. Past(src, i) = i + 1
    BY <1>1, <1>3, <1>7
  <2> QED
    BY <1>2, <1>4, <1>7, <2>1
<1>8. CASE rest
  <2>1. Past(src, i) = LineEnd(src, i)
    BY <1>1, <1>3, <1>8
  <2> QED
    BY <1>2, <1>5, <1>8, <2>1
<1>9. CASE block
  <2>1. Past(src, i) = CommentEnd(src, i)
    BY <1>1, <1>3, <1>9
  <2> QED
    BY <1>2, <1>6, <1>9, <2>1
<1>10. CASE ~blank /\ ~rest /\ ~block
  <2>1. Past(src, i) = i
    BY <1>1, <1>10
  <2> QED
    BY <1>2, <1>10, <2>1
<1> QED
  BY <1>7, <1>8, <1>9, <1>10

\* The turns of the loop.
Turns(T, i) == /\ T[0] = i
               /\ \A k \in 1..Len(src) : T[k] = Past(src, T[k - 1])
               /\ \A k \in 0..Len(src) : T[k] \in Nat /\ i <= T[k]

LEMMA SkipTurns ==
  ASSUME Len(src) \in Nat, NEW i \in Nat \ {0}
  PROVE  \E T : Turns(T, i) /\ skip_ws(src, i) = T[Len(src)]
<1> DEFINE n == Len(src)
           D == {j \in Nat : i <= j}
           P(b) == b = [k \in 0..n |-> IF k = 0 THEN i ELSE Past(src, b[k - 1])]
           F == [p \in D \X (1..n) |-> Past(src, p[1])]
<1>1. n \in Nat /\ i \in D
  OBVIOUS
<1>2. ASSUME NEW j \in D PROVE Past(src, j) \in D
  <2>1. j \in Nat \ {0} /\ i <= j
    OBVIOUS
  <2>2. Past(src, j) \in Nat /\ j <= Past(src, j)
    BY <2>1, PastHolds
  <2> QED
    BY <2>1, <2>2
<1>3. skip_ws(src, i) = (CHOOSE b : P(b))[n]
  BY DEF skip_ws
<1> HIDE DEF n, D
<1>4. F \in [D \X (1..n) -> D]
  BY <1>2
<1>5. PICK f \in [0..n -> D] : Unrolls(f, i, F, n)
  <2> HIDE DEF F
  <2> QED
    BY <1>1, <1>4, Unrolling
<1>6. P(f)
  <2>1. f[0] = i /\ \A k \in 1..n : f[k] = F[<<f[k - 1], k>>]
    BY <1>5 DEF Unrolls
  <2>2. ASSUME NEW k \in 1..n PROVE f[k] = Past(src, f[k - 1])
    <3>1. f[k - 1] \in D /\ <<f[k - 1], k>> \in D \X (1..n)
      BY <1>1, <1>5
    <3>2. F[<<f[k - 1], k>>] = Past(src, f[k - 1])
      BY <3>1
    <3> QED
      BY <2>1, <3>2
  <2> QED
    BY <1>1, <1>5, <2>1, <2>2
<1> DEFINE T == CHOOSE b : P(b)
<1>7. P(T)
  <2> HIDE DEF P
  <2> QED
    BY <1>6
<1> HIDE DEF T
<1>8. T[0] = i /\ \A k \in 1..n : T[k] = Past(src, T[k - 1])
  BY <1>1, <1>7
<1>9. \A k \in 0..n : T[k] \in D
  <2>1. \A k \in 1..n : T[k - 1] \in D => T[k] \in D
    BY <1>2, <1>8
  <2> QED
    BY <1>1, <1>8, <2>1, Staying
<1>10. Turns(T, i)
  BY <1>8, <1>9 DEF Turns, n, D
<1> QED
  BY <1>3, <1>10 DEF T, n

\* The turns reach something that is no gap, since each that is in one moves
\* on, and those that moved on lead there piece by piece.
LEMMA SkipHolds ==
  ASSUME Len(src) \in Nat, NEW i \in Nat \ {0}
  PROVE  /\ skip_ws(src, i) \in Nat /\ i <= skip_ws(src, i)
         /\ ~StartsPiece(skip_ws(src, i))
         /\ IsGap(i, skip_ws(src, i))
<1> DEFINE n == Len(src)
<1>1. PICK T : Turns(T, i) /\ skip_ws(src, i) = T[n]
  BY SkipTurns
<1>2. /\ T[0] = i
      /\ \A k \in 1..n : T[k] = Past(src, T[k - 1])
      /\ \A k \in 0..n : T[k] \in Nat /\ i <= T[k]
  BY <1>1 DEF Turns
<1>3. \A j \in Nat : StartsPiece(j) => j <= n
  BY PieceInText
<1>4. n \in Nat
  OBVIOUS
<1> HIDE DEF n
<1>5. ASSUME NEW k \in Nat, k + 1 <= n
      PROVE  /\ T[k] \in Nat /\ T[k + 1] \in Nat /\ T[k] <= T[k + 1]
             /\ StartsPiece(T[k]) => T[k] < T[k + 1] /\ IsPiece(T[k], T[k + 1])
             /\ ~StartsPiece(T[k]) => T[k + 1] = T[k]
  <2>1. k + 1 \in 1..n /\ (k + 1) - 1 = k /\ k \in 0..n /\ k + 1 \in 0..n
    BY <1>4, <1>5
  <2>2. T[k + 1] = Past(src, T[k]) /\ T[k] \in Nat /\ i <= T[k]
    BY <1>2, <2>1
  <2>3. T[k] \in Nat \ {0}
    BY <2>2
  <2> QED
    BY <2>2, <2>3, PastHolds
<1>6. ~StartsPiece(T[n])
  <2> DEFINE S == {k \in Nat : k <= n => ~StartsPiece(T[k]) \/ i + k <= T[k]}
  <2>1. 0 \in S
    BY <1>2
  <2>2. ASSUME NEW k \in Nat, k \in S PROVE k + 1 \in S
    <3> SUFFICES ASSUME k + 1 <= n PROVE ~StartsPiece(T[k + 1]) \/ i + (k + 1) <= T[k + 1]
      OBVIOUS
    <3>1. ~StartsPiece(T[k]) \/ i + k <= T[k]
      BY <1>4, <2>2
    <3>2. CASE ~StartsPiece(T[k])
      BY <1>5, <3>2
    <3>3. CASE StartsPiece(T[k])
      <4> DEFINE a == T[k]  b == T[k + 1]
      <4>1. a \in Nat /\ b \in Nat /\ a < b /\ i + k <= a
        BY <1>5, <3>1, <3>3
      <4> HIDE DEF a, b
      <4>2. i + (k + 1) <= b
        BY <4>1
      <4> QED
        BY <4>2 DEF b
    <3> QED
      BY <3>2, <3>3
  <2> HIDE DEF S
  <2>3. n \in S
    BY <1>4, <2>1, <2>2, Induction
  <2>4. ~StartsPiece(T[n]) \/ i + n <= T[n]
    BY <1>4, <2>3 DEF S
  <2>5. T[n] \in Nat
    BY <1>2, <1>4
  <2>6. i + n <= T[n] => ~(T[n] <= n)
    BY <1>4, <2>5
  <2> QED
    BY <1>3, <2>4, <2>5, <2>6
<1>7. \A k \in 0..n : T[k] <= T[n] /\ (T[k] # T[n] => StartsPiece(T[k]))
  <2> DEFINE S == {d \in Nat : d <= n => T[n - d] <= T[n] /\ (T[n - d] # T[n] => StartsPiece(T[n - d]))}
  <2>1. 0 \in S
    <3>1. n - 0 = n /\ T[n] \in Nat
      BY <1>2, <1>4
    <3> QED
      BY <3>1
  <2>2. ASSUME NEW d \in Nat, d \in S PROVE d + 1 \in S
    <3> SUFFICES ASSUME d + 1 <= n
                 PROVE  /\ T[n - (d + 1)] <= T[n]
                        /\ T[n - (d + 1)] # T[n] => StartsPiece(T[n - (d + 1)])
      OBVIOUS
    <3> DEFINE k == n - (d + 1)
    <3>1. k \in Nat /\ k + 1 = n - d /\ k + 1 <= n /\ d <= n
      BY <1>4
    <3>2. T[k + 1] <= T[n] /\ (T[k + 1] # T[n] => StartsPiece(T[k + 1]))
      BY <2>2, <3>1
    <3> HIDE DEF k
    <3>3. /\ T[k] \in Nat /\ T[k + 1] \in Nat /\ T[k] <= T[k + 1]
          /\ ~StartsPiece(T[k]) => T[k + 1] = T[k]
      BY <1>5, <3>1
    <3>4. T[n] \in Nat
      BY <1>2, <1>4
    <3>5. T[k] <= T[n]
      BY <3>2, <3>3, <3>4
    <3>6. T[k] # T[n] => StartsPiece(T[k])
      BY <3>2, <3>3
    <3> QED
      BY <3>5, <3>6 DEF k
  <2> HIDE DEF S
  <2>3. \A d \in Nat : d \in S
    BY <2>1, <2>2, Induction
  <2> TAKE k \in 0..n
  <2>4. n - k \in Nat /\ n - k <= n /\ n - (n - k) = k
    BY <1>4
  <2>5. n - k \in S
    BY <2>3, <2>4
  <2> QED
    BY <2>4, <2>5 DEF S
<1>8. IsGap(i, T[n])
  <2> DEFINE marks == {T[k] : k \in 0..n}
  <2>1. marks \in SUBSET (i..T[n])
    <3>1. T[n] \in Nat
      BY <1>2, <1>4
    <3>2. \A k \in 0..n : T[k] \in Nat /\ i <= T[k] /\ T[k] <= T[n]
      BY <1>2, <1>7
    <3> QED
      BY <3>1, <3>2
  <2>2. i \in marks /\ T[n] \in marks
    BY <1>2, <1>4
  <2>3. ASSUME NEW m \in marks \ {T[n]} PROVE \E e \in marks : IsPiece(m, e)
    <3>1. PICK k \in 0..n : m = T[k]
      OBVIOUS
    <3>2. k # n /\ StartsPiece(T[k])
      BY <1>7, <3>1
    <3>3. k \in Nat /\ k + 1 <= n /\ k + 1 \in 0..n
      BY <1>4, <3>2
    <3>4. IsPiece(T[k], T[k + 1])
      BY <1>5, <3>2, <3>3
    <3> QED
      BY <3>1, <3>3, <3>4
  <2> HIDE DEF marks
  <2> QED
    BY <2>1, <2>2, <2>3 DEF IsGap
<1>9. T[n] \in Nat /\ i <= T[n]
  BY <1>2, <1>4
<1> QED
  BY <1>1, <1>6, <1>8, <1>9

(***************************************************************************)
(* Places                                                                  *)
(***************************************************************************)
Latest(S) == IF S = {} THEN 0 ELSE CHOOSE k \in S : \A n \in S : n <= k

\* Line l and column c are where i is in the text.
PlaceIs(l, c, i) ==
    /\ l = Cardinality(Newlines(src, 1, i)) + 1
    /\ i = c + Latest(Newlines(src, 1, i))

LEMMA LatestHolds ==
  ASSUME NEW S, S \subseteq Nat, S # {}, NEW b \in Nat, \A n \in S : n <= b
  PROVE  Latest(S) \in S /\ \A n \in S : n <= Latest(S)
<1>1. \E m \in S : \A n \in S : n <= m
  BY Maximum
<1> QED
  BY <1>1 DEF Latest

LEMMA NewlinesSplit ==
  ASSUME Len(src) \in Nat, NEW i \in Nat \ {0}, NEW j \in Nat, i <= j
  PROVE  /\ Newlines(src, 1, j) = Newlines(src, 1, i) \cup Newlines(src, i, j)
         /\ Newlines(src, 1, i) \cap Newlines(src, i, j) = {}
         /\ \A k \in Newlines(src, 1, i) : k \in Nat /\ k < i
         /\ \A k \in Newlines(src, i, j) : k \in Nat /\ i <= k /\ k < j
         /\ IsFiniteSet(Newlines(src, 1, i)) /\ IsFiniteSet(Newlines(src, i, j))
<1> DEFINE n == Len(src)
           newline(k) == At(src, k) = "\n"
           A == {k \in 1..Least2(i - 1, n) : newline(k)}
           B == {k \in i..Least2(j - 1, n) : newline(k)}
           C == {k \in 1..Least2(j - 1, n) : newline(k)}
<1>1. n \in Nat /\ Newlines(src, 1, i) = A /\ Newlines(src, i, j) = B /\ Newlines(src, 1, j) = C
  BY DEF Newlines
<1> HIDE DEF n, newline
<1>2. \A k \in A : k \in Nat /\ 1 <= k /\ k < i /\ k <= n /\ newline(k)
  BY <1>1 DEF Least2
<1>3. \A k \in B : k \in Nat /\ i <= k /\ k < j /\ k <= n /\ newline(k)
  BY <1>1 DEF Least2
<1>4. \A k \in C : k \in Nat /\ 1 <= k /\ k < j /\ k <= n /\ newline(k)
  BY <1>1 DEF Least2
<1>5. \A k \in Nat : 1 <= k /\ k < i /\ k <= n /\ newline(k) => k \in A
  BY <1>1 DEF Least2
<1>6. \A k \in Nat : i <= k /\ k < j /\ k <= n /\ newline(k) => k \in B
  BY <1>1 DEF Least2
<1>7. \A k \in Nat : 1 <= k /\ k < j /\ k <= n /\ newline(k) => k \in C
  BY <1>1 DEF Least2
<1> HIDE DEF A, B, C
<1>8. IsFiniteSet(A) /\ IsFiniteSet(B)
  <2>1. A \in SUBSET (1..j) /\ B \in SUBSET (1..j)
    BY <1>2, <1>3
  <2>2. IsFiniteSet(1..j)
    BY FS_Interval
  <2> QED
    BY <2>1, <2>2, FS_Subset
<1>9. A \cap B = {}
  BY <1>2, <1>3
<1>10. C \subseteq A \cup B
  BY <1>4, <1>5, <1>6
<1>11. A \subseteq C /\ B \subseteq C
  BY <1>2, <1>3, <1>7
<1>12. C = A \cup B
  BY <1>10, <1>11
<1> QED
  BY <1>1, <1>2, <1>3, <1>8, <1>9, <1>12

\* Counting on from a true place gives true places.
LEMMA PlacesFollow ==
  ASSUME Len(src) \in Nat, NEW i \in Nat \ {0}, NEW j \in Nat, i <= j,
         NEW l, NEW c, PlaceIs(l, c, i), c \in Int
  PROVE  /\ PlaceIs(LineAfter(l, src, i, j), ColAfter(c, src, i, j), j)
         /\ ColAfter(c, src, i, j) \in Int
<1> DEFINE A == Newlines(src, 1, i)
           B == Newlines(src, i, j)
           C == Newlines(src, 1, j)
<1>1. /\ C = A \cup B /\ A \cap B = {}
      /\ \A k \in A : k \in Nat /\ k < i
      /\ \A k \in B : k \in Nat /\ i <= k /\ k < j
      /\ IsFiniteSet(A) /\ IsFiniteSet(B)
  BY NewlinesSplit
<1>2. l = Cardinality(A) + 1 /\ i = c + Latest(A)
  BY DEF PlaceIs
<1>3. LineAfter(l, src, i, j) = l + Cardinality(B)
  BY DEF LineAfter
<1>4. ColAfter(c, src, i, j) = IF B = {} THEN c + (j - i) ELSE j - Latest(B)
  BY DEF ColAfter, Latest
<1>5. PlaceIs(LineAfter(l, src, i, j), ColAfter(c, src, i, j), j) <=>
        /\ LineAfter(l, src, i, j) = Cardinality(C) + 1
        /\ j = ColAfter(c, src, i, j) + Latest(C)
  BY DEF PlaceIs
<1> HIDE DEF A, B, C
<1>6. LineAfter(l, src, i, j) = Cardinality(C) + 1
  <2>1. Cardinality(C) = Cardinality(A) + Cardinality(B) - Cardinality({})
    BY <1>1, FS_Union
  <2>2. Cardinality(A) \in Nat /\ Cardinality(B) \in Nat /\ Cardinality({}) = 0
    BY <1>1, FS_CardinalityType, FS_EmptySet
  <2> QED
    BY <1>2, <1>3, <2>1, <2>2
<1>7. Latest(A) \in Nat
  <2>1. CASE A = {}
    BY <2>1 DEF Latest
  <2>2. CASE A # {}
    <3>1. A \subseteq Nat /\ \A k \in A : k <= i
      BY <1>1
    <3> QED
      BY <2>2, <3>1, LatestHolds
  <2> QED
    BY <2>1, <2>2
<1>8. CASE B = {}
  <2>1. C = A
    BY <1>1, <1>8
  <2>2. ColAfter(c, src, i, j) = c + (j - i)
    BY <1>4, <1>8
  <2>3. c + (j - i) \in Int /\ j = (c + (j - i)) + Latest(A)
    BY <1>2, <1>7
  <2> QED
    BY <1>5, <1>6, <2>1, <2>2, <2>3
<1>9. CASE B # {}
  <2>1. Latest(B) \in B /\ \A k \in B : k <= Latest(B)
    <3>1. B \subseteq Nat /\ \A k \in B : k <= j
      BY <1>1
    <3> QED
      BY <1>9, <3>1, LatestHolds
  <2>2. Latest(C) \in C /\ \A k \in C : k <= Latest(C)
    <3>1. C \subseteq Nat /\ \A k \in C : k <= j
      BY <1>1
    <3>2. C # {}
      BY <1>1, <1>9
    <3> QED
      BY <3>1, <3>2, LatestHolds
  <2> DEFINE b == Latest(B)  e == Latest(C)
  <2>3. b \in B /\ e \in C /\ b \in Nat /\ i <= b /\ b <= e
    BY <1>1, <2>1, <2>2
  <2>4. e = b
    <3>1. CASE e \in A
      <4>1. e \in Nat /\ e < i
        BY <1>1, <3>1
      <4> HIDE DEF b, e
      <4> QED
        BY <2>3, <4>1
    <3>2. CASE e \in B
      <4>1. e \in Nat /\ e <= b
        BY <1>1, <2>1, <3>2
      <4> HIDE DEF b, e
      <4> QED
        BY <2>3, <4>1
    <3> QED
      BY <1>1, <2>3, <3>1, <3>2
  <2>5. ColAfter(c, src, i, j) = j - b
    BY <1>4, <1>9
  <2> HIDE DEF b, e
  <2>6. j - b \in Int /\ j = (j - b) + b
    BY <2>3
  <2> QED
    BY <1>5, <1>6, <2>4, <2>5, <2>6 DEF b, e
<1> QED
  BY <1>8, <1>9

(***************************************************************************)
(* The longest lexeme                                                      *)
(***************************************************************************)
\* What TokensAreLongest says of one token, that is read from i to to.
Longest(i, to) ==
  /\ Lexeme(i, Least2(to, Len(src) + 1))
     \/ (Least2(to, Len(src) + 1) = Len(src) + 1 /\ IsOpenString(i))
  /\ \A j \in Least2(to, Len(src) + 1) + 1..Len(src) + 1 : ~Lexeme(i, j)
  /\ Least2(to, Len(src) + 1) <= Len(src) => ~IsOpenString(i)

\* Characters and sets of them by name: the provers cannot read some in full.
Nothing == ""
Mark == "\""
NameStarts == Letters \cup {"_"}
Underscored(chars) == chars \cup {"_"}
Wholes == Underscored(Digits)

\* Where a text has characters of a set.
Spots(s, chars) == {k \in Nat : At(s, k) \in chars}

LEMMA SpotsInText ==
  ASSUME NEW s, Len(s) \in Nat, NEW chars, Nothing \notin chars
  PROVE  Spots(s, chars) \subseteq Nat /\ \A k \in Spots(s, chars) : k <= Len(s)
<1>1. ASSUME NEW k \in Nat, At(s, k) \in chars PROVE k <= Len(s)
  <2>1. At(s, k) # Nothing
    BY <1>1
  <2>2. At(s, k) # ""
    BY <2>1, Zenon DEF Nothing
  <2> QED
    BY <2>2, Characters
<1> QED
  BY <1>1 DEF Spots

\* All characters of a span belong to it, the next one does not.
LEMMA SpanIsExact ==
  ASSUME NEW s, Len(s) \in Nat, NEW i \in Nat \ {0}, i <= Len(s) + 1, NEW chars, Nothing \notin chars
  PROVE  /\ i..Span(s, i, chars) - 1 \subseteq Spots(s, chars)
         /\ Span(s, i, chars) \notin Spots(s, chars)
<1> DEFINE n == Len(s)
           G == Spots(s, chars)
           S == {j \in i..n : j \notin G}
           e == Span(s, i, chars)
<1>1. e = Least(s, S)
  <2>1. \A j \in i..n : At(s, j) \notin chars <=> j \notin G
    BY DEF Spots
  <2>2. {j \in i..n : At(s, j) \notin chars} = S
    BY <2>1
  <2> QED
    BY <2>2 DEF Span
<1>2. n \in Nat /\ i <= n + 1
  OBVIOUS
<1>3. \A k \in G : k <= n
  BY SpotsInText
<1>6. e \in Nat /\ i <= e /\ e <= n + 1
  BY SpanHolds
<1> HIDE DEF n, e, G
<1>4. S \subseteq Nat
  BY <1>2
<1>5. /\ S = {} => e = n + 1
      /\ S # {} => e \in S /\ \A j \in S : e <= j
  BY <1>1, <1>4, LeastHolds DEF n
<1>7. e \notin G
  BY <1>2, <1>3, <1>5
<1>8. i..e - 1 \subseteq G
  BY <1>2, <1>5, <1>6
<1> QED
  BY <1>7, <1>8 DEF e, G

LEMMA AllAreSpots ==
  ASSUME NEW i \in Nat, NEW j \in Int, NEW chars
  PROVE  All(i, j, chars) <=> i..j - 1 \subseteq Spots(src, chars)
<1>1. \A k \in i..j - 1 : k \in Nat
  OBVIOUS
<1> QED
  BY <1>1 DEF All, Spots

(***************************************************************************)
(* What a lexeme can be, by its first character                            *)
(***************************************************************************)
\* What a text of one kind begins with.
LEMMA FirstOfAll ==
  ASSUME NEW i \in Nat, NEW j \in Nat, i < j, NEW chars, All(i, j, chars)
  PROVE  At(src, i) \in chars
<1>1. i \in i..j - 1
  OBVIOUS
<1> QED
  BY <1>1 DEF All

LEMMA FirstOfQuoted ==
  ASSUME NEW i \in Nat, NEW q \in {1, 3}, Quoted(i, q)
  PROVE  At(src, i) = Mark
<1>1. i + q \in Nat /\ i < i + q
  OBVIOUS
<1>2. All(i, i + q, {Mark})
  BY Zenon DEF Quoted, Mark
<1> QED
  BY <1>1, <1>2, FirstOfAll

LEMMA FirstOfTwo ==
  ASSUME NEW i \in Nat, Two(src, i) \in Twos
  PROVE  At(src, i) \in Ones
<1> DEFINE c == At(src, i)  d == At(src, i + 1)
<1>1. <<c, d>> \in Twos
  BY DEF Two
<1> HIDE DEF c, d
<1>2. c \in Ones
  BY <1>1 DEF Twos, Ones
<1> QED
  BY <1>2 DEF c

\* Operators of three characters begin with one of two.
LEMMA TwoOfThree ==
  ASSUME NEW i \in Nat, Three(src, i) \in Threes
  PROVE  Two(src, i) \in Twos
<1> DEFINE c == At(src, i)  d == At(src, i + 1)  e == At(src, i + 2)
<1>1. <<c, d, e>> \in Threes
  BY DEF Three
<1> HIDE DEF c, d, e
<1>2. <<c, d>> \in Twos
  BY <1>1 DEF Twos, Threes
<1> QED
  BY <1>2 DEF c, d, Two

LEMMA FirstOfNumber ==
  ASSUME NEW i \in Nat, NEW j \in Nat, IsNumber(i, j)
  PROVE  At(src, i) \in Digits
<1>1. "0" \in Digits
  BY DEF Digits
<1>2. \A k, letters, chars : IsRadix(i, k, letters, chars) => At(src, i) = "0"
  BY DEF IsRadix
<1>3. IsDecimal(i, j) => At(src, i) \in Digits
  BY DEF IsDecimal, IsWhole
<1> QED
  BY <1>1, <1>2, <1>3 DEF IsNumber

LEMMA FirstOfLexeme ==
  ASSUME NEW i \in Nat, NEW j \in Nat, i + 1 < j, Lexeme(i, j)
  PROVE  \/ IsWord(i, j) /\ At(src, i) \in NameStarts
         \/ IsOperator(i, j) /\ At(src, i) \in Ones
         \/ IsNumber(i, j) /\ At(src, i) \in Digits
         \/ IsString(i, j) /\ (At(src, i) = Mark \/ Raw(i))
         \/ IsChar(i, j) /\ At(src, i) = "'"
<1>1. IsWord(i, j) => At(src, i) \in NameStarts
  <2> SUFFICES ASSUME IsWord(i, j) PROVE At(src, i) \in NameStarts
    OBVIOUS
  <2>1. At(src, i) \notin Digits /\ All(i, j, WordChars)
    BY DEF IsWord
  <2>2. At(src, i) \in WordChars
    BY <2>1, FirstOfAll
  <2> QED
    BY <2>1, <2>2 DEF WordChars, NameStarts
<1>2. IsOperator(i, j) => At(src, i) \in Ones
  BY FirstOfTwo, TwoOfThree DEF IsOperator
<1>3. IsNumber(i, j) => At(src, i) \in Digits
  BY FirstOfNumber
<1>4. IsString(i, j) => At(src, i) = Mark \/ Raw(i)
  BY FirstOfQuoted DEF IsString
<1>5. IsChar(i, j) => At(src, i) = "'"
  BY DEF IsChar
<1>6. j # i + 1
  OBVIOUS
<1> QED
  BY <1>1, <1>2, <1>3, <1>4, <1>5, <1>6 DEF Lexeme

LEMMA FirstOfOpen ==
  ASSUME NEW i \in Nat, IsOpenString(i)
  PROVE  At(src, i) = Mark \/ Raw(i)
BY FirstOfQuoted DEF IsOpenString

\* The first character says which kinds of lexeme there can be.
LEMMA FirstsDiffer ==
  ASSUME NEW c
  PROVE  /\ c \in NameStarts => c \notin Ones /\ c \notin Digits /\ c # Mark /\ c # "'"
         /\ c \in Digits => c \notin Ones /\ c # Mark /\ c # "'" /\ c \notin {"r", "R"}
         /\ c \in Ones => c # Mark /\ c # "'" /\ c \notin {"r", "R"}
         /\ c \in {"r", "R"} => c \in NameStarts
         /\ Mark # "'" /\ Mark \notin {"r", "R"} /\ "'" \notin {"r", "R"}
<1>1. c \in NameStarts => c \notin Ones /\ c # Mark /\ c # "'"
  BY DEF NameStarts, Letters, HexLetters, Ones, Mark
<1>2. c \in NameStarts => c \notin Digits
  BY DEF NameStarts, Letters, HexLetters, Digits
<1>3. c \in Digits => c \notin Ones /\ c # Mark /\ c # "'" /\ c \notin {"r", "R"}
  BY DEF Digits, Ones, Mark
<1>4. c \in Ones => c # Mark /\ c # "'" /\ c \notin {"r", "R"}
  BY DEF Ones, Mark
<1>5. c \in {"r", "R"} => c \in NameStarts
  BY DEF NameStarts, Letters
<1>6. Mark # "'" /\ Mark \notin {"r", "R"} /\ "'" \notin {"r", "R"}
  BY Zenon DEF Mark
<1> QED
  BY <1>1, <1>2, <1>3, <1>4, <1>5, <1>6

\* A lexeme within the text, nothing longer and no open string.
LEMMA IsLongest ==
  ASSUME Len(src) \in Nat, NEW i \in Nat, NEW to \in Nat, i < to, to <= Len(src) + 1, Lexeme(i, to),
         \A j \in Nat : to < j /\ j <= Len(src) + 1 => ~Lexeme(i, j), ~IsOpenString(i)
  PROVE  Longest(i, to)
<1>1. Least2(to, Len(src) + 1) = to
  BY DEF Least2
<1>2. \A j \in to + 1..Len(src) + 1 : ~Lexeme(i, j)
  OBVIOUS
<1> QED
  BY <1>1, <1>2 DEF Longest

\* What pk gives beyond the end is in none of the sets the lexer looks for.
LEMMA NothingElse ==
  /\ Nothing \notin WordChars /\ Nothing \notin Digits /\ Nothing \notin Wholes
  /\ Nothing \notin HexDigits /\ Nothing \notin Underscored(HexDigits) /\ Nothing \notin Underscored({"0", "1"})
  /\ Nothing \notin Underscored(Digits \ {"8", "9"})
  /\ Nothing \notin Ones /\ Nothing \notin {Mark}
<1>1. Nothing \notin Digits /\ Nothing # "_" /\ Nothing # Mark /\ Nothing # "0" /\ Nothing # "1"
  BY Zenon DEF Nothing, Mark, Digits
<1>2. Nothing \notin HexLetters
  BY Zenon DEF Nothing, HexLetters
<1>3. Nothing \notin Letters
  BY <1>2, Zenon DEF Nothing, Letters
<1>4. Nothing \notin Ones
  BY Zenon DEF Nothing, Ones
<1> QED
  BY <1>1, <1>2, <1>3, <1>4, Zenon DEF WordChars, HexDigits, Wholes, Underscored

\* A character that is something is one of the text.
LEMMA CharactersOf ==
  ASSUME NEW s, Len(s) \in Nat, NEW i \in Nat, At(s, i) # Nothing
  PROVE  i <= Len(s)
<1>1. At(s, i) # ""
  BY Zenon DEF Nothing
<1> QED
  BY <1>1, Characters

\* lex_ident.
LEMMA WordIsLongest ==
  ASSUME Len(src) \in Nat, NEW i \in Nat \ {0}, i <= Len(src),
         At(src, i) \in NameStarts, ~OpensRaw(src, i)
  PROVE  Longest(i, lex_ident(src, i).to)
<1> DEFINE e == Span(src, i, WordChars)
           G == Spots(src, WordChars)
           n == Len(src)
<1>1. lex_ident(src, i).to = e
  BY DEF lex_ident, Token
<1>2. At(src, i) \in WordChars /\ At(src, i) \notin Digits
  BY FirstsDiffer DEF WordChars, NameStarts
<1>0. i \in Nat /\ i <= n + 1 /\ \A j \in Nat : j \in Int
  OBVIOUS
<1>3. e \in Nat \ {0} /\ i < e /\ e <= n + 1
  BY <1>0, <1>2, SpanHolds
<1>4. i..e - 1 \subseteq G /\ e \notin G
  BY <1>0, NothingElse, SpanIsExact
<1>5. \A j \in Nat : All(i, j, WordChars) <=> i..j - 1 \subseteq G
  BY <1>0, AllAreSpots
<1>6. ~Raw(i)
  BY DEF Raw, OpensRaw
<1>7. ASSUME NEW j \in Nat, e < j PROVE ~Lexeme(i, j)
  <2>1. i + 1 < j
    <3> HIDE DEF e
    <3> QED
      BY <1>3, <1>7
  <2>2. Lexeme(i, j) => IsWord(i, j)
    BY <1>6, <2>1, FirstOfLexeme, FirstsDiffer
  <2>3. ~(i..j - 1 \subseteq G)
    <3> HIDE DEF e, G
    <3>1. e \in i..j - 1
      BY <1>3, <1>7
    <3> QED
      BY <1>4, <3>1
  <2> QED
    BY <1>5, <2>2, <2>3 DEF IsWord
<1>8. Lexeme(i, e)
  BY <1>2, <1>3, <1>4, <1>5 DEF Lexeme, IsWord
<1>9. ~IsOpenString(i)
  BY <1>6, FirstOfOpen, FirstsDiffer
<1> HIDE DEF e
<1>10. Longest(i, e)
  BY <1>3, <1>7, <1>8, <1>9, IsLongest
<1> QED
  BY <1>1, <1>10

\* lex_operator.
LEMMA OperatorIsLongest ==
  ASSUME Len(src) \in Nat, NEW i \in Nat \ {0}, i <= Len(src),
         At(src, i) \notin NameStarts, At(src, i) \notin Digits,
         At(src, i) # Mark, At(src, i) # "'"
  PROVE  Longest(i, lex_operator(src, i).to)
<1> DEFINE two == Two(src, i) \in Twos
           three == Three(src, i) \in Threes
           n == CASE two /\ three -> 3 [] two /\ ~three -> 2 [] OTHER -> 1
           e == i + n
<1>1. lex_operator(src, i).to = e
  BY DEF lex_operator, Token
<1>2. ~Raw(i)
  BY FirstsDiffer DEF Raw
<1>3. ASSUME NEW j \in Nat, i + 1 < j, Lexeme(i, j) PROVE (j = i + 2 /\ two) \/ (j = i + 3 /\ two /\ three)
  <2>1. IsOperator(i, j)
    BY <1>2, <1>3, FirstOfLexeme
  <2>2. \/ j = i + 2 /\ two
        \/ j = i + 3 /\ three
    BY <2>1 DEF IsOperator
  <2>3. three => two
    BY TwoOfThree
  <2> HIDE DEF two, three
  <2> QED
    BY <2>2, <2>3
<1>4. /\ two /\ three => n = 3
      /\ two /\ ~three => n = 2
      /\ ~two => n = 1
  <2> HIDE DEF two, three
  <2> QED
    OBVIOUS
<1>5. Lexeme(i, e)
  <2>1. CASE two /\ three
    BY <1>4, <2>1 DEF Lexeme, IsOperator
  <2>2. CASE two /\ ~three
    BY <1>4, <2>2 DEF Lexeme, IsOperator
  <2>3. CASE ~two
    BY <1>4, <2>3 DEF Lexeme
  <2> QED
    BY <2>1, <2>2, <2>3
<1>6. /\ two => i + 1 <= Len(src)
      /\ three => i + 2 <= Len(src)
  <2> DEFINE c == At(src, i + 1)  d == At(src, i + 2)
  <2>1. Nothing \notin {"+", "=", "-", ">", "{", "&", "|", "<", ":", "."}
    BY Zenon DEF Nothing
  <2>2. two => c \in {"+", "=", "-", ">", "{", "&", "|", "<", ":", "."}
    BY DEF Two, Twos
  <2>3. three => d \in {"="}
    BY DEF Three, Threes
  <2>4. two => c # Nothing
    BY <2>1, <2>2
  <2>5. three => d # Nothing
    BY <2>1, <2>3
  <2>6. i + 1 \in Nat /\ i + 2 \in Nat
    OBVIOUS
  <2> QED
    BY <2>4, <2>5, <2>6, CharactersOf
<1>7. ~IsOpenString(i)
  BY <1>2, FirstOfOpen
<1> HIDE DEF two, three
<1>8. e \in Nat /\ i < e /\ e <= Len(src) + 1
  BY <1>4, <1>6
<1>9. ASSUME NEW j \in Nat, e < j PROVE ~Lexeme(i, j)
  BY <1>3, <1>4, <1>9
<1> HIDE DEF e, n
<1>10. Longest(i, e)
  BY <1>5, <1>7, <1>8, <1>9, IsLongest
<1> QED
  BY <1>1, <1>10

(***************************************************************************)
(* Numbers                                                                 *)
(***************************************************************************)
\* Where an exponent and a suffix that begin at p end, or p.
ExponentEnd(p) == IF At(src, p) \in {"e", "E"}
                  THEN Span(src, IF At(src, p + 1) \in {"+", "-"} THEN p + 2 ELSE p + 1, Digits) ELSE p
SuffixEnd(p) == CASE At(src, p) \in {"d", "D"} -> p + 1
                  [] At(src, p) \in {"f", "F"} -> p + 1
                  [] At(src, p) = "L" -> p + 1
                  [] At(src, p) = "u" /\ At(src, p + 1) = "L" -> p + 2
                  [] At(src, p) = "u" /\ At(src, p + 1) # "L" -> p + 1
                  [] OTHER -> p

\* The characters that may follow a number's digits and still belong to it.
Stops == {".", "e", "E", "d", "D", "f", "F", "L", "u"}

LEMMA StopsDiffer ==
  /\ Nothing \notin Stops /\ Nothing \notin {"+", "-"} /\ Nothing \notin {"e", "E"}
  /\ \A c \in Wholes : c \notin Stops
  /\ \A c \in Digits : c \in Wholes /\ c \notin {"+", "-"}
  /\ \A c \in {"+", "-"} : c \notin Stops
  /\ \A c \in {"e", "E"} : c \notin {"d", "D", "f", "F", "L", "u"} /\ c \notin Wholes /\ c # "."
  /\ \A c \in {"x", "X", "b", "B", "o", "O"} : c \notin Stops /\ c \notin Wholes
<1>1. Nothing \notin Stops /\ Nothing \notin {"+", "-"} /\ Nothing \notin {"e", "E"}
  BY Zenon DEF Nothing, Stops
<1>2. \A c \in Digits : c \notin Stops /\ c \notin {"+", "-"}
  BY DEF Digits, Stops
<1>3. "_" \notin Stops
  BY DEF Stops
<1>4. \A c \in Digits : c \in Wholes
  BY DEF Wholes, Underscored
<1>5. \A c \in Wholes : c \notin Stops
  BY <1>2, <1>3, Zenon DEF Wholes, Underscored
<1>6. \A c \in {"+", "-"} : c \notin Stops
  BY DEF Stops
<1>7. \A c \in {"e", "E"} : c \notin {"d", "D", "f", "F", "L", "u"} /\ c \in Stops /\ c # "."
  BY DEF Stops
<1>8. \A c \in {"x", "X", "b", "B", "o", "O"} : c \notin Stops /\ c \notin Digits /\ c # "_"
  BY DEF Stops, Digits
<1>9. \A c \in {"x", "X", "b", "B", "o", "O"} : c \notin Wholes
  BY <1>8, Zenon DEF Wholes, Underscored
<1> QED
  BY <1>1, <1>2, <1>4, <1>5, <1>6, <1>7, <1>8, <1>9

\* The suffix taken is the longest there is; other texts have none.
LEMMA SuffixEnds ==
  ASSUME Len(src) \in Nat, NEW p \in Nat, p <= Len(src) + 1
  PROVE  /\ SuffixEnd(p) \in Nat /\ p <= SuffixEnd(p) /\ SuffixEnd(p) <= Len(src) + 1
         /\ IsNumberSuffix(p, SuffixEnd(p))
         /\ \A j \in Nat : IsNumberSuffix(p, j) => j <= SuffixEnd(p)
         /\ At(src, p) \notin {"d", "D", "f", "F", "L", "u"} => \A j \in Nat : IsNumberSuffix(p, j) => j = p
<1> DEFINE a == At(src, p) \in {"d", "D"}
           b == At(src, p) \in {"f", "F"}
           c == At(src, p) = "L"
           d == At(src, p) = "u"
           next == At(src, p + 1) = "L"
           y == SuffixEnd(p)
           n == Len(src)
<1>1. y = CASE a -> p + 1 [] b -> p + 1 [] c -> p + 1 [] d /\ next -> p + 2 [] d /\ ~next -> p + 1 [] OTHER -> p
  BY Zenon DEF SuffixEnd
<1>2. /\ a => ~b /\ ~c /\ ~d
      /\ b => ~a /\ ~c /\ ~d
      /\ c => ~a /\ ~b /\ ~d
  OBVIOUS
<1>3. \A j \in Nat : IsNumberSuffix(p, j) <=> \/ p = j
                                              \/ j = p + 1 /\ (a \/ b \/ c \/ d)
                                              \/ j = p + 2 /\ d /\ next
  BY DEF IsNumberSuffix
<1>4. a \/ b \/ c \/ d => p <= n
  <2>1. a \/ b \/ c \/ d => At(src, p) \in Stops
    BY DEF Stops
  <2>2. At(src, p) \in Stops => At(src, p) # Nothing
    BY StopsDiffer
  <2> QED
    BY <2>1, <2>2, CharactersOf
<1>5. next => p + 1 <= n
  <2>1. "L" \in Stops /\ p + 1 \in Nat
    BY DEF Stops
  <2>2. next => At(src, p + 1) # Nothing
    BY <2>1, StopsDiffer
  <2> QED
    BY <2>1, <2>2, CharactersOf
<1>6. At(src, p) \notin {"d", "D", "f", "F", "L", "u"} => ~a /\ ~b /\ ~c /\ ~d
  OBVIOUS
<1> HIDE DEF a, b, c, d, next, y, n
<1>7. /\ d /\ next => y = p + 2
      /\ (a \/ b \/ c \/ d) /\ ~(d /\ next) => y = p + 1
      /\ ~(a \/ b \/ c \/ d) => y = p
  BY <1>1, <1>2
<1>8. n \in Nat /\ p <= n + 1
  BY DEF n
<1>9. y \in Nat /\ p <= y /\ y <= n + 1
  BY <1>4, <1>5, <1>7, <1>8
<1>10. IsNumberSuffix(p, y)
  BY <1>3, <1>7, <1>9
<1>11. \A j \in Nat : IsNumberSuffix(p, j) => j <= y
  BY <1>3, <1>7, <1>9
<1> QED
  BY <1>3, <1>6, <1>9, <1>10, <1>11 DEF y, n

\* So is the exponent; within it nothing goes on and no suffix begins.
LEMMA ExponentEnds ==
  ASSUME Len(src) \in Nat, NEW p \in Nat, 0 < p, p <= Len(src) + 1
  PROVE  /\ ExponentEnd(p) \in Nat /\ p <= ExponentEnd(p) /\ ExponentEnd(p) <= Len(src) + 1
         /\ At(src, p) \in {"e", "E"} => p < ExponentEnd(p) /\ IsExponent(p, ExponentEnd(p))
         /\ At(src, p) \notin {"e", "E"} => ExponentEnd(p) = p /\ \A k \in Nat : ~IsExponent(p, k)
         /\ \A k \in Nat : IsExponent(p, k) =>
               p < k /\ k <= ExponentEnd(p) /\ (k < ExponentEnd(p) => At(src, k) \notin Stops)
<1> DEFINE n == Len(src)
           x == ExponentEnd(p)
           signed == At(src, p + 1) \in {"+", "-"}
           start == IF signed THEN p + 2 ELSE p + 1
           D == Spots(src, Digits)
           S == Spots(src, {"+", "-"})
<1>1. CASE At(src, p) \notin {"e", "E"}
  BY <1>1 DEF ExponentEnd, IsExponent
<1>2. CASE At(src, p) \in {"e", "E"}
  <2>1. x = Span(src, start, Digits)
    BY <1>2 DEF ExponentEnd
  <2>2. p <= n /\ p + 1 \in Nat /\ p + 2 \in Nat
    <3>1. At(src, p) # Nothing
      BY <1>2, StopsDiffer
    <3> QED
      BY <3>1, CharactersOf
  <2>3. signed => p + 1 <= n
    <3>1. signed => At(src, p + 1) # Nothing
      BY StopsDiffer
    <3> QED
      BY <2>2, <3>1, CharactersOf
  <2>4. signed <=> p + 1 \in S
    BY <2>2 DEF Spots
  <2>5. \A k \in D : k \notin S /\ At(src, k) \notin Stops
    BY StopsDiffer DEF Spots
  <2>6. \A k \in S : At(src, k) \notin Stops
    BY StopsDiffer DEF Spots
  <2>7. \A k \in Nat : IsExponent(p, k) <=>
           p < k /\ (All(p + 1, k, Digits) \/ (p + 1 < k /\ signed /\ All(p + 2, k, Digits)))
    BY <1>2 DEF IsExponent
  <2>8. \A k \in Nat : /\ All(p + 1, k, Digits) <=> p + 1..k - 1 \subseteq D
                       /\ All(p + 2, k, Digits) <=> p + 2..k - 1 \subseteq D
    <3>1. \A k \in Nat : k \in Int
      OBVIOUS
    <3> QED
      BY <2>2, <3>1, AllAreSpots
  <2>9. start \in Nat \ {0} /\ start <= n + 1 /\ (start = p + 1 \/ start = p + 2) /\ (signed <=> start = p + 2)
    <3> HIDE DEF signed
    <3> QED
      BY <2>2, <2>3
  <2> HIDE DEF start
  <2>10. x \in Nat /\ start <= x /\ x <= n + 1
    BY <2>1, <2>9, SpanHolds
  <2>11. start..x - 1 \subseteq D /\ x \notin D
    BY <2>1, <2>9, NothingElse, SpanIsExact
  <2> HIDE DEF x, n, signed, D, S
  <2>12. p < x
    BY <2>9, <2>10
  <2>13. IsExponent(p, x)
    <3>1. CASE signed
      <4>1. p + 1 < x /\ All(p + 2, x, Digits)
        BY <2>8, <2>9, <2>10, <2>11, <3>1
      <4> QED
        BY <2>7, <2>10, <2>12, <3>1, <4>1
    <3>2. CASE ~signed
      <4>1. start = p + 1
        BY <2>9, <3>2
      <4>2. All(p + 1, x, Digits)
        BY <2>8, <2>10, <2>11, <4>1
      <4> QED
        BY <2>7, <2>10, <2>12, <4>2
    <3> QED
      BY <3>1, <3>2
  <2>14. ASSUME NEW k \in Nat, IsExponent(p, k) PROVE p < k /\ k <= x /\ (k < x => k \in D \/ k \in S)
    <3>1. p < k /\ (p + 1..k - 1 \subseteq D \/ (p + 1 < k /\ signed /\ p + 2..k - 1 \subseteq D))
      BY <2>7, <2>8, <2>14
    <3>2. k <= x
      <4> SUFFICES ASSUME x < k PROVE FALSE
        BY <2>10
      <4>1. CASE signed
        <5>1. x \in p + 2..k - 1 /\ x \in p + 1..k - 1
          BY <2>9, <2>10, <4>1
        <5> QED
          BY <2>11, <3>1, <5>1
      <4>2. CASE ~signed
        <5>1. x \in p + 1..k - 1
          BY <2>9, <2>10, <4>2
        <5> QED
          BY <2>11, <3>1, <4>2, <5>1
      <4> QED
        BY <4>1, <4>2
    <3>3. k < x => k \in D \/ k \in S
      <4> SUFFICES ASSUME k < x PROVE k \in D \/ k \in S
        OBVIOUS
      <4>1. CASE start <= k
        <5>1. k \in start..x - 1
          BY <2>9, <2>10, <4>1
        <5> QED
          BY <2>11, <5>1
      <4>2. CASE k < start
        <5>1. k = p + 1 /\ signed
          BY <2>9, <3>1, <4>2
        <5> QED
          BY <2>4, <5>1
      <4> QED
        BY <2>9, <4>1, <4>2
    <3> QED
      BY <3>1, <3>2, <3>3
  <2> QED
    BY <1>2, <2>5, <2>6, <2>10, <2>12, <2>13, <2>14, <2>9 DEF x, n
<1> QED
  BY <1>1, <1>2

\* An exponent and a suffix are taken in full.
LEMMA TailEnds ==
  ASSUME Len(src) \in Nat, NEW p \in Nat, 0 < p, p <= Len(src) + 1, NEW k \in Nat, NEW j \in Nat,
         k = p \/ IsExponent(p, k), IsNumberSuffix(k, j)
  PROVE  j <= SuffixEnd(ExponentEnd(p))
<1> DEFINE x == ExponentEnd(p)
           y == SuffixEnd(x)
           n == Len(src)
<1>1. /\ x \in Nat /\ p <= x /\ x <= n + 1
      /\ At(src, p) \in {"e", "E"} => p < x
      /\ At(src, p) \notin {"e", "E"} => x = p /\ \A m \in Nat : ~IsExponent(p, m)
      /\ IsExponent(p, k) => p < k /\ k <= x /\ (k < x => At(src, k) \notin Stops)
  BY ExponentEnds
<1>2. y \in Nat /\ x <= y /\ \A m \in Nat : IsNumberSuffix(x, m) => m <= y
  <2> HIDE DEF x
  <2> QED
    BY <1>1, SuffixEnds
<1>3. CASE k = x
  BY <1>2, <1>3
<1>4. CASE k # x
  <2>1. k < x /\ k <= n + 1
    <3> HIDE DEF x, n
    <3>1. n \in Nat
      BY DEF n
    <3> QED
      BY <1>1, <1>4, <3>1
  <2>2. At(src, k) \notin {"d", "D", "f", "F", "L", "u"}
    <3>1. CASE k = p
      <4>1. At(src, p) \in {"e", "E"}
        BY <1>1, <1>4, <3>1
      <4> QED
        BY <3>1, <4>1, StopsDiffer
    <3>2. CASE IsExponent(p, k)
      <4>1. At(src, k) \notin Stops
        BY <1>1, <2>1, <3>2
      <4> QED
        BY <4>1 DEF Stops
    <3> QED
      BY <3>1, <3>2
  <2>3. j = k
    BY <2>1, <2>2, SuffixEnds
  <2>4. x \in Nat /\ y \in Nat /\ x <= y
    BY <1>1, <1>2
  <2>5. \A a, b \in Nat : k < a /\ a <= b => k <= b
    OBVIOUS
  <2> HIDE DEF x, y, n
  <2>6. k <= y
    BY <2>1, <2>4, <2>5
  <2> QED
    BY <2>3, <2>6 DEF x, y
<1> QED
  BY <1>3, <1>4

\* Where a number can neither go on nor end in a suffix, it is at its end.
LEMMA NumberStays ==
  ASSUME NEW p \in Nat, NEW e \in Nat, NEW k \in Nat, NEW j \in Nat, At(src, p) \notin Stops,
         IsFraction(p, e, e < k), e = k \/ IsExponent(e, k), IsNumberSuffix(k, j)
  PROVE  j = p
<1>1. "." \in Stops /\ {"e", "E"} \subseteq Stops /\ {"d", "D", "f", "F", "L", "u"} \subseteq Stops
  BY DEF Stops
<1>2. e = p
  BY <1>1 DEF IsFraction
<1>3. k = p
  BY <1>1, <1>2 DEF IsExponent
<1> QED
  BY <1>1, <1>3 DEF IsNumberSuffix

\* As a decimal, 0x goes no further than its zero.
LEMMA LeadingZero ==
  ASSUME NEW i \in Nat, NEW j \in Nat, At(src, i + 1) \in {"x", "X", "b", "B", "o", "O"}, IsDecimal(i, j)
  PROVE  j = i + 1
<1>1. PICK p \in i..j : \E e, k \in i..j :
        /\ IsWhole(i, p) /\ IsFraction(p, e, e < k)
        /\ e = k \/ IsExponent(e, k)
        /\ IsNumberSuffix(k, j)
  BY DEF IsDecimal
<1>2. PICK e \in i..j, k \in i..j :
        /\ IsWhole(i, p) /\ IsFraction(p, e, e < k)
        /\ e = k \/ IsExponent(e, k)
        /\ IsNumberSuffix(k, j)
  BY <1>1
<1>3. At(src, i + 1) \notin Stops /\ At(src, i + 1) \notin Wholes
  BY StopsDiffer
<1>4. i < p /\ All(i, p, Wholes)
  BY <1>2 DEF IsWhole, Wholes, Underscored
<1>5. p = i + 1
  <2> SUFFICES ASSUME p # i + 1 PROVE FALSE
    OBVIOUS
  <2>1. i + 1 \in i..p - 1
    BY <1>4
  <2>2. At(src, i + 1) \in Wholes
    BY <1>4, <2>1 DEF All
  <2> QED
    BY <1>3, <2>2
<1>6. p \in Nat /\ e \in Nat /\ k \in Nat
  OBVIOUS
<1>7. At(src, p) \notin Stops
  BY <1>3, <1>5
<1>8. j = p
  BY <1>2, <1>6, <1>7, NumberStays
<1> QED
  BY <1>5, <1>8

\* lex_number without a prefix: whatever whole part, fraction, exponent and
\* suffix a text is cut into, it is no longer than what was read.
LEMMA DecimalIsLongest ==
  ASSUME Len(src) \in Nat, NEW i \in Nat \ {0}, i <= Len(src), At(src, i) \in Digits,
         At(src, i) = "0" => At(src, i + 1) \notin {"x", "X", "b", "B", "o", "O"}
  PROVE  Longest(i, lex_decimal(src, i).to)
<1> DEFINE n == Len(src)
           W == Spots(src, Wholes)
           whole == Span(src, i, Digits \cup {"_"})
           fraction == HasFraction(src, whole)
           point == IF fraction THEN Span(src, whole + 1, Digits \cup {"_"}) ELSE whole
           x == ExponentEnd(point)
           y == SuffixEnd(x)
<1>1. lex_decimal(src, i).to = y
  <2> DEFINE exponent == At(src, point) \in {"e", "E"}
             sign == IF At(src, point + 1) \in {"+", "-"} THEN point + 2 ELSE point + 1
             j == IF exponent THEN Span(src, sign, Digits) ELSE point
             wholeSize == Kept(src, 0, i, whole)
             size == (IF fraction THEN Kept(src, wholeSize + 1, whole + 1, point) ELSE wholeSize) + (j - point)
             suffix == At(src, j)
             a == suffix \in {"d", "D"}
             b == suffix \in {"f", "F"}
             c == suffix = "L"
             d == suffix = "u" /\ At(src, j + 1) = "L"
             f == suffix = "u" /\ At(src, j + 1) # "L"
             kind == IF fraction \/ exponent THEN "float_lit" ELSE "int_lit"
  <2>1. lex_decimal(src, i) =
          CASE a -> Token("double_lit", j + 1, size)
            [] b -> Token("float_lit", j + 1, size)
            [] c -> Token("long_lit", j + 1, size)
            [] d -> Token("long_lit", j + 2, size)
            [] f -> Token("int_lit", j + 1, size)
            [] OTHER -> Token(kind, j, size)
    BY DEF lex_decimal
  <2>2. j = x
    BY DEF ExponentEnd
  <2>3. y = CASE a -> j + 1 [] b -> j + 1 [] c -> j + 1 [] d -> j + 2 [] f -> j + 1 [] OTHER -> j
    BY <2>2, Zenon DEF SuffixEnd
  <2>4. /\ a => ~b /\ ~c /\ ~d /\ ~f
        /\ b => ~a /\ ~c /\ ~d /\ ~f
        /\ c => ~a /\ ~b /\ ~d /\ ~f
        /\ d => ~a /\ ~b /\ ~c /\ ~f
        /\ f => ~a /\ ~b /\ ~c /\ ~d
    OBVIOUS
  <2> HIDE DEF a, b, c, d, f, size, j, kind, y
  <2> QED
    BY <2>1, <2>3, <2>4, TokenFields
<1>2. i \in Nat /\ i <= n + 1
  OBVIOUS
<1>3. Digits \cup {"_"} = Wholes
  BY DEF Wholes, Underscored
<1>4. At(src, i) \in Wholes /\ At(src, i) # "."
  BY StopsDiffer DEF Stops
<1>5. /\ whole = Span(src, i, Wholes)
      /\ point = IF fraction THEN Span(src, whole + 1, Wholes) ELSE whole
  BY <1>3
<1> HIDE DEF whole
<1>6. whole \in Nat \ {0} /\ i < whole /\ whole <= n + 1
  BY <1>2, <1>4, <1>5, SpanHolds
<1>7. i..whole - 1 \subseteq W /\ whole \notin W
  BY <1>2, <1>5, NothingElse, SpanIsExact
<1>8. fraction => whole <= n
  <2>1. fraction => At(src, whole) \in Stops
    BY DEF HasFraction, Stops
  <2>2. fraction => At(src, whole) # Nothing
    BY <2>1, StopsDiffer
  <2>3. whole \in Nat
    BY <1>6
  <2> QED
    BY <2>2, <2>3, CharactersOf
<1>9. ~fraction => point = whole
  BY <1>5
<1>10. fraction => /\ point \in Nat /\ whole + 1 <= point /\ point <= n + 1
                   /\ whole + 1..point - 1 \subseteq W /\ point \notin W
  <2> SUFFICES ASSUME fraction
      PROVE  /\ point \in Nat /\ whole + 1 <= point /\ point <= n + 1
             /\ whole + 1..point - 1 \subseteq W /\ point \notin W
    OBVIOUS
  <2>1. point = Span(src, whole + 1, Wholes)
    BY <1>5
  <2>2. whole + 1 \in Nat \ {0} /\ whole + 1 <= n + 1
    <3> HIDE DEF n, fraction
    <3>1. n \in Nat
      BY DEF n
    <3> QED
      BY <1>6, <1>8, <3>1
  <2> HIDE DEF point
  <2>3. /\ point \in Nat /\ whole + 1 <= point /\ point <= n + 1
    BY <2>1, <2>2, SpanHolds
  <2>4. whole + 1..point - 1 \subseteq W /\ point \notin W
    BY <2>1, <2>2, NothingElse, SpanIsExact
  <2> QED
    BY <2>3, <2>4
<1> HIDE DEF fraction, point
<1>11. n \in Nat /\ point \in Nat /\ 0 < point /\ whole <= point /\ point <= n + 1
  <2> HIDE DEF n
  <2>1. n \in Nat
    BY DEF n
  <2> QED
    BY <1>6, <1>9, <1>10, <2>1
<1>12. /\ x \in Nat /\ point <= x /\ x <= n + 1
       /\ At(src, point) \in {"e", "E"} => point < x
       /\ x = point \/ IsExponent(point, x)
  BY <1>11, ExponentEnds
<1> HIDE DEF x
<1>13. y \in Nat /\ x <= y /\ y <= n + 1 /\ IsNumberSuffix(x, y)
  BY <1>12, SuffixEnds
<1>14. ASSUME NEW k \in Nat, NEW j \in Nat, k = point \/ IsExponent(point, k), IsNumberSuffix(k, j)
       PROVE  j <= y
  <2>1. j <= SuffixEnd(ExponentEnd(point))
    BY <1>11, <1>14, TailEnds
  <2> QED
    BY <2>1 DEF x
<1> HIDE DEF y
<1>15. fraction <=> At(src, whole) = "." /\ (At(src, whole + 1) \in Digits \/ At(src, whole + 1) \in {"e", "E"})
  BY DEF fraction, HasFraction
<1>16. ASSUME NEW a \in Nat, NEW b \in Nat
       PROVE  IsWhole(a, b) <=> a < b /\ At(src, a) \in Digits /\ a..b - 1 \subseteq W
  <2>1. IsWhole(a, b) <=> a < b /\ At(src, a) \in Digits /\ All(a, b, Wholes)
    BY <1>3 DEF IsWhole
  <2>2. b \in Int
    OBVIOUS
  <2> QED
    BY <2>1, <2>2, AllAreSpots
<1>17. \A m \in Nat : m \in W <=> At(src, m) \in Wholes
  BY DEF Spots
<1>18. IsFraction(whole, point, point < x)
  <2>1. CASE ~fraction
    BY <1>9, <2>1 DEF IsFraction
  <2>2. CASE fraction /\ At(src, whole + 1) \in Digits
    <3>1. whole + 1 \in W
      BY <1>6, <1>17, <2>2, StopsDiffer
    <3>2. whole + 1 < point
      BY <1>6, <1>10, <2>2, <3>1
    <3>3. IsWhole(whole + 1, point)
      <4>1. whole + 1 \in Nat /\ point \in Nat /\ whole + 1..point - 1 \subseteq W
        BY <1>6, <1>10, <2>2
      <4> QED
        BY <1>16, <2>2, <3>2, <4>1
    <3> QED
      BY <1>15, <2>2, <3>3 DEF IsFraction
  <2>3. CASE fraction /\ At(src, whole + 1) \in {"e", "E"}
    <3>1. whole + 1 \notin W
      BY <1>6, <1>17, <2>3, StopsDiffer
    <3>2. point = whole + 1
      <4> SUFFICES ASSUME point # whole + 1 PROVE FALSE
        OBVIOUS
      <4>1. whole + 1 \in whole + 1..point - 1
        BY <1>6, <1>10, <2>3
      <4> QED
        BY <1>10, <2>3, <3>1, <4>1
    <3>3. point < x
      BY <1>12, <2>3, <3>2
    <3> QED
      BY <1>15, <2>3, <3>2, <3>3 DEF IsFraction
  <2> QED
    BY <1>15, <2>1, <2>2, <2>3
<1>19. Lexeme(i, y)
  <2>1. IsWhole(i, whole)
    BY <1>2, <1>6, <1>7, <1>16
  <2>2. whole \in i..y /\ point \in i..y /\ x \in i..y /\ whole <= point /\ point <= x
    BY <1>2, <1>6, <1>11, <1>12, <1>13
  <2>3. point = x \/ IsExponent(point, x)
    BY <1>12
  <2>4. IsDecimal(i, y)
    BY <1>13, <1>18, <2>1, <2>2, <2>3, Zenon DEF IsDecimal
  <2> QED
    BY <2>4 DEF Lexeme, IsNumber
<1>20. ASSUME NEW j \in Nat, IsDecimal(i, j) PROVE j <= y
  <2>1. PICK p \in i..j, e \in i..j, k \in i..j :
          /\ IsWhole(i, p) /\ IsFraction(p, e, e < k)
          /\ e = k \/ IsExponent(e, k)
          /\ IsNumberSuffix(k, j)
    BY <1>20 DEF IsDecimal
  <2>2. p \in Nat /\ e \in Nat /\ k \in Nat
    BY <1>2
  <2>3. i < p /\ i..p - 1 \subseteq W
    BY <1>2, <1>16, <2>1, <2>2
  <2>4. p <= whole
    <3> SUFFICES ASSUME whole < p PROVE FALSE
      BY <1>6, <2>2
    <3>1. whole \in i..p - 1
      BY <1>2, <1>6, <2>2
    <3> QED
      BY <1>7, <2>3, <3>1
  <2>5. whole <= y
    BY <1>6, <1>11, <1>12, <1>13
  <2>6. CASE p < whole
    <3>1. p \in i..whole - 1
      BY <1>2, <1>6, <2>2, <2>3, <2>6
    <3>2. At(src, p) \notin Stops
      BY <1>7, <1>17, <2>2, <3>1, StopsDiffer
    <3>3. j = p
      BY <2>1, <2>2, <3>2, NumberStays
    <3> QED
      BY <1>6, <1>13, <2>2, <2>4, <2>5, <3>3
  <2>7. CASE p = whole /\ e = whole
    <3>1. CASE ~fraction
      BY <1>9, <1>14, <2>1, <2>2, <2>7, <3>1
    <3>2. CASE fraction
      <4>1. "." \notin {"e", "E"} /\ "." \notin {"d", "D", "f", "F", "L", "u"}
        OBVIOUS
      <4>2. k = whole
        BY <1>15, <2>1, <2>7, <3>2, <4>1 DEF IsExponent
      <4>3. j = whole
        BY <1>15, <2>1, <3>2, <4>1, <4>2 DEF IsNumberSuffix
      <4> QED
        BY <2>5, <4>3
    <3> QED
      BY <3>1, <3>2
  <2>8. CASE p = whole /\ At(src, whole) = "." /\ e = whole + 1 /\ e < k
    <3>1. IsExponent(whole + 1, k)
      BY <2>1, <2>2, <2>8
    <3>2. At(src, whole + 1) \in {"e", "E"}
      BY <3>1 DEF IsExponent
    <3>3. fraction
      BY <1>15, <2>8, <3>2
    <3>4. whole + 1 \notin W
      BY <1>6, <1>17, <3>2, StopsDiffer
    <3>5. point = whole + 1
      <4> SUFFICES ASSUME point # whole + 1 PROVE FALSE
        OBVIOUS
      <4>1. whole + 1 \in whole + 1..point - 1
        BY <1>6, <1>10, <3>3
      <4> QED
        BY <1>10, <3>3, <3>4, <4>1
    <3> QED
      BY <1>14, <2>1, <2>2, <3>1, <3>5
  <2>9. CASE p = whole /\ At(src, whole) = "." /\ IsWhole(whole + 1, e)
    <3>1. whole + 1 \in Nat
      BY <1>6
    <3>2. whole + 1 < e /\ At(src, whole + 1) \in Digits /\ whole + 1..e - 1 \subseteq W
      BY <1>16, <2>2, <2>9, <3>1
    <3>3. fraction
      BY <1>15, <2>9, <3>2
    <3>4. e <= point
      <4> SUFFICES ASSUME point < e PROVE FALSE
        BY <1>11, <2>2
      <4>1. point \in whole + 1..e - 1
        BY <1>6, <1>10, <2>2, <3>3
      <4> QED
        BY <1>10, <3>2, <3>3, <4>1
    <3>5. CASE e = point
      BY <1>14, <2>1, <2>2, <3>5
    <3>6. CASE e < point
      <4>1. e \in whole + 1..point - 1
        BY <1>6, <1>11, <2>2, <3>2, <3>6
      <4>2. At(src, e) \notin Stops
        BY <1>10, <1>17, <2>2, <3>3, <4>1, StopsDiffer
      <4>3. IsFraction(e, e, e < k)
        BY DEF IsFraction
      <4>4. j = e
        BY <2>1, <2>2, <4>2, <4>3, NumberStays
      <4> QED
        BY <1>11, <1>12, <1>13, <2>2, <3>4, <4>4
    <3> QED
      BY <1>11, <2>2, <3>4, <3>5, <3>6
  <2>10. \/ p = e
         \/ At(src, p) = "." /\ e = p + 1 /\ e < k
         \/ At(src, p) = "." /\ IsWhole(p + 1, e)
    BY <2>1 DEF IsFraction
  <2> QED
    BY <1>6, <2>2, <2>4, <2>6, <2>7, <2>8, <2>9, <2>10
<1>21. ASSUME NEW j \in Nat, NEW letters, NEW chars, letters \subseteq {"x", "X", "b", "B", "o", "O"}
       PROVE  ~IsRadix(i, j, letters, chars)
  BY <1>21 DEF IsRadix
<1>22. ASSUME NEW j \in Nat, y < j PROVE ~Lexeme(i, j)
  <2>1. i + 1 < j
    BY <1>2, <1>6, <1>11, <1>12, <1>13, <1>22
  <2>2. Lexeme(i, j) => IsNumber(i, j)
    BY <1>2, <2>1, FirstOfLexeme, FirstsDiffer DEF Raw
  <2>3. ~IsDecimal(i, j)
    BY <1>13, <1>20, <1>22
  <2>4. {"x", "X"} \subseteq {"x", "X", "b", "B", "o", "O"} /\ {"b", "B"} \subseteq {"x", "X", "b", "B", "o", "O"}
        /\ {"o", "O"} \subseteq {"x", "X", "b", "B", "o", "O"}
    OBVIOUS
  <2>5. j - 1 \in Nat
    BY <2>1
  <2>6. ~IsNumber(i, j)
    BY <1>21, <2>3, <2>4, <2>5, Zenon DEF IsNumber
  <2> QED
    BY <2>2, <2>6
<1>23. ~IsOpenString(i)
  BY <1>2, FirstOfOpen, FirstsDiffer DEF Raw
<1>24. i < y
  BY <1>2, <1>6, <1>11, <1>12, <1>13
<1>25. Longest(i, y)
  BY <1>2, <1>13, <1>19, <1>22, <1>23, <1>24, IsLongest DEF n
<1> QED
  BY <1>1, <1>25

\* 0x, 0b and 0o.
LEMMA RadixIsLongest ==
  ASSUME Len(src) \in Nat, NEW i \in Nat \ {0}, i <= Len(src), At(src, i) = "0",
         NEW letters, letters \subseteq {"x", "X", "b", "B", "o", "O"}, At(src, i + 1) \in letters,
         NEW chars, Nothing \notin Underscored(chars), NEW long \in BOOLEAN,
         \A j \in Nat : IsNumber(i, j) <=>
             \/ IsDecimal(i, j)
             \/ IsRadix(i, j, letters, chars)
             \/ (long /\ At(src, j - 1) = "L" /\ IsRadix(i, j - 1, letters, chars))
  PROVE  Longest(i, lex_radix(src, i, chars, long).to)
<1> DEFINE n == Len(src)
           e == Span(src, i + 2, chars \cup {"_"})
           more == long /\ At(src, e) = "L"
           y == IF more THEN e + 1 ELSE e
           G == Spots(src, Underscored(chars))
<1>1. lex_radix(src, i, chars, long).to = y
  BY DEF lex_radix, Token
<1>2. i \in Nat /\ i + 1 \in Nat /\ i + 2 \in Nat \ {0}
  OBVIOUS
<1>3. n \in Nat /\ i + 1 <= n /\ i + 2 <= n + 1
  <2>1. At(src, i + 1) # Nothing
    BY Zenon DEF Nothing
  <2>2. i + 1 <= n
    BY <1>2, <2>1, CharactersOf
  <2>3. n \in Nat
    OBVIOUS
  <2> HIDE DEF n
  <2> QED
    BY <1>2, <2>2, <2>3
<1>4. e = Span(src, i + 2, Underscored(chars))
  BY DEF Underscored
<1> HIDE DEF e
<1>5. e \in Nat /\ i + 2 <= e /\ e <= n + 1
  BY <1>2, <1>3, <1>4, SpanHolds
<1>6. i + 2..e - 1 \subseteq G /\ e \notin G
  BY <1>2, <1>3, <1>4, SpanIsExact
<1>7. more => e <= n
  <2>1. more => At(src, e) \in Stops
    BY DEF Stops
  <2>2. more => At(src, e) # Nothing
    BY <2>1, StopsDiffer
  <2> QED
    BY <1>5, <2>2, CharactersOf
<1>8. ASSUME NEW j \in Int
      PROVE  IsRadix(i, j, letters, chars) <=> i + 2 <= j /\ i + 2..j - 1 \subseteq G
  <2>1. IsRadix(i, j, letters, chars) <=> i + 2 <= j /\ All(i + 2, j, Underscored(chars))
    BY DEF IsRadix, Underscored
  <2>2. i + 2 \in Nat
    BY <1>2
  <2> QED
    BY <2>1, <2>2, AllAreSpots
<1>9. IsRadix(i, e, letters, chars)
  BY <1>5, <1>6, <1>8
<1>10. ASSUME NEW j \in Int, IsRadix(i, j, letters, chars) PROVE j <= e
  <2> SUFFICES ASSUME e < j PROVE FALSE
    BY <1>5
  <2>1. e \in i + 2..j - 1
    BY <1>2, <1>5
  <2> QED
    BY <1>6, <1>8, <1>10, <2>1
<1> HIDE DEF n, G
<1>11. /\ more => y = e + 1 /\ long /\ At(src, e) = "L"
       /\ ~more => y = e
  OBVIOUS
<1>12. long /\ At(src, e) = "L" => more
  OBVIOUS
<1> HIDE DEF more, y
<1>13. y \in Nat /\ i + 2 <= y /\ y <= n + 1 /\ e <= y
  BY <1>3, <1>5, <1>7, <1>11
<1>14. IsNumber(i, y)
  <2>1. CASE more
    <3>1. y - 1 = e
      BY <1>5, <1>11, <2>1
    <3> QED
      BY <1>9, <1>11, <1>13, <2>1, <3>1
  <2>2. CASE ~more
    BY <1>9, <1>11, <1>13, <2>2
  <2> QED
    BY <2>1, <2>2
<1>15. ASSUME NEW j \in Nat, y < j PROVE ~Lexeme(i, j)
  <2>1. i + 1 < j /\ i + 1 # j /\ j - 1 \in Int
    BY <1>2, <1>13, <1>15
  <2>2. At(src, i) \in Digits
    BY DEF Digits
  <2>3. Lexeme(i, j) => IsNumber(i, j)
    BY <1>2, <2>1, <2>2, FirstOfLexeme, FirstsDiffer DEF Raw
  <2>4. ~IsDecimal(i, j)
    BY <1>2, <2>1, LeadingZero
  <2>5. ~IsRadix(i, j, letters, chars)
    BY <1>5, <1>10, <1>13, <1>15
  <2>6. ASSUME long, At(src, j - 1) = "L", IsRadix(i, j - 1, letters, chars) PROVE FALSE
    <3>1. j - 1 <= e
      BY <1>10, <2>1, <2>6
    <3>2. j - 1 = e
      BY <1>5, <1>13, <1>15, <3>1
    <3>3. more
      BY <1>12, <2>6, <3>2
    <3> QED
      BY <1>5, <1>11, <1>15, <3>2, <3>3
  <2> QED
    BY <2>3, <2>4, <2>5, <2>6
<1>16. ~IsOpenString(i)
  <2>1. At(src, i) \in Digits
    BY DEF Digits
  <2> QED
    BY <1>2, <2>1, FirstOfOpen, FirstsDiffer DEF Raw
<1>17. i < y
  BY <1>2, <1>13
<1>18. Longest(i, y)
  BY <1>2, <1>13, <1>14, <1>15, <1>16, <1>17, IsLongest DEF Lexeme, n
<1> QED
  BY <1>1, <1>18

\* lex_number.
LEMMA NumberIsLongest ==
  ASSUME Len(src) \in Nat, NEW i \in Nat \ {0}, i <= Len(src), At(src, i) \in Digits
  PROVE  Longest(i, lex_number(src, i).to)
<1> DEFINE zero == At(src, i) = "0"
           c == At(src, i + 1)
           x == zero /\ c \in {"x", "X"}
           b == zero /\ c \in {"b", "B"}
           o == zero /\ c \in {"o", "O"}
<1>1. lex_number(src, i) =
        CASE x -> lex_radix(src, i, HexDigits, TRUE)
          [] b -> lex_radix(src, i, {"0", "1"}, FALSE)
          [] o -> lex_radix(src, i, Digits \ {"8", "9"}, FALSE)
          [] OTHER -> lex_decimal(src, i)
  BY DEF lex_number
<1>2. /\ x => ~b /\ ~o
      /\ b => ~x /\ ~o
      /\ o => ~x /\ ~b
  OBVIOUS
<1>3. \A k, letters, chars : IsRadix(i, k, letters, chars) => zero /\ c \in letters
  BY DEF IsRadix
<1>9. \A k : /\ IsRadix(i, k, {"x", "X"}, HexDigits) => x
             /\ IsRadix(i, k, {"b", "B"}, {"0", "1"}) => b
             /\ IsRadix(i, k, {"o", "O"}, Digits \ {"8", "9"}) => o
  BY <1>3
<1>4. ASSUME NEW j \in Nat
      PROVE  IsNumber(i, j) <=> \/ IsDecimal(i, j)
                               \/ IsRadix(i, j, {"x", "X"}, HexDigits)
                               \/ (At(src, j - 1) = "L" /\ IsRadix(i, j - 1, {"x", "X"}, HexDigits))
                               \/ IsRadix(i, j, {"b", "B"}, {"0", "1"})
                               \/ IsRadix(i, j, {"o", "O"}, Digits \ {"8", "9"})
  BY Zenon DEF IsNumber
<1>5. CASE x
  <2>1. lex_number(src, i) = lex_radix(src, i, HexDigits, TRUE)
    <3> HIDE DEF x, b, o
    <3> QED
      BY <1>1, <1>2, <1>5
  <2>2. \A j \in Nat : IsNumber(i, j) <=>
             \/ IsDecimal(i, j)
             \/ IsRadix(i, j, {"x", "X"}, HexDigits)
             \/ (TRUE /\ At(src, j - 1) = "L" /\ IsRadix(i, j - 1, {"x", "X"}, HexDigits))
    <3>1. ~b /\ ~o
      BY <1>2, <1>5
    <3> HIDE DEF x, b, o
    <3> QED
      BY <1>9, <1>4, <3>1
  <2>3. {"x", "X"} \subseteq {"x", "X", "b", "B", "o", "O"}
    OBVIOUS
  <2> QED
    BY <1>5, <2>1, <2>2, <2>3, NothingElse, RadixIsLongest
<1>6. CASE b
  <2>1. lex_number(src, i) = lex_radix(src, i, {"0", "1"}, FALSE)
    <3> HIDE DEF x, b, o
    <3> QED
      BY <1>1, <1>2, <1>6
  <2>2. \A j \in Nat : IsNumber(i, j) <=>
             \/ IsDecimal(i, j)
             \/ IsRadix(i, j, {"b", "B"}, {"0", "1"})
             \/ (FALSE /\ At(src, j - 1) = "L" /\ IsRadix(i, j - 1, {"b", "B"}, {"0", "1"}))
    <3>1. ~x /\ ~o
      BY <1>2, <1>6
    <3> HIDE DEF x, b, o
    <3> QED
      BY <1>9, <1>4, <3>1
  <2>3. {"b", "B"} \subseteq {"x", "X", "b", "B", "o", "O"}
    OBVIOUS
  <2> QED
    BY <1>6, <2>1, <2>2, <2>3, NothingElse, RadixIsLongest
<1>7. CASE o
  <2>1. lex_number(src, i) = lex_radix(src, i, Digits \ {"8", "9"}, FALSE)
    <3> HIDE DEF x, b, o
    <3> QED
      BY <1>1, <1>2, <1>7
  <2>2. \A j \in Nat : IsNumber(i, j) <=>
             \/ IsDecimal(i, j)
             \/ IsRadix(i, j, {"o", "O"}, Digits \ {"8", "9"})
             \/ (FALSE /\ At(src, j - 1) = "L" /\ IsRadix(i, j - 1, {"o", "O"}, Digits \ {"8", "9"}))
    <3>1. ~x /\ ~b
      BY <1>2, <1>7
    <3> HIDE DEF x, b, o
    <3> QED
      BY <1>9, <1>4, <3>1
  <2>3. {"o", "O"} \subseteq {"x", "X", "b", "B", "o", "O"}
    OBVIOUS
  <2> QED
    BY <1>7, <2>1, <2>2, <2>3, NothingElse, RadixIsLongest
<1>8. CASE ~x /\ ~b /\ ~o
  <2>1. lex_number(src, i) = lex_decimal(src, i)
    <3> HIDE DEF x, b, o
    <3> QED
      BY <1>1, <1>8
  <2>2. zero => c \notin {"x", "X", "b", "B", "o", "O"}
    BY <1>8
  <2> QED
    BY <2>1, <2>2, DecimalIsLongest
<1> QED
  BY <1>5, <1>6, <1>7, <1>8

(***************************************************************************)
(* Strings and characters                                                  *)
(***************************************************************************)
\* A string nobody closed is as long as the text.
LEMMA OpenIsLongest ==
  ASSUME Len(src) \in Nat, NEW i, IsOpenString(i)
  PROVE  Longest(i, Len(src) + 1)
<1>1. Least2(Len(src) + 1, Len(src) + 1) = Len(src) + 1
  BY DEF Least2
<1> DEFINE n == Len(src)
<1>2. n \in Nat
  OBVIOUS
<1> HIDE DEF n
<1>3. \A j \in n + 1 + 1..n + 1 : ~Lexeme(i, j)
  BY <1>2
<1>4. ~(n + 1 <= n)
  BY <1>2
<1> QED
  BY <1>1, <1>3, <1>4 DEF Longest, n

\* lex_raw_string.
LEMMA RawIsLongest ==
  ASSUME Len(src) \in Nat, NEW i \in Nat \ {0}, i <= Len(src), OpensRaw(src, i)
  PROVE  Longest(i, lex_raw_string(src, i).to)
<1> DEFINE n == Len(src)
           S == {k \in (i + 2)..Len(src) : At(src, k) = "\""}
           e == Least(src, S)
           y == IF e <= n THEN e + 1 ELSE e
           G == Spots(src, {Mark})
<1>1. lex_raw_string(src, i).to = y
  <2> DEFINE size == Least2(e - (i + 2), StrLimit)
  <2>1. lex_raw_string(src, i) = Token("string_lit", y, size)
    BY Zenon DEF lex_raw_string
  <2> HIDE DEF e, size
  <2> QED
    BY <2>1, TokenFields
<1>2. Raw(i) /\ At(src, i) \in {"r", "R"} /\ At(src, i + 1) = Mark
  BY Zenon DEF Raw, OpensRaw, Mark
<1>3. n \in Nat /\ i \in Nat /\ i <= n /\ i + 1 \in Nat /\ i + 2 \in Nat
  OBVIOUS
<1>4. i + 1 <= n
  <2>1. At(src, i + 1) # Nothing
    BY <1>2, NothingElse, Zenon DEF Mark, Nothing
  <2> QED
    BY <1>3, <2>1, CharactersOf
<1>5. S = {k \in i + 2..n : k \in G}
  <2>1. S = {k \in i + 2..n : At(src, k) = Mark}
    BY Zenon DEF Mark
  <2>2. \A k \in i + 2..n : At(src, k) = Mark <=> k \in G
    BY <1>3 DEF Spots
  <2> QED
    BY <2>1, <2>2
<1>6. ASSUME NEW j \in Nat PROVE RawEnds(i, j) = {k \in i + 2..j - 1 : k \in G}
  <2>1. RawEnds(i, j) = {k \in i + 2..j - 1 : At(src, k) = Mark}
    BY Zenon DEF RawEnds, Mark
  <2>2. \A k \in i + 2..j - 1 : At(src, k) = Mark <=> k \in G
    BY <1>3 DEF Spots
  <2> QED
    BY <2>1, <2>2
<1>7. \A q \in {1, 3} : ~Quoted(i, q)
  BY <1>2, <1>3, FirstOfQuoted, FirstsDiffer
<1> HIDE DEF n, S, G
<1>8. S \subseteq Nat
  BY <1>3, <1>5
<1>9. /\ S = {} => e = n + 1
      /\ S # {} => e \in S /\ \A k \in S : e <= k
  BY <1>8, LeastHolds DEF n
<1> HIDE DEF e
<1>10. CASE S = {}
  <2>1. y = n + 1
    BY <1>3, <1>9, <1>10
  <2>2. RawEnds(i, n + 1) = {}
    BY <1>3, <1>5, <1>6, <1>10
  <2>3. IsOpenString(i)
    BY <1>2, <2>2 DEF IsOpenString, n
  <2>4. Longest(i, n + 1)
    BY <2>3, OpenIsLongest DEF n
  <2> QED
    BY <1>1, <2>1, <2>4
<1>11. CASE S # {}
  <2>1. e \in Nat /\ i + 2 <= e /\ e <= n /\ e \in G /\ \A k \in S : e <= k
    BY <1>3, <1>5, <1>9, <1>11
  <2>2. y = e + 1 /\ y \in Nat /\ i < y /\ y <= n + 1
    BY <1>3, <2>1
  <2> HIDE DEF y
  <2>3. RawEnds(i, y) = {y - 1}
    <3>1. \A k \in i + 2..y - 1 : k \in S <=> k \in G
      BY <1>3, <1>5, <2>1, <2>2
    <3>2. y - 1 = e /\ e \in i + 2..y - 1 /\ \A k \in i + 2..y - 1 : e <= k => k = e
      BY <1>3, <2>1, <2>2
    <3> QED
      BY <1>6, <2>1, <2>2, <3>1, <3>2
  <2>4. Lexeme(i, y)
    BY <1>2, <2>3 DEF Lexeme, IsString
  <2>5. ~IsOpenString(i)
    <3>1. e \in RawEnds(i, n + 1)
      BY <1>3, <1>6, <2>1
    <3> QED
      BY <1>7, <3>1 DEF IsOpenString, n
  <2>6. ASSUME NEW j \in Nat, y < j PROVE ~Lexeme(i, j)
    <3>1. i + 1 < j /\ i + 1 \in i..j - 1
      BY <1>3, <2>2, <2>6
    <3>2. ~IsWord(i, j)
      <4>1. Mark \notin WordChars
        BY Zenon DEF WordChars, Letters, HexLetters, Digits, Mark
      <4> QED
        BY <1>2, <3>1, <4>1 DEF IsWord, All
    <3>3. At(src, i) \notin Ones /\ At(src, i) \notin Digits /\ At(src, i) # "'"
      BY <1>2, FirstsDiffer
    <3>4. ~IsString(i, j)
      <4>1. e \in RawEnds(i, j)
        BY <1>3, <1>6, <2>1, <2>2, <2>6
      <4>2. e # j - 1
        BY <2>1, <2>2, <2>6
      <4> QED
        BY <1>7, <4>1, <4>2 DEF IsString
    <3> QED
      BY <1>3, <3>1, <3>2, <3>3, <3>4, FirstOfLexeme
  <2>7. Longest(i, y)
    BY <1>3, <2>2, <2>4, <2>5, <2>6, IsLongest DEF n
  <2> QED
    BY <1>1, <2>7
<1> QED
  BY <1>10, <1>11

Slash == "\\"

\* An escape but \u and \U takes all it can, and of what follows its letter
\* only digits.
LEMMA EscapeEnds ==
  ASSUME Len(src) \in Nat, NEW i \in Nat \ {0}, i <= Len(src), At(src, i) = Slash,
         At(src, i + 1) \notin {"u", "U"}
  PROVE  LET e == lex_escape(src, i + 1).to
         IN  /\ e \in Nat /\ i < e /\ e <= Len(src) + 1
             /\ i + 1 > Len(src) => e = i + 1
             /\ i + 1 <= Len(src) => i + 2 <= e /\ IsEscape(i, e)
             /\ \A j \in Nat : j <= Len(src) + 1 /\ IsEscape(i, j) => j <= e
             /\ \A k \in i + 2..e - 1 : At(src, k) \in HexDigits
<1> DEFINE m == i + 1
           n == Len(src)
           c == At(src, m)
           e == lex_escape(src, m).to
           hex == Span(src, m + 1, HexDigits)
           H == Spots(src, HexDigits)
<1>1. m \in Nat \ {0} /\ n \in Nat /\ i \in Nat /\ i <= n /\ m + 1 = i + 2 /\ m = i + 1 /\ m + 3 = i + 4
  OBVIOUS
<1>2. \A j \in Nat : IsEscape(i, j) <=> (j = i + 2 \/ (c = "x" /\ j \in i + 2..i + 4 /\ All(i + 2, j, HexDigits)))
  BY Zenon DEF IsEscape, Slash
<1>3. e = IF m > n THEN m ELSE IF c = "x" THEN Least2(hex, m + 3) ELSE m + 1
  <2> DEFINE upto(k) == Least2(m + 1 + k, Len(src) + 1)
             brace == Span(src, m + 2, HexDigits)
             first == IF brace > m + 10 THEN brace - 8 ELSE m + 2
             u == c = "u" /\ At(src, m + 1) = "{"
             v == c = "u" /\ At(src, m + 1) # "{"
             w == c = "U"
             p == c \in Plain
             q == c = "x"
             r == c = "\n"
             A == [to |-> m + 1, size |-> 1]
             B == [to |-> Least2(hex, m + 3), size |-> 1]
             C == [to |-> IF At(src, brace) = "}" THEN brace + 1 ELSE brace,
                   size |-> encode_utf8(CodePoint(src, first, brace))]
             D == [to |-> upto(4), size |-> encode_utf8(CodePoint(src, m + 1, upto(4)))]
             E == [to |-> upto(8), size |-> encode_utf8(CodePoint(src, m + 1, upto(8)))]
             F == [to |-> m + 1, size |-> 0]
             G == [to |-> m + 1, size |-> 2]
             Z == [to |-> m, size |-> 0]
  <2>1. lex_escape(src, m) =
          IF m > n THEN Z ELSE CASE p -> A [] q -> B [] u -> C [] v -> D [] w -> E [] r -> F [] OTHER -> G
    BY Zenon DEF lex_escape
  <2>2. ~u /\ ~v /\ ~w
    OBVIOUS
  <2>3. q => ~p /\ ~r
    <3>1. "x" \notin Plain
      BY Zenon DEF Plain
    <3>2. "x" # "\n"
      OBVIOUS
    <3> HIDE DEF c
    <3> QED
      BY <3>1, <3>2
  <2>4. p => ~q
    BY <2>3
  <2>5. Z.to = m /\ A.to = m + 1 /\ B.to = Least2(hex, m + 3) /\ F.to = m + 1 /\ G.to = m + 1
    <3> HIDE DEF hex
    <3> QED
      OBVIOUS
  <2> HIDE DEF u, v, w, p, q, r, A, B, C, D, E, F, G, Z, n, hex
  <2>6. CASE m > n
    BY <2>1, <2>5, <2>6
  <2>7. CASE ~(m > n) /\ q
    <3>1. lex_escape(src, m) = B
      BY <2>1, <2>2, <2>3, <2>7
    <3> QED
      BY <2>5, <2>7, <3>1 DEF q
  <2>8. CASE ~(m > n) /\ ~q
    <3>1. lex_escape(src, m) \in {A, F, G}
      BY <2>1, <2>2, <2>8
    <3>2. e = m + 1
      BY <2>5, <3>1
    <3> QED
      BY <2>8, <3>2 DEF q
  <2> QED
    BY <2>6, <2>7, <2>8
<1>4. m <= n => /\ hex \in Nat /\ i + 2 <= hex /\ hex <= n + 1
                /\ i + 2..hex - 1 \subseteq H /\ hex \notin H
  <2> SUFFICES ASSUME m <= n
      PROVE  /\ hex \in Nat /\ i + 2 <= hex /\ hex <= n + 1
             /\ i + 2..hex - 1 \subseteq H /\ hex \notin H
    OBVIOUS
  <2>1. m + 1 \in Nat \ {0} /\ m + 1 <= Len(src) + 1
    <3> HIDE DEF n, m
    <3>1. m + 1 \in Nat \ {0} /\ m + 1 <= n + 1
      BY <1>1
    <3> QED
      BY <3>1 DEF n
  <2>2. hex \in Nat /\ m + 1 <= hex /\ hex <= n + 1
    BY <2>1, SpanHolds
  <2>3. m + 1..hex - 1 \subseteq H /\ hex \notin H
    BY <2>1, NothingElse, SpanIsExact
  <2> HIDE DEF hex, m, H, n
  <2> QED
    BY <1>1, <2>2, <2>3
<1>5. \A j \in Nat : All(i + 2, j, HexDigits) <=> i + 2..j - 1 \subseteq H
  <2>1. i + 2 \in Nat /\ \A j \in Nat : j \in Int
    OBVIOUS
  <2> QED
    BY <2>1, AllAreSpots
<1>6. \A k \in Nat : k \in H <=> At(src, k) \in HexDigits
  BY DEF Spots
<1> HIDE DEF n, hex, H, m, c
<1>7. CASE m > n
  <2>1. e = m
    BY <1>3, <1>7
  <2> HIDE DEF e
  <2>2. \A j \in Nat : j <= n + 1 /\ IsEscape(i, j) => j <= e
    BY <1>1, <1>7, <2>1
  <2> QED
    BY <1>1, <1>7, <2>1, <2>2 DEF n, m, e
<1>8. CASE m <= n /\ c # "x"
  <2>1. e = m + 1
    BY <1>1, <1>3, <1>8
  <2> HIDE DEF e
  <2>2. IsEscape(i, e) /\ \A j \in Nat : IsEscape(i, j) => j <= e
    BY <1>1, <1>2, <1>8, <2>1
  <2>3. e \in Nat /\ i < e /\ e <= n + 1 /\ ~(i + 1 > n) /\ i + 2 <= e /\ \A k \in i + 2..e - 1 : FALSE
    BY <1>1, <1>8, <2>1
  <2> QED
    BY <2>2, <2>3 DEF n, m, e
<1>9. CASE m <= n /\ c = "x"
  <2>1. e = Least2(hex, m + 3)
    BY <1>1, <1>3, <1>9
  <2> HIDE DEF e
  <2>2. e \in Nat /\ e <= hex /\ e <= i + 4 /\ i + 2 <= e /\ (e = hex \/ e = i + 4)
    BY <1>1, <1>4, <1>9, <2>1 DEF Least2
  <2>3. i + 2..e - 1 \subseteq H
    BY <1>1, <1>4, <1>9, <2>2
  <2>4. IsEscape(i, e)
    BY <1>1, <1>2, <1>5, <1>9, <2>2, <2>3
  <2>5. ASSUME NEW j \in Nat, IsEscape(i, j) PROVE j <= e
    <3> SUFFICES ASSUME e < j PROVE FALSE
      BY <2>2
    <3>1. j \in i + 2..i + 4 /\ i + 2..j - 1 \subseteq H
      BY <1>1, <1>2, <1>5, <2>2, <2>5
    <3>2. e = hex /\ hex \in i + 2..j - 1
      BY <1>1, <2>2, <3>1
    <3> QED
      BY <1>4, <1>9, <3>1, <3>2
  <2>6. e <= n + 1 /\ ~(i + 1 > n) /\ i < e
    BY <1>1, <1>4, <1>9, <2>2
  <2>7. \A k \in i + 2..e - 1 : At(src, k) \in HexDigits
    BY <1>1, <1>6, <2>3
  <2> QED
    BY <2>2, <2>4, <2>5, <2>6, <2>7 DEF n, m, e
<1> QED
  BY <1>1, <1>7, <1>8, <1>9

\* Where neither \u nor \U begins.
Narrow(i, j) == \A k \in i..j - 1 : ~(At(src, k) = Slash /\ At(src, k + 1) \in {"u", "U"})

\* lex_char: a character, an escape or nothing, with the quote or without.
LEMMA CharIsLongest ==
  ASSUME Len(src) \in Nat, NEW i \in Nat \ {0}, i <= Len(src), At(src, i) = "'",
         Narrow(i, lex_char(src, i).to)
  PROVE  Longest(i, lex_char(src, i).to)
<1> DEFINE n == Len(src)
           m == i + 1
           c == At(src, m)
           d == IF c = Slash THEN lex_escape(src, m + 1).to ELSE IF c = "'" THEN m ELSE m + 1
           y == IF At(src, d) = "'" THEN d + 1 ELSE d
<1>1. i \in Nat /\ m \in Nat \ {0} /\ n \in Nat /\ m = i + 1 /\ m <= n + 1 /\ m + 1 = i + 2 /\ i <= n
  OBVIOUS
<1>2. lex_char(src, i).to = y
  <2> DEFINE E == lex_escape(src, i + 2)
             A == [to |-> m, size |-> 0]
             B == [to |-> i + 2, size |-> 1]
             e == CASE c = "\\" -> E [] c = "'" -> A [] OTHER -> B
             to == IF At(src, e.to) = "'" THEN e.to + 1 ELSE e.to
             size == e.size
  <2>1. lex_char(src, i) = Token("char_lit", to, size)
    BY Zenon DEF lex_char
  <2>2. Slash # "'"
    BY Zenon DEF Slash
  <2>3. e = CASE c = Slash -> E [] c = "'" -> A [] OTHER -> B
    BY Zenon DEF Slash
  <2>4. A.to = m /\ B.to = m + 1
    OBVIOUS
  <2>5. E.to = lex_escape(src, m + 1).to
    BY <1>1
  <2> HIDE DEF e, A, B, E, m, c
  <2>6. e.to = d
    BY <2>2, <2>3, <2>4, <2>5
  <2> HIDE DEF d
  <2>7. to = y
    BY <2>6
  <2> HIDE DEF to, size, y
  <2> QED
    BY <2>1, <2>7, TokenFields
<1>3. \A b : IsCharBody(m, b) <=> m = b \/ (b = m + 1 /\ c # "'") \/ IsEscape(m, b)
  BY DEF IsCharBody
<1>4. \A b : IsEscape(m, b) => c = Slash
  BY Zenon DEF IsEscape, Slash
<1>5. \A j : IsChar(i, j) <=> IsCharBody(m, j) \/ (At(src, j - 1) = "'" /\ IsCharBody(m, j - 1))
  BY DEF IsChar
<1>6. \A k \in Nat : At(src, k) = "'" => k <= n
  <2>1. "'" # Nothing
    BY Zenon DEF Nothing
  <2> QED
    BY <2>1, CharactersOf
<1>7. ~IsOpenString(i)
  BY <1>1, FirstOfOpen, FirstsDiffer DEF Raw
<1>8. \A j \in Nat : i + 1 < j /\ Lexeme(i, j) => IsChar(i, j)
  BY <1>1, FirstOfLexeme, FirstsDiffer DEF Raw
<1>9. \A j : IsChar(i, j) => Lexeme(i, j)
  BY DEF Lexeme
<1>10. Slash # "'" /\ Slash # Nothing
  BY Zenon DEF Slash, Nothing
<1>11. c # Nothing => m <= n
  BY <1>1, CharactersOf
<1>12. c = Slash => /\ m <= n /\ d \in Nat /\ m < d /\ d <= n + 1
                    /\ m + 1 > n => d = m + 1
                    /\ m + 1 <= n => IsEscape(m, d)
                    /\ \A j \in Nat : j <= n + 1 /\ IsEscape(m, j) => j <= d
  <2> SUFFICES ASSUME c = Slash
      PROVE  /\ m <= n /\ d \in Nat /\ m < d /\ d <= n + 1
             /\ m + 1 > n => d = m + 1
             /\ m + 1 <= n => IsEscape(m, d)
             /\ \A j \in Nat : j <= n + 1 /\ IsEscape(m, j) => j <= d
    OBVIOUS
  <2>1. m <= n
    BY <1>10, <1>11
  <2>2. d = lex_escape(src, m + 1).to
    OBVIOUS
  <2>3. m + 1 \in Nat \ {0}
    OBVIOUS
  <2>4. d \in Nat /\ m + 1 <= d
    BY <2>2, <2>3, EscapeHolds
  <2>5. y \in Nat /\ d <= y
    <3> HIDE DEF d
    <3> QED
      BY <2>4
  <2>6. m \in i..y - 1
    <3> HIDE DEF d, y
    <3> QED
      BY <1>1, <2>4, <2>5
  <2>7. At(src, m + 1) \notin {"u", "U"}
    <3>1. Narrow(i, y)
      BY <1>2
    <3> HIDE DEF y, m
    <3> QED
      BY <2>6, <3>1 DEF Narrow
  <2> HIDE DEF d
  <2>8. At(src, m) = Slash /\ m <= Len(src)
    BY <2>1
  <2> HIDE DEF m
  <2> QED
    BY <1>1, <2>1, <2>2, <2>7, <2>8, EscapeEnds
<1>13. ASSUME d \in Nat, m <= d, d <= n + 1, IsCharBody(m, d),
              \A b \in Nat : b <= n + 1 /\ IsCharBody(m, b) => b <= d
       PROVE  Longest(i, y)
  <2> HIDE DEF d, m
  <2>1. y \in Nat /\ i < y /\ y <= n + 1
    BY <1>1, <1>6, <1>13
  <2>2. IsChar(i, y)
    <3>1. CASE At(src, d) = "'"
      <4>1. y = d + 1 /\ y - 1 = d
        BY <1>13, <3>1
      <4> QED
        BY <1>5, <1>13, <3>1, <4>1
    <3>2. CASE At(src, d) # "'"
      BY <1>5, <1>13, <3>2
    <3> QED
      BY <3>1, <3>2
  <2>3. ASSUME NEW j \in Nat, y < j, j <= n + 1 PROVE ~Lexeme(i, j)
    <3> SUFFICES ASSUME Lexeme(i, j) PROVE FALSE
      OBVIOUS
    <3>1. IsChar(i, j) /\ d <= y
      BY <1>1, <1>8, <1>13, <2>1, <2>3
    <3>2. ~IsCharBody(m, j)
      BY <1>13, <2>1, <2>3, <3>1
    <3>3. At(src, j - 1) = "'" /\ IsCharBody(m, j - 1)
      BY <1>5, <3>1, <3>2
    <3>4. j - 1 \in Nat /\ j - 1 <= n + 1
      BY <1>1, <2>1, <2>3
    <3>5. j - 1 = d
      BY <1>13, <2>1, <2>3, <3>1, <3>3, <3>4
    <3> QED
      BY <2>1, <2>3, <3>3, <3>5
  <2> HIDE DEF y
  <2> QED
    BY <1>1, <1>7, <1>9, <2>1, <2>2, <2>3, IsLongest DEF n
<1>14. CASE c = Slash
  <2>1. c # "'"
    BY <1>10, <1>14
  <2> HIDE DEF d, m, c, y
  <2>2. d \in Nat /\ m <= d /\ d <= n + 1
    BY <1>1, <1>12, <1>14
  <2>3. IsCharBody(m, d)
    BY <1>1, <1>3, <1>12, <1>14, <2>1
  <2>4. \A b \in Nat : b <= n + 1 /\ IsCharBody(m, b) => b <= d
    BY <1>1, <1>3, <1>12, <1>14, <2>1
  <2>5. Longest(i, y)
    BY <1>13, <2>2, <2>3, <2>4
  <2> QED
    BY <1>2, <2>5 DEF y
<1>15. CASE c = "'"
  <2>1. c # Slash
    BY <1>10, <1>15
  <2>2. d = m
    BY <1>15, <2>1
  <2> HIDE DEF d, m, c, y
  <2>3. IsCharBody(m, d) /\ \A b \in Nat : IsCharBody(m, b) => b <= d
    BY <1>1, <1>3, <1>4, <1>15, <2>1, <2>2
  <2>4. Longest(i, y)
    BY <1>1, <1>13, <2>2, <2>3
  <2> QED
    BY <1>2, <2>4 DEF y
<1>16. CASE c # Slash /\ c # "'"
  <2>1. d = m + 1
    BY <1>16
  <2> HIDE DEF d, m, c
  <2>2. CASE m <= n
    <3>1. IsCharBody(m, d) /\ \A b \in Nat : IsCharBody(m, b) => b <= d
      BY <1>1, <1>3, <1>4, <1>16, <2>1
    <3>2. d \in Nat /\ m <= d /\ d <= n + 1
      BY <1>1, <2>1, <2>2
    <3>3. Longest(i, y)
      BY <1>13, <3>1, <3>2
    <3> QED
      BY <1>2, <3>3
  <2>3. CASE ~(m <= n)
    <3>1. m = n + 1 /\ d = n + 2 /\ d \in Nat /\ ~(d <= n)
      BY <1>1, <2>1, <2>3
    <3>2. y = d
      BY <1>6, <3>1
    <3> HIDE DEF y, n
    <3>3. Least2(y, n + 1) = n + 1
      BY <1>1, <3>1, <3>2 DEF Least2
    <3>4. n + 1 = i + 1 /\ ~(n + 1 <= n) /\ \A j \in n + 1 + 1..n + 1 : FALSE
      BY <1>1, <3>1
    <3>5. Lexeme(i, n + 1)
      BY <3>4 DEF Lexeme
    <3>6. Longest(i, y)
      BY <3>3, <3>4, <3>5 DEF Longest, n
    <3> QED
      BY <1>2, <3>6
  <2> QED
    BY <2>2, <2>3
<1> QED
  BY <1>14, <1>15, <1>16

\* A character is escaped when a backslash precedes it that is not.
LEMMA EscapedByOne ==
  ASSUME NEW st \in Nat, NEW k \in Nat, st <= k
  PROVE  /\ ~Escaped(st, st)
         /\ Escaped(k + 1, st) <=> At(src, k) = Slash /\ ~Escaped(k, st)
<1> DEFINE E(j) == {m \in st..j - 1 : All(m, j, {Slash})}
           G == Spots(src, {Slash})
<1>1. \A j : Escaped(j, st) <=> Cardinality(E(j)) % 2 = 1
  BY Zenon DEF Escaped, Slash
<1>2. ASSUME NEW j \in Nat PROVE E(j) = {m \in st..j - 1 : m..j - 1 \subseteq G}
  <2>1. \A m \in st..j - 1 : m \in Nat /\ j \in Int
    OBVIOUS
  <2>2. \A m \in st..j - 1 : All(m, j, {Slash}) <=> m..j - 1 \subseteq G
    BY <2>1, AllAreSpots
  <2> QED
    BY <2>2
<1>3. k \in G <=> At(src, k) = Slash
  BY DEF Spots
<1>4. k + 1 \in Nat
  OBVIOUS
<1> HIDE DEF G
<1>5. E(st) = {}
  <2>1. st..st - 1 = {}
    OBVIOUS
  <2> QED
    BY <2>1
<1>6. IsFiniteSet(E(k)) /\ k \notin E(k)
  <2>1. E(k) \subseteq st..k - 1 /\ IsFiniteSet(st..k - 1) /\ k \notin st..k - 1
    BY FS_Interval
  <2> HIDE DEF E
  <2> QED
    BY <2>1, FS_Subset
<1>7. k \notin G => E(k + 1) = {}
  <2>1. ASSUME k \notin G, NEW m \in st..k + 1 - 1 PROVE ~(m..k + 1 - 1 \subseteq G)
    <3>1. k \in m..k + 1 - 1
      OBVIOUS
    <3> QED
      BY <2>1, <3>1
  <2> HIDE DEF E
  <2>2. E(k + 1) = {m \in st..k + 1 - 1 : m..k + 1 - 1 \subseteq G}
    BY <1>2, <1>4
  <2> QED
    BY <2>1, <2>2
<1>8. k \in G => E(k + 1) = E(k) \cup {k}
  <2> SUFFICES ASSUME k \in G, NEW m PROVE m \in E(k + 1) <=> m \in E(k) \/ m = k
    OBVIOUS
  <2>1. m \in E(k + 1) <=> m \in st..k + 1 - 1 /\ m..k + 1 - 1 \subseteq G
    BY <1>2, <1>4
  <2>2. m \in E(k) <=> m \in st..k - 1 /\ m..k - 1 \subseteq G
    BY <1>2
  <2> HIDE DEF E
  <2>3. m \in st..k + 1 - 1 <=> m \in st..k - 1 \/ m = k
    OBVIOUS
  <2>4. ASSUME m \in st..k PROVE m..k + 1 - 1 \subseteq G <=> m..k - 1 \subseteq G
    <3>1. \A x : x \in m..k + 1 - 1 <=> x \in m..k - 1 \/ x = k
      BY <2>4
    <3> QED
      BY <3>1
  <2>5. m = k => m..k - 1 = {}
    OBVIOUS
  <2>6. m \in st..k - 1 \/ m = k => m \in st..k
    OBVIOUS
  <2> QED
    BY <2>1, <2>2, <2>3, <2>4, <2>5, <2>6
<1>9. Cardinality({}) = 0 /\ Cardinality(E(k)) \in Nat
  BY <1>6, FS_EmptySet, FS_CardinalityType
<1>10. Cardinality(E(k) \cup {k}) = Cardinality(E(k)) + 1
  BY <1>6, FS_AddElement
<1> HIDE DEF E
<1>11. ~Escaped(st, st)
  BY <1>1, <1>5, <1>9
<1>12. CASE k \in G
  <2>1. \A c \in Nat : (c + 1) % 2 = 1 <=> ~(c % 2 = 1)
    OBVIOUS
  <2>2. Cardinality(E(k + 1)) = Cardinality(E(k)) + 1
    BY <1>8, <1>10, <1>12
  <2> QED
    BY <1>1, <1>3, <1>9, <1>11, <1>12, <2>1, <2>2
<1>13. CASE k \notin G
  BY <1>1, <1>3, <1>7, <1>9, <1>11, <1>13
<1> QED
  BY <1>12, <1>13

\* The quotes that end a string.
Sides(triple) == IF triple THEN 3 ELSE 1
Stop(k, triple, st) == Quoted(k, Sides(triple)) /\ ~Escaped(k, st)

\* Quotes one by one.
LEMMA QuotesAre ==
  ASSUME NEW k \in Nat
  PROVE  /\ Quoted(k, 1) <=> At(src, k) = Mark
         /\ Quoted(k, 3) <=> At(src, k) = Mark /\ At(src, k + 1) = Mark /\ At(src, k + 2) = Mark
<1>1. \A q : Quoted(k, q) <=> All(k, k + q, {Mark})
  BY Zenon DEF Quoted, Mark
<1>2. ASSUME NEW q \in Nat PROVE All(k, k + q, {Mark}) <=> k..k + q - 1 \subseteq Spots(src, {Mark})
  BY AllAreSpots
<1>3. k..k + 1 - 1 = {k} /\ k..k + 3 - 1 = {k, k + 1, k + 2}
  OBVIOUS
<1>4. \A m \in Nat : m \in Spots(src, {Mark}) <=> At(src, m) = Mark
  BY DEF Spots
<1>5. k + 1 \in Nat /\ k + 2 \in Nat
  OBVIOUS
<1>6. /\ All(k, k + 1, {Mark}) <=> {k} \subseteq Spots(src, {Mark})
      /\ All(k, k + 3, {Mark}) <=> {k, k + 1, k + 2} \subseteq Spots(src, {Mark})
  BY <1>2, <1>3
<1> QED
  BY <1>1, <1>4, <1>5, <1>6

\* Where the loop stops is where the quotes stand.
LEMMA EndsWithQuotes ==
  ASSUME NEW k \in Nat, NEW triple \in BOOLEAN
  PROVE  EndsString(src, k, triple) <=> Quoted(k, Sides(triple))
<1>1. EndsString(src, k, triple) <=>
        At(src, k) = Mark /\ (triple => At(src, k + 1) = Mark /\ At(src, k + 2) = Mark)
  BY Zenon DEF EndsString, Mark
<1>2. CASE triple
  BY <1>1, <1>2, QuotesAre DEF Sides
<1>3. CASE ~triple
  BY <1>1, <1>3, QuotesAre DEF Sides
<1> QED
  BY <1>2, <1>3

\* What has been read of a string that began at st: nothing in it ends it.
Read(b, triple, st) ==
  b.size < StrLimit /\ Narrow(st, b.to) =>
    /\ b.to <= Len(src) + 1
    /\ b.to <= Len(src) => ~Escaped(b.to, st)
    /\ \A k \in st..b.to - 1 : ~Stop(k, triple, st)

\* The loop goes no further.
Done(b, triple) == b.to > Len(src) \/ EndsString(src, b.to, triple) \/ b.size >= StrLimit

\* One turn keeps that, and goes on unless the string is read.
LEMMA OneMoreRead ==
  ASSUME Len(src) \in Nat, NEW st \in Nat \ {0}, NEW triple \in BOOLEAN, NEW b \in Bodies(st),
         Read(b, triple, st)
  PROVE  LET c == NextChar(src, triple, b)
         IN  /\ Read(c, triple, st)
             /\ Done(b, triple) => c = b
             /\ ~Done(b, triple) => b.to < c.to
<1> DEFINE c == NextChar(src, triple, b)
           n == Len(src)
           k == b.to
           e == IF At(src, k) = Slash THEN lex_escape(src, k + 1) ELSE [to |-> k + 1, size |-> 1]
           more == Least2(b.size + e.size, StrLimit)
<1>1. c = IF Done(b, triple) THEN b ELSE [to |-> e.to, size |-> more]
  BY Zenon DEF NextChar, Done, Slash
<1>2. CASE Done(b, triple)
  BY <1>1, <1>2
<1>3. CASE ~Done(b, triple)
  <2>1. n \in Nat /\ k \in Nat /\ st \in Nat /\ st <= k /\ b.size \in Nat
    BY DEF Bodies
  <2>2. k + 1 \in Nat \ {0}
    BY <2>1
  <2>3. /\ At(src, k) = Slash => e = lex_escape(src, k + 1)
        /\ At(src, k) # Slash => e.to = k + 1 /\ e.size = 1
    OBVIOUS
  <2>4. e.to \in Nat /\ e.size \in Nat /\ k < e.to
    <3>1. lex_escape(src, k + 1).to \in Nat /\ lex_escape(src, k + 1).size \in Nat /\ k + 1 <= lex_escape(src, k + 1).to
      BY <2>2, EscapeHolds
    <3> HIDE DEF e, k
    <3> QED
      BY <2>1, <2>3, <3>1
  <2>5. k <= n /\ ~EndsString(src, k, triple) /\ b.size < StrLimit
    BY <1>3, <2>1, LimitAssumption DEF Done
  <2>6. ~Quoted(k, Sides(triple))
    BY <2>1, <2>5, EndsWithQuotes
  <2>7. c.to = e.to /\ c.size = more
    <3> HIDE DEF e, more
    <3> QED
      BY <1>1, <1>3
  <2> HIDE DEF c, n, k, more
  <2>8. ASSUME c.size < StrLimit, Narrow(st, c.to)
        PROVE  /\ c.to <= n + 1
               /\ c.to <= n => ~Escaped(c.to, st)
               /\ \A m \in st..c.to - 1 : ~Stop(m, triple, st)
    <3> HIDE DEF e
    <3>1. Narrow(st, k)
      <4>1. \A m \in st..k - 1 : m \in st..c.to - 1
        BY <2>1, <2>4, <2>7
      <4> QED
        BY <2>8, <4>1 DEF Narrow
    <3>2. ~Escaped(k, st) /\ \A m \in st..k - 1 : ~Stop(m, triple, st)
      BY <2>5, <3>1 DEF Read, n, k
    <3>3. ~Stop(k, triple, st)
      BY <2>6 DEF Stop
    <3>4. /\ Escaped(k + 1, st) <=> At(src, k) = Slash /\ ~Escaped(k, st)
      BY <2>1, EscapedByOne
    <3>5. \A m \in st..k : ~Stop(m, triple, st)
      <4>1. \A m \in st..k : m \in st..k - 1 \/ m = k
        BY <2>1
      <4> QED
        BY <3>2, <3>3, <4>1
    <3>6. CASE At(src, k) # Slash
      <4>1. c.to = k + 1 /\ c.to <= n + 1 /\ c.to - 1 = k
        BY <2>1, <2>3, <2>5, <2>7, <3>6
      <4>2. ~Escaped(c.to, st)
        BY <3>4, <3>6, <4>1
      <4>3. \A m \in st..c.to - 1 : ~Stop(m, triple, st)
        BY <3>5, <4>1
      <4> QED
        BY <4>1, <4>2, <4>3
    <3>7. CASE At(src, k) = Slash
      <4>1. At(src, k + 1) \notin {"u", "U"}
        <5>1. k \in st..c.to - 1
          BY <2>1, <2>4, <2>7
        <5> QED
          BY <2>8, <3>7, <5>1 DEF Narrow
      <4>2. k \in Nat \ {0} /\ k <= Len(src)
        BY <2>1, <2>5 DEF n
      <4>3. c.to = lex_escape(src, k + 1).to
        BY <2>3, <2>7, <3>7
      <4>4. /\ c.to \in Nat /\ k < c.to /\ c.to <= n + 1
            /\ k + 1 > n => c.to = k + 1
            /\ k + 1 <= n => k + 2 <= c.to
            /\ \A m \in k + 2..c.to - 1 : At(src, m) \in HexDigits
        BY <3>7, <4>1, <4>2, <4>3, EscapeEnds DEF n
      <4>5. Escaped(k + 1, st)
        BY <3>2, <3>4, <3>7
      <4>6. \A h \in HexDigits : h # Mark /\ h # Slash
        BY Zenon DEF HexDigits, Digits, HexLetters, Mark, Slash
      <4>7. \A m \in k + 2..c.to - 1 : ~Stop(m, triple, st)
        <5> SUFFICES ASSUME NEW m \in k + 2..c.to - 1, Quoted(m, Sides(triple)) PROVE FALSE
          BY DEF Stop
        <5>1. m \in Nat
          BY <2>1
        <5>2. At(src, m) = Mark
          BY <5>1, QuotesAre DEF Sides
        <5> QED
          BY <4>4, <4>6, <5>2
      <4>8. \A m \in st..c.to - 1 : ~Stop(m, triple, st)
        <5>1. \A m \in st..c.to - 1 : m \in st..k \/ m = k + 1 \/ m \in k + 2..c.to - 1
          BY <2>1, <4>4
        <5>2. ~Stop(k + 1, triple, st)
          BY <4>5 DEF Stop
        <5> QED
          BY <3>5, <4>7, <5>1, <5>2
      <4>9. c.to <= n => ~Escaped(c.to, st)
        <5> SUFFICES ASSUME c.to <= n PROVE ~Escaped(c.to, st)
          OBVIOUS
        <5>1. k + 2 <= c.to
          BY <2>1, <4>4
        <5>2. c.to - 1 \in Nat /\ st <= c.to - 1 /\ (c.to - 1) + 1 = c.to
          BY <2>1, <4>4, <5>1
        <5>3. Escaped(c.to, st) <=> At(src, c.to - 1) = Slash /\ ~Escaped(c.to - 1, st)
          <6>1. Escaped((c.to - 1) + 1, st) <=> At(src, c.to - 1) = Slash /\ ~Escaped(c.to - 1, st)
            BY <2>1, <5>2, EscapedByOne
          <6> QED
            BY <5>2, <6>1
        <5>4. CASE c.to = k + 2
          <6>1. c.to - 1 = k + 1
            BY <2>1, <5>4
          <6> QED
            BY <4>5, <5>3, <6>1
        <5>5. CASE c.to # k + 2
          <6>1. c.to - 1 \in k + 2..c.to - 1
            BY <2>1, <4>4, <5>1, <5>5
          <6> QED
            BY <4>4, <4>6, <5>3, <6>1
        <5> QED
          BY <5>4, <5>5
      <4> QED
        BY <4>4, <4>8, <4>9
    <3> QED
      BY <3>6, <3>7
  <2>9. Read(c, triple, st)
    BY <2>8 DEF Read, n
  <2> QED
    BY <1>3, <2>4, <2>7, <2>9 DEF c, k
<1> QED
  BY <1>2, <1>3

\* The loop ends with the string or the text, and reads no end of it.
LEMMA StringBodyIsRead ==
  ASSUME Len(src) \in Nat, NEW st \in Nat \ {0}, st <= Len(src) + 1, NEW triple \in BOOLEAN
  PROVE  LET b == StringBody(src, st, triple)
         IN  b \in Bodies(st) /\ Read(b, triple, st) /\ Done(b, triple)
<1> DEFINE n == Len(src)
<1>1. PICK T : /\ T[0] = [to |-> st, size |-> 0]
               /\ \A k \in 1..n : T[k] = NextChar(src, triple, T[k - 1])
               /\ \A k \in 0..n : T[k] \in Bodies(st)
               /\ StringBody(src, st, triple) = T[n]
  BY StringTurns
<1>2. n \in Nat /\ st \in Nat /\ 1 <= st
  OBVIOUS
<1> DEFINE I(k) == Read(T[k], triple, st) /\ (Done(T[k], triple) \/ st + k <= T[k].to)
<1>3. I(0)
  <2>1. T[0].to = st /\ T[0].size = 0
    BY <1>1
  <2>2. ~Escaped(st, st) /\ \A k \in st..st - 1 : FALSE
    BY EscapedByOne
  <2> QED
    BY <1>2, <2>1, <2>2 DEF Read
<1>4. \A k \in 1..n : I(k - 1) => I(k)
  <2> SUFFICES ASSUME NEW k \in 1..n, I(k - 1) PROVE I(k)
    OBVIOUS
  <2> DEFINE b == T[k - 1]  c == T[k]
  <2>1. b \in Bodies(st) /\ c = NextChar(src, triple, b) /\ c \in Bodies(st) /\ k \in Nat
    BY <1>1, <1>2
  <2>2. Read(b, triple, st) /\ (Done(b, triple) \/ st + (k - 1) <= b.to)
    OBVIOUS
  <2> HIDE DEF b, c, I, n
  <2>3. /\ Read(c, triple, st)
        /\ Done(b, triple) => c = b
        /\ ~Done(b, triple) => b.to < c.to
    BY <2>1, <2>2, OneMoreRead
  <2>4. Done(c, triple) \/ st + k <= c.to
    <3>1. CASE Done(b, triple)
      BY <2>3, <3>1
    <3>2. CASE ~Done(b, triple)
      <4>1. b.to \in Nat /\ c.to \in Nat
        BY <2>1 DEF Bodies
      <4> QED
        BY <1>2, <2>1, <2>2, <2>3, <3>2, <4>1
    <3> QED
      BY <3>1, <3>2
  <2> QED
    BY <2>3, <2>4 DEF I, c
<1>5. I(n)
  <2> HIDE DEF I, n
  <2> DEFINE S == {k \in Nat : k <= n => I(k)}
  <2>1. 0 \in S
    BY <1>3
  <2>2. ASSUME NEW k \in Nat, k \in S PROVE k + 1 \in S
    <3> SUFFICES ASSUME k + 1 <= n PROVE I(k + 1)
      OBVIOUS
    <3>1. k + 1 \in 1..n /\ (k + 1) - 1 = k /\ k <= n
      BY <1>2
    <3>2. I(k)
      BY <2>2, <3>1
    <3> QED
      BY <1>4, <3>1, <3>2
  <2> HIDE DEF S
  <2>3. n \in S
    BY <1>2, <2>1, <2>2, Induction
  <2> QED
    BY <1>2, <2>3 DEF S
<1>6. T[n] \in Bodies(st)
  BY <1>1, <1>2
<1>7. Done(T[n], triple)
  <2>1. T[n].to \in Nat
    BY <1>6 DEF Bodies
  <2>2. CASE st + n <= T[n].to
    <3> HIDE DEF n
    <3>1. T[n].to > n
      BY <1>2, <2>1, <2>2
    <3> QED
      BY <3>1 DEF Done, n
  <2> QED
    BY <1>5, <2>2
<1> QED
  BY <1>1, <1>5, <1>6, <1>7

\* lex_string: its end is the first there is, of the quotes it began with.
LEMMA StringIsLongest ==
  ASSUME Len(src) \in Nat, NEW i \in Nat \ {0}, i <= Len(src), At(src, i) = Mark,
         lex_string(src, i).size < StrLimit, Narrow(i, lex_string(src, i).to)
  PROVE  Longest(i, lex_string(src, i).to)
<1> DEFINE n == Len(src)
           triple == At(src, i + 1) = "\"" /\ At(src, i + 2) = "\""
           q == Sides(triple)
           st == IF triple THEN i + 3 ELSE i + 1
           b == StringBody(src, st, triple)
           closing == IF At(src, b.to) = "\"" THEN (IF triple THEN 3 ELSE 1) ELSE 0
           y == b.to + closing
<1>1. lex_string(src, i) = Token("string_lit", y, b.size)
  BY Zenon DEF lex_string
<1>2. triple <=> Quoted(i, 3)
  <2>1. triple <=> At(src, i + 1) = Mark /\ At(src, i + 2) = Mark
    BY Zenon DEF Mark
  <2> HIDE DEF triple
  <2> QED
    BY <2>1, QuotesAre
<1>3. closing = IF At(src, b.to) = Mark THEN q ELSE 0
  BY Zenon DEF Sides, Mark
<1> HIDE DEF closing, b
<1>4. triple \in BOOLEAN
  OBVIOUS
<1> HIDE DEF triple
<1>5. st = i + q /\ (q = 1 \/ q = 3) /\ (triple => q = 3) /\ (~triple => q = 1)
  BY DEF Sides
<1>6. n \in Nat /\ i \in Nat /\ i <= n
  OBVIOUS
<1>7. \A k \in Nat : At(src, k) = Mark => k <= n
  <2>1. Mark # Nothing
    BY Zenon DEF Mark, Nothing
  <2> QED
    BY <2>1, CharactersOf
<1>8. Quoted(i, q)
  BY <1>2, <1>5, QuotesAre
<1> HIDE DEF q, st, n
<1>9. \A k \in Nat : Quoted(k, q) => At(src, k) = Mark /\ k + q <= n + 1
  <2> TAKE k \in Nat
  <2>1. k \in Nat /\ k + 2 \in Nat
    OBVIOUS
  <2> QED
    BY <1>5, <1>6, <1>7, <2>1, QuotesAre
<1>10. st \in Nat \ {0} /\ st <= n + 1 /\ i < st
  BY <1>5, <1>6, <1>8, <1>9
<1>11. b \in Bodies(st) /\ Read(b, triple, st) /\ Done(b, triple)
  BY <1>4, <1>10, StringBodyIsRead DEF n, b
<1>12. b.to \in Nat /\ st <= b.to /\ b.size \in Nat
  BY <1>11 DEF Bodies
<1>13. closing \in {0, q} /\ closing \in Nat /\ y \in Nat /\ b.to <= y
  BY <1>3, <1>5, <1>12
<1> HIDE DEF y
<1>14. b.size < StrLimit /\ Narrow(st, b.to)
  <2>1. b.size < StrLimit /\ Narrow(i, y)
    BY <1>1, TokenFields
  <2>2. \A m \in st..b.to - 1 : m \in i..y - 1
    BY <1>6, <1>10, <1>12, <1>13
  <2> QED
    BY <2>1, <2>2 DEF Narrow
<1>15. /\ b.to <= n + 1
       /\ b.to <= n => ~Escaped(b.to, st)
       /\ \A k \in st..b.to - 1 : ~Stop(k, triple, st)
  BY <1>11, <1>14 DEF Read, n
<1>16. \A k : Stop(k, triple, st) <=> Quoted(k, q) /\ ~Escaped(k, st)
  BY DEF Stop, q
<1>17. ~Raw(i)
  BY FirstsDiffer DEF Raw
<1>18. \A j : Ends(j, q, st) = {k \in st..j - q : Stop(k, triple, st)}
  BY <1>16 DEF Ends
<1>19. CASE b.to > n
  <2>1. b.to = n + 1
    BY <1>6, <1>12, <1>15, <1>19
  <2>2. y = n + 1
    <3>1. At(src, b.to) # Mark
      BY <1>6, <1>7, <2>1
    <3> QED
      BY <1>3, <1>6, <2>1, <3>1 DEF y
  <2>3. Ends(n + 1, q, st) = {}
    <3>1. \A k \in st..(n + 1) - q : k \in st..b.to - 1
      BY <1>5, <1>6, <1>10, <2>1
    <3>2. \A k \in st..(n + 1) - q : ~Stop(k, triple, st)
      BY <1>15, <3>1
    <3>3. Ends(n + 1, q, st) = {k \in st..(n + 1) - q : Stop(k, triple, st)}
      BY <1>18
    <3> QED
      BY <3>2, <3>3
  <2>4. IsOpenString(i)
    <3>1. q \in {1, 3} /\ Ends(Len(src) + 1, q, i + q) = {}
      BY <1>5, <2>3 DEF n
    <3> QED
      BY <1>8, <3>1 DEF IsOpenString
  <2>5. Longest(i, n + 1)
    BY <2>4, OpenIsLongest DEF n
  <2> QED
    BY <1>1, <2>2, <2>5, TokenFields
<1>20. CASE b.to <= n
  <2>1. Quoted(b.to, q) /\ ~Escaped(b.to, st)
    <3>1. EndsString(src, b.to, triple)
      BY <1>6, <1>11, <1>12, <1>14, <1>20, LimitAssumption DEF Done, n
    <3>2. Quoted(b.to, q)
      BY <1>4, <1>12, <3>1, EndsWithQuotes DEF q
    <3> QED
      BY <1>15, <1>20, <3>2
  <2>2. closing = q /\ y = b.to + q /\ y <= n + 1
    BY <1>3, <1>9, <1>12, <2>1 DEF y
  <2>3. i < y
    BY <1>6, <1>10, <1>12, <1>13
  <2>4. Ends(y, q, st) = {y - q}
    <3>1. y - q = b.to /\ b.to \in st..y - q
      BY <1>5, <1>12, <2>2
    <3>2. \A k \in st..y - q : k = b.to \/ k \in st..b.to - 1
      BY <1>10, <1>12, <3>1
    <3>3. Stop(b.to, triple, st)
      BY <1>16, <2>1
    <3> QED
      BY <1>15, <1>18, <3>1, <3>2, <3>3
  <2>5. Lexeme(i, y)
    <3>1. q \in {1, 3} /\ Ends(y, q, i + q) = {y - q}
      BY <1>5, <2>4
    <3> QED
      BY <1>8, <3>1 DEF Lexeme, IsString
  <2>6. ASSUME NEW j \in Nat, y <= j PROVE b.to \in Ends(j, q, st)
    <3>1. b.to \in st..j - q
      BY <1>5, <1>12, <2>2, <2>6
    <3> QED
      BY <1>16, <1>18, <2>1, <3>1
  <2>7. ASSUME NEW j \in Nat, y <= j, q # 1 PROVE i + 1 \in Ends(j, 1, i + 1)
    <3>1. Quoted(i + 1, 1)
      <4>1. q = 3 /\ i + 1 \in Nat
        BY <1>5, <1>6, <2>7
      <4> QED
        BY <1>6, <1>8, <4>1, QuotesAre
    <3>2. ~Escaped(i + 1, i + 1)
      BY <1>6, EscapedByOne
    <3>3. i + 1 \in i + 1..j - 1
      BY <1>5, <1>6, <1>12, <1>13, <2>7
    <3> QED
      BY <3>1, <3>2, <3>3 DEF Ends
  <2>8. q # 3 => ~Quoted(i, 3)
    BY <1>2, <1>5
  <2>9. ~IsOpenString(i)
    <3>1. n + 1 \in Nat /\ y <= n + 1
      BY <1>6, <2>2
    <3>2. Ends(n + 1, q, i + q) # {}
      BY <1>5, <2>6, <3>1
    <3>3. q # 1 => Ends(n + 1, 1, i + 1) # {}
      BY <2>7, <3>1
    <3> QED
      BY <1>5, <1>17, <2>8, <3>2, <3>3 DEF IsOpenString, n
  <2>10. ASSUME NEW j \in Nat, y < j PROVE ~Lexeme(i, j)
    <3>1. i + 1 < j
      BY <1>6, <2>3, <2>10, <1>13
    <3>2. At(src, i) \notin NameStarts /\ At(src, i) \notin Ones /\ At(src, i) \notin Digits /\ At(src, i) # "'"
      BY FirstsDiffer
    <3>3. b.to \in Ends(j, q, i + q) /\ b.to # j - q
      BY <1>5, <1>12, <1>13, <2>2, <2>6, <2>10
    <3>4. q # 1 => i + 1 \in Ends(j, 1, i + 1) /\ i + 1 # j - 1
      <4> SUFFICES ASSUME q # 1 PROVE i + 1 \in Ends(j, 1, i + 1) /\ i + 1 # j - 1
        OBVIOUS
      <4>1. i + 1 \in Ends(j, 1, i + 1)
        BY <1>13, <2>7, <2>10
      <4> QED
        BY <1>5, <1>6, <1>12, <1>13, <2>2, <2>10, <4>1
    <3>5. ~IsString(i, j)
      BY <1>5, <1>17, <2>8, <3>3, <3>4 DEF IsString
    <3> QED
      BY <1>6, <1>17, <3>1, <3>2, <3>5, FirstOfLexeme
  <2>11. Longest(i, y)
    BY <1>6, <1>13, <2>2, <2>3, <2>5, <2>9, <2>10, IsLongest DEF n
  <2> QED
    BY <1>1, <2>11, TokenFields
<1> QED
  BY <1>6, <1>12, <1>19, <1>20

\* A token of any kind, read from where it begins.
LexemeCut(t) == t.kind = "string_lit" /\ t.size >= StrLimit
LexemeWide(t, i) == t.kind \in {"string_lit", "char_lit"} /\ ~Narrow(i, t.to)

\* Lex, case by case.
LEMMA LexIsLongest ==
  ASSUME Len(src) \in Nat, NEW i \in Nat \ {0}, i <= Len(src),
         ~LexemeCut(Lex(src, i)), ~LexemeWide(Lex(src, i), i)
  PROVE  Longest(i, Lex(src, i).to)
<1> DEFINE c == At(src, i)
           raw == OpensRaw(src, i)
           letter == c \in Letters \cup {"_"}
           digit == c \in Digits
           quote == c = "\""
           tick == c = "'"
<1>1. Lex(src, i) = CASE raw -> lex_raw_string(src, i)
                      [] ~raw /\ letter -> lex_ident(src, i)
                      [] digit -> lex_number(src, i)
                      [] quote -> lex_string(src, i)
                      [] tick -> lex_char(src, i)
                      [] OTHER -> lex_operator(src, i)
  <2>1. ~(i > Len(src))
    OBVIOUS
  <2> QED
    BY <2>1, Zenon DEF Lex
<1>2. raw => Longest(i, lex_raw_string(src, i).to)
  BY RawIsLongest
<1>3. ~raw /\ letter => Longest(i, lex_ident(src, i).to)
  BY WordIsLongest, Zenon DEF NameStarts
<1>4. digit => Longest(i, lex_number(src, i).to)
  BY NumberIsLongest
<1>5. quote => Lex(src, i) = lex_string(src, i) /\ c = Mark
  <2>1. quote => c = Mark
    BY Zenon DEF Mark
  <2>2. c = Mark => ~raw /\ ~letter /\ ~digit /\ ~tick
    BY FirstsDiffer DEF OpensRaw, NameStarts
  <2> HIDE DEF raw, letter, digit, quote, tick, c
  <2> QED
    BY <1>1, <2>1, <2>2
<1>6. tick => Lex(src, i) = lex_char(src, i)
  <2>1. tick => ~raw /\ ~letter /\ ~digit /\ c # Mark
    BY FirstsDiffer DEF OpensRaw, NameStarts
  <2>2. quote => c = Mark
    BY Zenon DEF Mark
  <2> HIDE DEF raw, letter, digit, quote, tick, c
  <2> QED
    BY <1>1, <2>1, <2>2
<1>7. quote => Longest(i, lex_string(src, i).to)
  <2>0. \E to, size : lex_string(src, i) = Token("string_lit", to, size)
    BY Zenon DEF lex_string
  <2>1. lex_string(src, i).kind = "string_lit"
    BY <2>0, TokenFields
  <2>2. lex_string(src, i).size \in Nat
    BY StringHolds DEF Lexed, Advances
  <2> HIDE DEF quote
  <2>3. quote => lex_string(src, i).size < StrLimit
    BY <1>5, <2>1, <2>2, LimitAssumption DEF LexemeCut
  <2> QED
    BY <1>5, <2>1, <2>3, StringIsLongest DEF LexemeWide
<1>8. tick => Longest(i, lex_char(src, i).to)
  <2>0. \E to, size : lex_char(src, i) = Token("char_lit", to, size)
    BY Zenon DEF lex_char
  <2>1. lex_char(src, i).kind = "char_lit"
    BY <2>0, TokenFields
  <2> QED
    BY <1>6, <2>1, CharIsLongest DEF LexemeWide
<1>9. ~letter /\ ~digit /\ ~quote /\ ~tick => Longest(i, lex_operator(src, i).to)
  <2>1. ~quote => c # Mark
    BY Zenon DEF Mark
  <2>2. ~letter => c \notin NameStarts
    BY Zenon DEF NameStarts
  <2> HIDE DEF quote, letter
  <2> QED
    BY <2>1, <2>2, OperatorIsLongest
<1> HIDE DEF raw, letter, digit, quote, tick
<1> QED
  BY <1>1, <1>2, <1>3, <1>4, <1>7, <1>8, <1>9

(***************************************************************************)
(* The lexer at work.  PlacesAreTrue is not inductive: it speaks of the    *)
(* last token, while the next place is counted from where the lexer is.    *)
(***************************************************************************)
Reading == /\ src \in Sources
           /\ pos \in Nat \ {0}
           /\ col \in Int /\ PlaceIs(line, col, pos)

\* The last token is what the text holds where it begins.
Scanned ==
  Called => /\ tok.from \in Nat \ {0}
            /\ tok.kind = Lex(src, tok.from).kind /\ tok.to = Lex(src, tok.from).to
            /\ tok.size = Lex(src, tok.from).size

LexerInv == Reading /\ Scanned /\ Good(arena) /\ PlacesAreTrue /\ GapsAreBlank

LEMMA PlacesSaid == PlacesAreTrue <=> (Called => PlaceIs(tok.line, tok.col, tok.from))
<1>1. /\ Newlines(src, 1, tok.from) = {k \in 1..Least2(tok.from - 1, Len(src)) : At(src, k) = "\n"}
      /\ tok.line = Cardinality(Newlines(src, 1, tok.from)) + 1 <=>
            tok.line = Cardinality({k \in 1..Least2(tok.from - 1, Len(src)) : At(src, k) = "\n"}) + 1
  BY DEF Newlines
<1> QED
  BY <1>1, Zenon DEF PlacesAreTrue, PlaceIs, Latest

LEMMA LexerInitHolds == Init => LexerInv
<1> SUFFICES ASSUME Init PROVE LexerInv
  OBVIOUS
<1>1. src \in Sources /\ pos = 1 /\ line = 1 /\ col = 1 /\ tok.kind = "none" /\ arena = arena_new
  BY DEF Init
<1>2. Len(src) \in Nat
  BY <1>1, SourcesAssumption
<1>3. PlaceIs(1, 1, 1)
  <2>1. Newlines(src, 1, 1) = {}
    <3> DEFINE n == Len(src)
               newline(k) == At(src, k) = "\n"
    <3>1. Newlines(src, 1, 1) = {k \in 1..Least2(1 - 1, n) : newline(k)}
      BY DEF Newlines
    <3>2. n \in Nat
      BY <1>2
    <3> HIDE DEF n, newline
    <3>3. Least2(1 - 1, n) = 0
      BY <3>2 DEF Least2
    <3> QED
      BY <3>1, <3>3
  <2>2. Cardinality({}) = 0
    BY FS_EmptySet
  <2>3. Latest({}) = 0
    BY DEF Latest
  <2> QED
    BY <2>1, <2>2, <2>3 DEF PlaceIs
<1>4. Reading
  BY <1>1, <1>3 DEF Reading
<1>5. ~Called
  BY <1>1 DEF Called
<1> QED
  BY <1>1, <1>4, <1>5, NewIsGood DEF LexerInv, Scanned, PlacesAreTrue, GapsAreBlank

LEMMA LexerStepHolds == LexerInv /\ [Next]_lexVars => LexerInv'
<1> SUFFICES ASSUME LexerInv, [Next]_lexVars PROVE LexerInv'
  OBVIOUS
<1>1. CASE lexer_next
  <2> DEFINE from == skip_ws(src, pos)
             t == Lex(src, from)
             before == Place(from, t.to)
  <2>1. /\ src' = src /\ gap' = pos /\ pos' = t.to
        /\ line' = LineAfter(line, src, pos, t.to) /\ col' = ColAfter(col, src, pos, t.to)
        /\ tok' = [kind |-> t.kind, from |-> from, to |-> t.to, size |-> t.size,
                   line |-> before.line, col |-> before.col]
        /\ arena' = Allocate(t)
    BY <1>1 DEF lexer_next
  <2>2. /\ tok'.kind = t.kind /\ tok'.from = from /\ tok'.to = t.to
        /\ tok'.line = LineAfter(line, src, pos, from)
        /\ tok'.col = ColAfter(col, src, pos, from)
    BY <2>1 DEF Place
  <2>3. Len(src) \in Nat /\ pos \in Nat \ {0} /\ col \in Int /\ PlaceIs(line, col, pos)
    BY SourcesAssumption DEF LexerInv, Reading
  <2>4. /\ from \in Nat /\ pos <= from
        /\ ~StartsPiece(from) /\ IsGap(pos, from)
    BY <2>3, SkipHolds
  <2> HIDE DEF from
  <2>5. from \in Nat \ {0}
    BY <2>3, <2>4
  <2>6. /\ from > Len(src) => t = Token("eof", from, 0)
        /\ from <= Len(src) => Lexed(t, from)
    BY <2>3, <2>5, LexHolds
  <2>7. /\ t.to \in Nat /\ from <= t.to /\ t.size \in Nat
        /\ t.kind = "eof" <=> from > Len(src)
        /\ t.kind # "eof" => t.to > from
    <3> HIDE DEF t
    <3>1. CASE from > Len(src)
      <4>1. t.kind = "eof" /\ t.to = from /\ t.size = 0
        BY <2>6, <3>1, TokenFields
      <4> QED
        BY <2>4, <3>1, <4>1
    <3>2. CASE from <= Len(src)
      <4>1. t.to \in Nat /\ t.to > from /\ t.size \in Nat /\ t.kind # "eof"
        BY <2>6, <3>2 DEF Lexed, Advances
      <4>2. ~(from > Len(src))
        BY <2>3, <2>4, <3>2
      <4> QED
        BY <2>4, <4>1, <4>2
    <3> QED
      BY <2>3, <2>4, <3>1, <3>2
  <2> HIDE DEF t
  <2>8. PlaceIs(LineAfter(line, src, pos, from), ColAfter(col, src, pos, from), from)
    BY <2>3, <2>4, PlacesFollow
  <2>9. /\ PlaceIs(LineAfter(line, src, pos, t.to), ColAfter(col, src, pos, t.to), t.to)
        /\ ColAfter(col, src, pos, t.to) \in Int
    <3>1. pos <= t.to
      BY <2>3, <2>4, <2>7
    <3> QED
      BY <2>3, <2>7, <3>1, PlacesFollow
  <2>10. Reading'
    <3>1. t.to \in Nat \ {0}
      BY <2>5, <2>7
    <3>2. PlaceIs(line, col, pos)'
      BY <2>1, <2>9 DEF PlaceIs, Newlines, At
    <3>3. src' \in Sources
      BY <2>1 DEF LexerInv, Reading
    <3> QED
      BY <2>1, <2>9, <3>1, <3>2, <3>3 DEF Reading
  <2>11. Good(arena')
    <3>1. Good(arena) /\ StrBuffer \in Nat
      BY LimitAssumption DEF LexerInv
    <3>2. Good(arena_alloc(arena, StrBuffer))
      BY <3>1, AllocKeepsGood
    <3>3. Good(arena_strndup(arena, t.size)) /\ Good(arena_strndup(arena_alloc(arena, StrBuffer), t.size))
      BY <2>7, <3>1, <3>2, AllocKeepsGood
    <3> QED
      BY <2>1, <3>3 DEF Allocate
  <2>12. PlacesAreTrue'
    <3>1. PlaceIs(tok.line, tok.col, tok.from)'
      BY <2>1, <2>2, <2>8 DEF PlaceIs, Newlines, At
    <3> QED
      BY <3>1, PlacesSaid, PTL
  <2>14. Scanned'
    <3>1. tok'.kind = t.kind /\ tok'.from = from /\ tok'.to = t.to /\ tok'.size = t.size
      BY <2>1
    <3>2. t = Lex(src', from)
      BY <2>1 DEF t
    <3> QED
      BY <2>5, <3>1, <3>2, Zenon DEF Scanned
  <2>13. GapsAreBlank'
    <3>1. IsGap(gap, tok.from)'
      BY <2>1, <2>2, <2>4 DEF IsGap, IsPiece, IsBlank, IsLineComment, IsBlockComment
    <3>2. ~StartsPiece(tok.from)'
      BY <2>1, <2>2, <2>4 DEF StartsPiece
    <3> QED
      BY <2>1, <2>2, <2>7, <3>1, <3>2 DEF GapsAreBlank
  <2> QED
    BY <2>10, <2>11, <2>12, <2>13, <2>14 DEF LexerInv
<1>2. CASE UNCHANGED lexVars
  <2>1. UNCHANGED <<src, pos, line, col, tok, gap, arena>>
    BY <1>2 DEF lexVars
  <2>2. Reading'
    BY <2>1 DEF LexerInv, Reading, PlaceIs
  <2>3. Good(arena')
    BY <2>1 DEF LexerInv
  <2>4. PlacesAreTrue'
    BY <2>1 DEF LexerInv, PlacesAreTrue, Called
  <2>5. GapsAreBlank'
    BY <2>1 DEF LexerInv, GapsAreBlank, Called, IsGap, IsPiece, IsBlank, IsLineComment, IsBlockComment,
                StartsPiece
  <2>6. Scanned'
    BY <2>1 DEF LexerInv, Scanned, Called
  <2> QED
    BY <2>2, <2>3, <2>4, <2>5, <2>6 DEF LexerInv
<1> QED
  BY <1>1, <1>2 DEF Next

LEMMA LexerInvariant == Spec => []LexerInv
BY LexerInitHolds, LexerStepHolds, PTL DEF Spec

(***************************************************************************)
(* Theorems of the lexer                                                   *)
(***************************************************************************)
\* For texts of any length, the line and column of every token are those of
\* its first character (lx_adv, mktok).
THEOREM PlacesHold == Spec => []PlacesAreTrue
<1>1. LexerInv => PlacesAreTrue
  BY DEF LexerInv
<1> QED
  BY <1>1, LexerInvariant, PTL

\* For texts of any length, skip_ws passes blanks and whole comments and
\* nothing else, and leaves none; every token but the last takes characters,
\* and the last is found at the end.
THEOREM GapsHold == Spec => []GapsAreBlank
<1>1. LexerInv => GapsAreBlank
  BY DEF LexerInv
<1> QED
  BY <1>1, LexerInvariant, PTL

\* For texts of any length, every token but \u and \U escapes' and a string
\* cut at its buffer's limit is the longest lexeme that begins where it does
\* (lex_ident, lex_number, lex_string, lex_raw_string, lex_char, lex_operator).
THEOREM TokensHold == Spec => []TokensAreLongest
<1>1. LexerInv => TokensAreLongest
  <2> SUFFICES ASSUME LexerInv, Called, tok.kind # "eof", ~Cut, ~Wide
      PROVE  /\ Lexeme(tok.from, End) \/ (End = Len(src) + 1 /\ IsOpenString(tok.from))
             /\ \A j \in End + 1..Len(src) + 1 : ~Lexeme(tok.from, j)
             /\ End <= Len(src) => ~IsOpenString(tok.from)
    BY DEF TokensAreLongest
  <2> DEFINE t == Lex(src, tok.from)
  <2>1. tok.from \in Nat \ {0} /\ tok.kind = t.kind /\ tok.to = t.to /\ tok.size = t.size
    BY DEF LexerInv, Scanned
  <2>2. Len(src) \in Nat
    BY SourcesAssumption DEF LexerInv, Reading
  <2>3. tok.from <= Len(src)
    <3>1. ~(tok.from > Len(src))
      BY DEF LexerInv, GapsAreBlank
    <3> QED
      BY <2>1, <2>2, <3>1
  <2>4. ~LexemeCut(t)
    BY <2>1 DEF LexemeCut, Cut
  <2>5. ~LexemeWide(t, tok.from)
    <3>1. Wide <=> tok.kind \in {"string_lit", "char_lit"} /\ ~Narrow(tok.from, tok.to)
      BY Zenon DEF Wide, Narrow, Slash
    <3> QED
      BY <2>1, <3>1 DEF LexemeWide
  <2>6. Longest(tok.from, tok.to)
    BY <2>1, <2>2, <2>3, <2>4, <2>5, LexIsLongest
  <2> QED
    BY <2>6 DEF Longest, End
<1> QED
  BY <1>1, LexerInvariant, PTL

\* However long the tokens, what the lexer takes from the arena for them lies
\* apart (mktok, lex_string, lex_raw_string).
THEOREM TokensLieApart == Spec => []BlocksApart
<1>1. LexerInv => BlocksApart
  BY DEF LexerInv, Good, Filled, Inside, Apart, BlocksApart
<1> QED
  BY <1>1, LexerInvariant, PTL
=============================================================================
