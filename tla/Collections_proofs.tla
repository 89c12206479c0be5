-------------------------- MODULE Collections_proofs --------------------------
(***************************************************************************)
(* The collections of compiled programs, for every value of the constants. *)
(*                                                                         *)
(* First the map alone (Spec, of FeMap), for every set of cells, keys and  *)
(* buckets and every hash function: it stays well formed, and a program    *)
(* cannot tell it from the partial function of Dictionary.  Its lemmas     *)
(* speak of a memory m, a set of copies cs and a bucket array bs instead   *)
(* of the variables, so that they say as much of a state as of the one     *)
(* after it.                                                               *)
(*                                                                         *)
(* Then the program with its strings (SSpec), for any number of variables  *)
(* and texts too: a mut str owns its buffer, a variable reads its last     *)
(* text, and to the map the program is one that leaves the map's cells     *)
(* alone, so that what is proved of Spec holds of SSpec.                   *)
(*                                                                         *)
(* Last the growable array (ASpec), for every default and every requested  *)
(* capacity: it never shows a cell nobody wrote, and a program cannot tell *)
(* it from the sequence of SequenceADT.                                    *)
(***************************************************************************)
EXTENDS FeArray, MutStrings, TLAPS

USE HashAssumption, MarkAssumption, ValueAssumption

\* Memory, copies and buckets have their types, and the copies are the keys
\* of the entries, each of one entry.
Shape(m, cs, bs) ==
    /\ m \in [Cells -> Keys \cup {Freed}]
    /\ cs \subseteq Cells
    /\ bs \in [Buckets -> Seq(Entries)]
    /\ \A c : c \in cs <=> \E b \in Buckets : \E i \in DOMAIN bs[b] : bs[b][i].key = c
    /\ \A b \in Buckets : \A i \in DOMAIN bs[b] :
          m[bs[b][i].key] \in Keys /\ Hash[m[bs[b][i].key]] = b
    /\ \A b, c \in Buckets : \A i \in DOMAIN bs[b], j \in DOMAIN bs[c] :
          bs[b][i].key = bs[c][j].key => b = c /\ i = j

\* A bucket holds a text at most once.
Distinct(m, bs) ==
    \A b \in Buckets : \A i, j \in DOMAIN bs[b] : m[bs[b][i].key] = m[bs[b][j].key] => i = j

Good(m, cs, bs) == Shape(m, cs, bs) /\ Distinct(m, bs)

MatchesIn(m, bs, k) == {i \in DOMAIN bs[Hash[k]] : m[bs[Hash[k]][i].key] = k}
FirstIn(m, bs, k) == CHOOSE i \in MatchesIn(m, bs, k) : \A j \in MatchesIn(m, bs, k) : i <= j
DictOf(m, bs) ==
    [k \in Keys |-> IF MatchesIn(m, bs, k) # {} THEN bs[Hash[k]][FirstIn(m, bs, k)].val ELSE Absent]

\* The inductive invariant.
MInv == Good(mem, copies, buckets) /\ (~Live => buckets = NoEntries) /\ handle \in {"null", "live"}

(***************************************************************************)
(* Sequences of entries                                                    *)
(***************************************************************************)
LEMMA EntryFields ==
    \A e \in Entries : e.key \in Cells /\ e.val \in Vals
BY DEF Entries

LEMMA MadeEntry ==
    \A c \in Cells, v \in Vals : /\ [key |-> c, val |-> v] \in Entries
                                 /\ [key |-> c, val |-> v].key = c
                                 /\ [key |-> c, val |-> v].val = v
BY DEF Entries

LEMMA PrependIs ==
    ASSUME NEW e \in Entries, NEW s \in Seq(Entries)
    PROVE  /\ Prepend(e, s) \in Seq(Entries)
           /\ DOMAIN Prepend(e, s) = 1..Len(s) + 1
           /\ Prepend(e, s)[1] = e
           /\ \A i \in DOMAIN s : i + 1 \in DOMAIN Prepend(e, s) /\ Prepend(e, s)[i + 1] = s[i]
           /\ \A i \in DOMAIN Prepend(e, s) : i # 1 => i - 1 \in DOMAIN s /\ Prepend(e, s)[i] = s[i - 1]
BY DEF Prepend

\* The place in the old chain of each entry that is left.
Old(i, n) == IF i < n THEN i ELSE i + 1

LEMMA WithoutIs ==
    ASSUME NEW s \in Seq(Entries), NEW n \in DOMAIN s
    PROVE  /\ Without(s, n) \in Seq(Entries)
           /\ \A i \in DOMAIN Without(s, n) :
                 Old(i, n) \in DOMAIN s /\ Old(i, n) # n /\ Without(s, n)[i] = s[Old(i, n)]
           /\ \A i, j \in DOMAIN Without(s, n) : Old(i, n) = Old(j, n) => i = j
           /\ \A j \in DOMAIN s : j # n => \E i \in DOMAIN Without(s, n) : Old(i, n) = j
<1>1. Len(s) \in Nat /\ DOMAIN s = 1..Len(s) /\ n \in 1..Len(s)
  OBVIOUS
<1>2. DOMAIN Without(s, n) = 1..(Len(s) - 1)
  BY DEF Without
<1>3. \A i \in 1..(Len(s) - 1) :
         Old(i, n) \in DOMAIN s /\ Old(i, n) # n /\ Without(s, n)[i] = s[Old(i, n)]
  BY <1>1 DEF Without, Old
<1>4. Without(s, n) \in Seq(Entries)
  <2>1. \A i \in 1..(Len(s) - 1) : Without(s, n)[i] \in Entries
    BY <1>1, <1>3
  <2>2. Len(s) - 1 \in Nat
    BY <1>1
  <2>3. Without(s, n) = [i \in 1..(Len(s) - 1) |-> Without(s, n)[i]]
    BY DEF Without
  <2> QED
    BY <2>1, <2>2, <2>3
<1>5. \A i, j \in 1..(Len(s) - 1) : Old(i, n) = Old(j, n) => i = j
  BY <1>1 DEF Old
<1>6. ASSUME NEW j \in DOMAIN s, j # n PROVE \E i \in 1..(Len(s) - 1) : Old(i, n) = j
  <2>1. CASE j < n
    BY <2>1, <1>1 DEF Old
  <2>2. CASE j > n
    <3>1. j - 1 \in 1..(Len(s) - 1) /\ Old(j - 1, n) = j
      BY <2>2, <1>1 DEF Old
    <3> QED
      BY <3>1
  <2> QED
    BY <2>1, <2>2, <1>1, <1>6
<1> QED
  BY <1>2, <1>3, <1>4, <1>5, <1>6

(***************************************************************************)
(* Looking up: a text found anywhere in its bucket is the first found.     *)
(***************************************************************************)
LEMMA DictIs ==
    ASSUME NEW m, NEW cs, NEW bs, Good(m, cs, bs), NEW k \in Keys
    PROVE  /\ \A i \in DOMAIN bs[Hash[k]] :
                 m[bs[Hash[k]][i].key] = k =>
                    i = FirstIn(m, bs, k) /\ DictOf(m, bs)[k] = bs[Hash[k]][i].val
           /\ (\A i \in DOMAIN bs[Hash[k]] : m[bs[Hash[k]][i].key] # k) =>
                 DictOf(m, bs)[k] = Absent
<1>1. ASSUME NEW i \in DOMAIN bs[Hash[k]], m[bs[Hash[k]][i].key] = k
      PROVE  i = FirstIn(m, bs, k) /\ DictOf(m, bs)[k] = bs[Hash[k]][i].val
  <2>1. Hash[k] \in Buckets
    OBVIOUS
  <2>2. MatchesIn(m, bs, k) = {i}
    BY <1>1, <2>1 DEF MatchesIn, Good, Distinct
  <2>3. i \in Nat
    BY <2>1 DEF Good, Shape
  <2>4. FirstIn(m, bs, k) = i
    BY <2>2, <2>3 DEF FirstIn
  <2> QED
    BY <2>2, <2>4 DEF DictOf
<1>2. ASSUME \A i \in DOMAIN bs[Hash[k]] : m[bs[Hash[k]][i].key] # k
      PROVE  DictOf(m, bs)[k] = Absent
  <2>1. MatchesIn(m, bs, k) = {}
    BY <1>2 DEF MatchesIn
  <2> QED
    BY <2>1 DEF DictOf
<1> QED
  BY <1>1, <1>2

\* What a dictionary answers for a key.
Answers(m, bs, k) ==
    /\ \A i \in DOMAIN bs[Hash[k]] :
          m[bs[Hash[k]][i].key] = k => i = FirstIn(m, bs, k) /\ DictOf(m, bs)[k] = bs[Hash[k]][i].val
    /\ (\A i \in DOMAIN bs[Hash[k]] : m[bs[Hash[k]][i].key] # k) => DictOf(m, bs)[k] = Absent

LEMMA GoodAnswers == \A m, cs, bs : Good(m, cs, bs) => \A k \in Keys : Answers(m, bs, k)
BY DictIs DEF Answers

\* What a Good map is made of, one entry at a time.
LEMMA EntryIs ==
    ASSUME NEW m, NEW cs, NEW bs, Good(m, cs, bs), NEW b \in Buckets, NEW i \in DOMAIN bs[b]
    PROVE  /\ bs[b][i] \in Entries /\ bs[b][i].key \in Cells /\ bs[b][i].val \in Vals
           /\ bs[b][i].key \in cs /\ m[bs[b][i].key] \in Keys /\ Hash[m[bs[b][i].key]] = b
           /\ i \in Nat
<1>1. bs[b] \in Seq(Entries)
  BY DEF Good, Shape
<1>2. bs[b][i] \in Entries /\ i \in Nat
  BY <1>1
<1> QED
  BY <1>2, EntryFields DEF Good, Shape

(***************************************************************************)
(* Operations on a map                                                     *)
(***************************************************************************)
WithText(m, c, k) == [m EXCEPT ![c] = k]
WithEntry(bs, k, c, v) == [bs EXCEPT ![Hash[k]] = Prepend([key |-> c, val |-> v], @)]
WithValue(bs, k, f, v) == [bs EXCEPT ![Hash[k]][f].val = v]
WithoutEntry(bs, k, f) == [bs EXCEPT ![Hash[k]] = Without(@, f)]

\* Writing outside the copies disturbs neither the map nor what it answers.
LEMMA WriteKeeps ==
    ASSUME NEW m, NEW cs, NEW bs, Good(m, cs, bs),
           NEW n \in [Cells -> Keys \cup {Freed}], \A c \in cs : n[c] = m[c]
    PROVE  Good(n, cs, bs) /\ DictOf(n, bs) = DictOf(m, bs)
<1>1. \A b \in Buckets : \A i \in DOMAIN bs[b] : n[bs[b][i].key] = m[bs[b][i].key]
  BY EntryIs
<1>2. Good(n, cs, bs)
  BY <1>1 DEF Good, Shape, Distinct
<1>3. \A k \in Keys : MatchesIn(n, bs, k) = MatchesIn(m, bs, k)
  BY <1>1 DEF MatchesIn
<1>4. \A k \in Keys : FirstIn(n, bs, k) = FirstIn(m, bs, k)
  BY <1>3 DEF FirstIn
<1> QED
  BY <1>2, <1>3, <1>4 DEF DictOf

\* A new entry in front of the bucket of its key.
LEMMA InsertKeeps ==
    ASSUME NEW m, NEW cs, NEW bs, Good(m, cs, bs), NEW k \in Keys, NEW v \in Vals,
           NEW c \in Cells, m[c] = Freed,
           \A i \in DOMAIN bs[Hash[k]] : m[bs[Hash[k]][i].key] # k,
           NEW n, n = WithText(m, c, k), NEW ds, ds = WithEntry(bs, k, c, v)
    PROVE  Good(n, cs \cup {c}, ds) /\ DictOf(n, ds) = [DictOf(m, bs) EXCEPT ![k] = v]
<1> DEFINE h == Hash[k]
           e == [key |-> c, val |-> v]
           s == bs[h]
           p == Prepend(e, s)
<1>1. h \in Buckets /\ s \in Seq(Entries) /\ bs \in [Buckets -> Seq(Entries)] /\ m \in [Cells -> Keys \cup {Freed}]
      /\ cs \subseteq Cells
  BY DEF Good, Shape
<1>2. e \in Entries /\ e.key = c /\ e.val = v
  BY MadeEntry
<1>3. /\ p \in Seq(Entries) /\ 1 \in DOMAIN p /\ p[1] = e
      /\ \A i \in DOMAIN s : i + 1 \in DOMAIN p /\ p[i + 1] = s[i]
      /\ \A i \in DOMAIN p : i # 1 => i - 1 \in DOMAIN s /\ p[i] = s[i - 1]
      /\ \A i \in DOMAIN p : i \in Nat
  <2>1. /\ p \in Seq(Entries)
        /\ DOMAIN p = 1..Len(s) + 1
        /\ p[1] = e
        /\ \A i \in DOMAIN s : i + 1 \in DOMAIN p /\ p[i + 1] = s[i]
        /\ \A i \in DOMAIN p : i # 1 => i - 1 \in DOMAIN s /\ p[i] = s[i - 1]
    <3> HIDE DEF e, s
    <3> QED
      BY <1>1, <1>2, PrependIs
  <2> HIDE DEF p, s
  <2> QED
    BY <1>1, <2>1
<1>4. ds \in [Buckets -> Seq(Entries)] /\ ds[h] = p /\ \A b \in Buckets : b # h => ds[b] = bs[b]
  BY <1>1, <1>3 DEF WithEntry
<1>5. n \in [Cells -> Keys \cup {Freed}] /\ n[c] = k /\ \A d \in Cells : d # c => n[d] = m[d]
  BY <1>1 DEF WithText
<1> HIDE DEF e, p
\* The keys of the old entries are other cells and read what they did.
<1>6. \A b \in Buckets : \A i \in DOMAIN bs[b] :
         bs[b][i].key \in cs /\ bs[b][i].key # c /\ n[bs[b][i].key] = m[bs[b][i].key]
         /\ m[bs[b][i].key] \in Keys /\ Hash[m[bs[b][i].key]] = b
  BY <1>5, EntryIs
\* Each entry is the new one or an old one, in its place or the next.
<1> DEFINE From(b, i) == IF b = h THEN i - 1 ELSE i
<1>7. \A b \in Buckets : \A i \in DOMAIN ds[b] :
         \/ b = h /\ i = 1 /\ ds[b][i] = e
         \/ ~(b = h /\ i = 1) /\ From(b, i) \in DOMAIN bs[b] /\ ds[b][i] = bs[b][From(b, i)]
  BY <1>3, <1>4
<1>8. \A b \in Buckets : \A i \in DOMAIN bs[b] : \E j \in DOMAIN ds[b] : ds[b][j] = bs[b][i]
  <2> TAKE b \in Buckets
  <2> TAKE i \in DOMAIN bs[b]
  <2>1. CASE b = h
    <3>1. i + 1 \in DOMAIN ds[b] /\ ds[b][i + 1] = bs[b][i]
      BY <2>1, <1>3, <1>4
    <3> QED
      BY <3>1
  <2>2. CASE b # h
    BY <2>2, <1>4
  <2> QED
    BY <2>1, <2>2
<1>9. \A b \in Buckets : \A i \in DOMAIN ds[b] : i \in Nat
  BY <1>4
<1>10. \A b \in Buckets : \A i \in DOMAIN ds[b] :
          n[ds[b][i].key] \in Keys /\ Hash[n[ds[b][i].key]] = b
  BY <1>2, <1>5, <1>6, <1>7
<1>11. \A d : d \in cs \cup {c} <=> \E b \in Buckets : \E i \in DOMAIN ds[b] : ds[b][i].key = d
  <2>1. ASSUME NEW d \in cs PROVE \E b \in Buckets : \E i \in DOMAIN ds[b] : ds[b][i].key = d
    <3>1. PICK b \in Buckets : \E i \in DOMAIN bs[b] : bs[b][i].key = d
      BY DEF Good, Shape
    <3> QED
      BY <3>1, <1>8
  <2>2. \E b \in Buckets : \E i \in DOMAIN ds[b] : ds[b][i].key = c
    BY <1>1, <1>2, <1>3, <1>4
  <2>3. ASSUME NEW b \in Buckets, NEW i \in DOMAIN ds[b] PROVE ds[b][i].key \in cs \cup {c}
    BY <1>2, <1>6, <1>7
  <2> QED
    BY <2>1, <2>2, <2>3
<1>12. \A b, d \in Buckets : \A i \in DOMAIN ds[b], j \in DOMAIN ds[d] :
          ds[b][i].key = ds[d][j].key => b = d /\ i = j
  <2> SUFFICES ASSUME NEW b \in Buckets, NEW d \in Buckets, NEW i \in DOMAIN ds[b], NEW j \in DOMAIN ds[d],
                      ds[b][i].key = ds[d][j].key
               PROVE  b = d /\ i = j
    OBVIOUS
  <2>1. CASE b = h /\ i = 1
    <3>1. ds[d][j].key = c
      BY <2>1, <1>2, <1>3, <1>4
    <3> QED
      BY <2>1, <3>1, <1>6, <1>7
  <2>2. CASE d = h /\ j = 1
    <3>1. ds[b][i].key = c
      BY <2>2, <1>2, <1>3, <1>4
    <3> QED
      BY <2>2, <3>1, <1>6, <1>7
  <2>3. CASE ~(b = h /\ i = 1) /\ ~(d = h /\ j = 1)
    <3>1. From(b, i) \in DOMAIN bs[b] /\ From(d, j) \in DOMAIN bs[d]
          /\ bs[b][From(b, i)].key = bs[d][From(d, j)].key
      BY <2>3, <1>7
    <3>2. b = d /\ From(b, i) = From(d, j)
      BY <3>1 DEF Good, Shape
    <3>3. i \in Nat /\ j \in Nat
      BY <1>9
    <3> QED
      BY <3>2, <3>3
  <2> QED
    BY <2>1, <2>2, <2>3
<1>13. Distinct(n, ds)
  <2> SUFFICES ASSUME NEW b \in Buckets, NEW i \in DOMAIN ds[b], NEW j \in DOMAIN ds[b],
                      n[ds[b][i].key] = n[ds[b][j].key]
               PROVE  i = j
    BY DEF Distinct
  <2>1. \A x \in DOMAIN ds[b] : ~(b = h /\ x = 1) => n[ds[b][x].key] # k \/ b # h
    BY <1>6, <1>7
  <2>2. b = h => n[ds[b][1].key] = k
    BY <1>2, <1>3, <1>4, <1>5
  <2>3. CASE b = h /\ (i = 1 \/ j = 1)
    BY <2>1, <2>2, <2>3
  <2>4. CASE ~(b = h /\ (i = 1 \/ j = 1))
    <3>1. From(b, i) \in DOMAIN bs[b] /\ From(b, j) \in DOMAIN bs[b]
          /\ m[bs[b][From(b, i)].key] = m[bs[b][From(b, j)].key]
      BY <2>4, <1>6, <1>7
    <3>2. From(b, i) = From(b, j)
      BY <3>1 DEF Good, Distinct
    <3>3. i \in Nat /\ j \in Nat
      BY <1>9
    <3> QED
      BY <3>2, <3>3
  <2> QED
    BY <2>3, <2>4
<1>14. Good(n, cs \cup {c}, ds)
  <2>1. cs \cup {c} \subseteq Cells
    BY <1>1
  <2> HIDE DEF From, h, s
  <2> QED
    BY ZenonT(30), <1>4, <1>5, <1>10, <1>11, <1>12, <1>13, <2>1 DEF Good, Shape
<1> HIDE DEF From, h, s
<1>15. \A x \in Keys :
          /\ \A i \in DOMAIN ds[Hash[x]] :
                n[ds[Hash[x]][i].key] = x => DictOf(n, ds)[x] = ds[Hash[x]][i].val
          /\ (\A i \in DOMAIN ds[Hash[x]] : n[ds[Hash[x]][i].key] # x) => DictOf(n, ds)[x] = Absent
  <2>1. \A x \in Keys : Answers(n, ds, x)
    BY <1>14, GoodAnswers
  <2> QED
    BY <2>1 DEF Answers
<1>16. \A x \in Keys : DictOf(n, ds)[x] = IF x = k THEN v ELSE DictOf(m, bs)[x]
  <2> TAKE x \in Keys
  <2>1. CASE x = k
    <3>1. 1 \in DOMAIN ds[Hash[x]] /\ ds[Hash[x]][1] = e /\ n[ds[Hash[x]][1].key] = x
      BY <2>1, <1>2, <1>3, <1>4, <1>5 DEF h
    <3> QED
      BY <2>1, <3>1, <1>2, <1>15
  <2>2. CASE x # k
    <3>1. Hash[x] \in Buckets
      OBVIOUS
    <3>2. CASE \E i \in DOMAIN bs[Hash[x]] : m[bs[Hash[x]][i].key] = x
      <4>1. PICK i \in DOMAIN bs[Hash[x]] : m[bs[Hash[x]][i].key] = x
        BY <3>2
      <4>2. PICK j \in DOMAIN ds[Hash[x]] : ds[Hash[x]][j] = bs[Hash[x]][i]
        BY <3>1, <1>8
      <4>3. n[ds[Hash[x]][j].key] = x
        BY <3>1, <4>1, <4>2, <1>6
      <4>4. DictOf(m, bs)[x] = bs[Hash[x]][i].val
        BY <4>1, DictIs
      <4>5. DictOf(n, ds)[x] = ds[Hash[x]][j].val
        BY <4>3, <1>15
      <4> QED
        BY <2>2, <4>2, <4>4, <4>5
    <3>3. CASE \A i \in DOMAIN bs[Hash[x]] : m[bs[Hash[x]][i].key] # x
      <4>1. \A i \in DOMAIN ds[Hash[x]] : n[ds[Hash[x]][i].key] # x
        BY <2>2, <3>1, <3>3, <1>2, <1>5, <1>6, <1>7 DEF From, h
      <4>2. DictOf(m, bs)[x] = Absent
        BY <3>3, DictIs
      <4>3. DictOf(n, ds)[x] = Absent
        BY <4>1, <1>15
      <4> QED
        BY <2>2, <4>2, <4>3
    <3> QED
      BY <3>2, <3>3
  <2> QED
    BY <2>1, <2>2
<1> DEFINE D == DictOf(n, ds)
           E == DictOf(m, bs)
<1>17. D = [x \in Keys |-> D[x]] /\ E = [x \in Keys |-> E[x]] /\ \A x \in Keys : D[x] = IF x = k THEN v ELSE E[x]
  <2>1. D = [x \in Keys |-> D[x]]
    BY DEF DictOf
  <2>2. E = [x \in Keys |-> E[x]]
    BY DEF DictOf
  <2> QED
    BY <1>16, <2>1, <2>2
<1> HIDE DEF D, E
<1>18. D = [E EXCEPT ![k] = v]
  BY <1>17
<1> QED
  BY <1>14, <1>18 DEF D, E

\* A new value for an entry that is there.
LEMMA UpdateKeeps ==
    ASSUME NEW m, NEW cs, NEW bs, Good(m, cs, bs), NEW k \in Keys, NEW v \in Vals,
           NEW f \in DOMAIN bs[Hash[k]], m[bs[Hash[k]][f].key] = k,
           NEW ds, ds = WithValue(bs, k, f, v)
    PROVE  Good(m, cs, ds) /\ DictOf(m, ds) = [DictOf(m, bs) EXCEPT ![k] = v]
<1> DEFINE h == Hash[k]
<1>1. h \in Buckets /\ bs[h] \in Seq(Entries) /\ bs \in [Buckets -> Seq(Entries)] /\ bs[h][f] \in Entries
  BY EntryIs DEF Good, Shape
<1>2. /\ [bs[h][f] EXCEPT !.val = v] \in Entries
      /\ [bs[h][f] EXCEPT !.val = v].val = v
      /\ [bs[h][f] EXCEPT !.val = v].key = bs[h][f].key
  BY <1>1 DEF Entries
<1>3. ds = [bs EXCEPT ![h] = [bs[h] EXCEPT ![f] = [bs[h][f] EXCEPT !.val = v]]]
  BY DEF WithValue
<1>4. [bs[h] EXCEPT ![f] = [bs[h][f] EXCEPT !.val = v]] \in Seq(Entries)
  BY <1>1, <1>2
<1>5. ds \in [Buckets -> Seq(Entries)] /\ ds[h] = [bs[h] EXCEPT ![f] = [bs[h][f] EXCEPT !.val = v]]
      /\ \A b \in Buckets : b # h => ds[b] = bs[b]
  BY <1>1, <1>3, <1>4
\* Every entry has its old key in its old place, and all but one their value.
<1>6. \A b \in Buckets :
         /\ DOMAIN ds[b] = DOMAIN bs[b]
         /\ \A i \in DOMAIN bs[b] :
               /\ ds[b][i].key = bs[b][i].key
               /\ ds[b][i].val = IF b = h /\ i = f THEN v ELSE bs[b][i].val
  BY <1>1, <1>2, <1>5
<1>7. \A c : c \in cs <=> \E b \in Buckets : \E i \in DOMAIN ds[b] : ds[b][i].key = c
  <2>1. \A b \in Buckets : \A c :
           (\E i \in DOMAIN ds[b] : ds[b][i].key = c) <=> (\E i \in DOMAIN bs[b] : bs[b][i].key = c)
    BY <1>6
  <2>2. \A c : c \in cs <=> \E b \in Buckets : \E i \in DOMAIN bs[b] : bs[b][i].key = c
    BY DEF Good, Shape
  <2> TAKE c
  <2>3. ASSUME NEW b \in Buckets
        PROVE  (\E i \in DOMAIN ds[b] : ds[b][i].key = c) <=> (\E i \in DOMAIN bs[b] : bs[b][i].key = c)
    BY <2>1
  <2> QED
    BY Zenon, <2>2, <2>3
<1>8. Good(m, cs, ds)
  <2>1. \A b \in Buckets : \A i \in DOMAIN ds[b] :
           m[ds[b][i].key] \in Keys /\ Hash[m[ds[b][i].key]] = b
    BY <1>6, EntryIs
  <2>2. \A b, c \in Buckets : \A i \in DOMAIN ds[b], j \in DOMAIN ds[c] :
           ds[b][i].key = ds[c][j].key => b = c /\ i = j
    <3> TAKE b, c \in Buckets
    <3> TAKE i \in DOMAIN ds[b], j \in DOMAIN ds[c]
    <3> HAVE ds[b][i].key = ds[c][j].key
    <3>1. i \in DOMAIN bs[b] /\ j \in DOMAIN bs[c] /\ bs[b][i].key = bs[c][j].key
      BY <1>6
    <3> QED
      BY <3>1 DEF Good, Shape
  <2>3. Distinct(m, ds)
    BY <1>6 DEF Good, Distinct
  <2>4. m \in [Cells -> Keys \cup {Freed}] /\ cs \subseteq Cells /\ ds \in [Buckets -> Seq(Entries)]
    BY <1>5 DEF Good, Shape
  <2> QED
    BY ZenonT(30), <1>7, <2>1, <2>2, <2>3, <2>4 DEF Good, Shape
<1> HIDE DEF h
<1>9. \A x \in Keys : DictOf(m, ds)[x] = IF x = k THEN v ELSE DictOf(m, bs)[x]
  <2> TAKE x \in Keys
  <2>1. Answers(m, ds, x) /\ Answers(m, bs, x) /\ Hash[x] \in Buckets
    BY <1>8, GoodAnswers
  <2>2. CASE x = k
    <3>1. f \in DOMAIN ds[Hash[x]] /\ m[ds[Hash[x]][f].key] = x /\ ds[Hash[x]][f].val = v
      BY <1>6, <2>1, <2>2 DEF h
    <3> QED
      BY <2>1, <2>2, <3>1 DEF Answers
  <2>3. CASE x # k
    <3>1. CASE \E i \in DOMAIN bs[Hash[x]] : m[bs[Hash[x]][i].key] = x
      <4>1. PICK i \in DOMAIN bs[Hash[x]] : m[bs[Hash[x]][i].key] = x
        BY <3>1
      <4>2. ~(Hash[x] = h /\ i = f)
        BY <2>3, <4>1 DEF h
      <4>3. ds[Hash[x]][i].val = bs[Hash[x]][i].val /\ i \in DOMAIN ds[Hash[x]]
            /\ m[ds[Hash[x]][i].key] = x
        BY <1>6, <2>1, <4>1, <4>2
      <4> QED
        BY <2>1, <2>3, <4>1, <4>3 DEF Answers
    <3>2. CASE \A i \in DOMAIN bs[Hash[x]] : m[bs[Hash[x]][i].key] # x
      BY <1>6, <2>1, <2>3, <3>2 DEF Answers
    <3> QED
      BY <3>1, <3>2
  <2> QED
    BY <2>2, <2>3
<1> DEFINE D == DictOf(m, ds)
           E == DictOf(m, bs)
<1>10. D = [x \in Keys |-> D[x]] /\ E = [x \in Keys |-> E[x]] /\ \A x \in Keys : D[x] = IF x = k THEN v ELSE E[x]
  <2>1. D = [x \in Keys |-> D[x]]
    BY DEF DictOf
  <2>2. E = [x \in Keys |-> E[x]]
    BY DEF DictOf
  <2> QED
    BY <1>9, <2>1, <2>2
<1> HIDE DEF D, E
<1>11. D = [E EXCEPT ![k] = v]
  BY <1>10
<1> QED
  BY <1>8, <1>11 DEF D, E

\* An entry is unlinked and its copy given back.
LEMMA DeleteKeeps ==
    ASSUME NEW m, NEW cs, NEW bs, Good(m, cs, bs), NEW k \in Keys,
           NEW f \in DOMAIN bs[Hash[k]], m[bs[Hash[k]][f].key] = k,
           NEW d, d = bs[Hash[k]][f].key,
           NEW n \in [Cells -> Keys \cup {Freed}], \A c \in cs \ {d} : n[c] = m[c],
           NEW ds, ds = WithoutEntry(bs, k, f)
    PROVE  Good(n, cs \ {d}, ds) /\ DictOf(n, ds) = [DictOf(m, bs) EXCEPT ![k] = Absent]
<1> DEFINE h == Hash[k]
           w == Without(bs[h], f)
           From(b, i) == IF b = h THEN Old(i, f) ELSE i
<1>1. h \in Buckets /\ bs[h] \in Seq(Entries) /\ bs \in [Buckets -> Seq(Entries)] /\ cs \subseteq Cells
  BY DEF Good, Shape
<1>2. /\ w \in Seq(Entries)
      /\ \A i \in DOMAIN w : Old(i, f) \in DOMAIN bs[h] /\ Old(i, f) # f /\ w[i] = bs[h][Old(i, f)]
      /\ \A i, j \in DOMAIN w : Old(i, f) = Old(j, f) => i = j
      /\ \A j \in DOMAIN bs[h] : j # f => \E i \in DOMAIN w : Old(i, f) = j
  BY <1>1, WithoutIs
<1>3. ds \in [Buckets -> Seq(Entries)] /\ ds[h] = w /\ \A b \in Buckets : b # h => ds[b] = bs[b]
  BY <1>1, <1>2 DEF WithoutEntry
<1> HIDE DEF w
\* What is left are the old entries but one, each once.
<1>4. \A b \in Buckets : \A i \in DOMAIN ds[b] :
         From(b, i) \in DOMAIN bs[b] /\ ds[b][i] = bs[b][From(b, i)] /\ ~(b = h /\ From(b, i) = f)
  BY <1>2, <1>3
<1>5. \A b \in Buckets : \A i, j \in DOMAIN ds[b] : From(b, i) = From(b, j) => i = j
  BY <1>2, <1>3
<1>6. \A b \in Buckets : \A j \in DOMAIN bs[b] :
         ~(b = h /\ j = f) => \E i \in DOMAIN ds[b] : ds[b][i] = bs[b][j]
  BY <1>2, <1>3
<1> HIDE DEF From, h
<1>7. \A b \in Buckets : \A i \in DOMAIN bs[b] :
         ~(b = h /\ i = f) => bs[b][i].key \in cs \ {d} /\ n[bs[b][i].key] = m[bs[b][i].key]
  <2> TAKE b \in Buckets
  <2> TAKE i \in DOMAIN bs[b]
  <2> HAVE ~(b = h /\ i = f)
  <2>1. bs[b][i].key \in cs /\ bs[b][i].key # d
    BY <1>1 DEF Good, Shape, h
  <2> QED
    BY <2>1
<1>8. \A b \in Buckets : \A i \in DOMAIN ds[b] :
         ds[b][i].key \in cs \ {d} /\ n[ds[b][i].key] = m[ds[b][i].key]
  BY <1>4, <1>7
<1>9. \A b \in Buckets : \A i \in DOMAIN ds[b] :
         n[ds[b][i].key] \in Keys /\ Hash[n[ds[b][i].key]] = b
  BY <1>4, <1>8, EntryIs
<1>10. \A c : c \in cs \ {d} <=> \E b \in Buckets : \E i \in DOMAIN ds[b] : ds[b][i].key = c
  <2>1. ASSUME NEW c \in cs \ {d} PROVE \E b \in Buckets : \E i \in DOMAIN ds[b] : ds[b][i].key = c
    <3>1. PICK b \in Buckets : \E i \in DOMAIN bs[b] : bs[b][i].key = c
      BY DEF Good, Shape
    <3>2. PICK i \in DOMAIN bs[b] : bs[b][i].key = c
      BY <3>1
    <3>3. ~(b = h /\ i = f)
      BY <2>1, <3>2 DEF h
    <3> QED
      BY <3>2, <3>3, <1>6
  <2> QED
    BY <2>1, <1>8
<1>11. \A b, c \in Buckets : \A i \in DOMAIN ds[b], j \in DOMAIN ds[c] :
          ds[b][i].key = ds[c][j].key => b = c /\ i = j
  <2> TAKE b, c \in Buckets
  <2> TAKE i \in DOMAIN ds[b], j \in DOMAIN ds[c]
  <2> HAVE ds[b][i].key = ds[c][j].key
  <2>1. From(b, i) \in DOMAIN bs[b] /\ From(c, j) \in DOMAIN bs[c]
        /\ bs[b][From(b, i)].key = bs[c][From(c, j)].key
    BY <1>4
  <2>2. b = c /\ From(b, i) = From(c, j)
    BY <2>1 DEF Good, Shape
  <2> QED
    BY <2>2, <1>5
<1>12. Distinct(n, ds)
  <2> SUFFICES ASSUME NEW b \in Buckets, NEW i \in DOMAIN ds[b], NEW j \in DOMAIN ds[b],
                      n[ds[b][i].key] = n[ds[b][j].key]
               PROVE  i = j
    BY DEF Distinct
  <2>1. From(b, i) \in DOMAIN bs[b] /\ From(b, j) \in DOMAIN bs[b]
        /\ m[bs[b][From(b, i)].key] = m[bs[b][From(b, j)].key]
    BY <1>4, <1>8
  <2>2. From(b, i) = From(b, j)
    BY <2>1 DEF Good, Distinct
  <2> QED
    BY <2>2, <1>5
<1>13. Good(n, cs \ {d}, ds)
  <2>1. cs \ {d} \subseteq Cells
    BY <1>1
  <2> QED
    BY ZenonT(30), <1>3, <1>9, <1>10, <1>11, <1>12, <2>1 DEF Good, Shape
<1>14. \A x \in Keys : DictOf(n, ds)[x] = IF x = k THEN Absent ELSE DictOf(m, bs)[x]
  <2> TAKE x \in Keys
  <2>1. Answers(n, ds, x) /\ Answers(m, bs, x) /\ Hash[x] \in Buckets
    BY <1>13, GoodAnswers
  <2>2. CASE x = k
    <3>1. \A i \in DOMAIN ds[Hash[x]] : n[ds[Hash[x]][i].key] # x
      <4> SUFFICES ASSUME NEW i \in DOMAIN ds[Hash[x]], n[ds[Hash[x]][i].key] = x PROVE FALSE
        OBVIOUS
      <4>1. From(Hash[x], i) \in DOMAIN bs[Hash[x]] /\ From(Hash[x], i) # f
            /\ m[bs[Hash[x]][From(Hash[x], i)].key] = m[bs[Hash[x]][f].key]
        BY <1>4, <1>8, <2>1, <2>2 DEF h
      <4> QED
        BY <2>1, <2>2, <4>1 DEF Good, Distinct
    <3> QED
      BY <2>1, <2>2, <3>1 DEF Answers
  <2>3. CASE x # k
    <3>1. CASE \E i \in DOMAIN bs[Hash[x]] : m[bs[Hash[x]][i].key] = x
      <4>1. PICK i \in DOMAIN bs[Hash[x]] : m[bs[Hash[x]][i].key] = x
        BY <3>1
      <4>2. ~(Hash[x] = h /\ i = f)
        BY <2>3, <4>1 DEF h
      <4>3. PICK j \in DOMAIN ds[Hash[x]] : ds[Hash[x]][j] = bs[Hash[x]][i]
        BY <1>6, <2>1, <4>2
      <4>4. n[ds[Hash[x]][j].key] = x
        BY <1>8, <2>1, <4>1, <4>3
      <4>5. DictOf(n, ds)[x] = ds[Hash[x]][j].val /\ DictOf(m, bs)[x] = bs[Hash[x]][i].val
        BY <2>1, <4>1, <4>4 DEF Answers
      <4> QED
        BY <2>3, <4>3, <4>5
    <3>2. CASE \A i \in DOMAIN bs[Hash[x]] : m[bs[Hash[x]][i].key] # x
      <4>1. \A i \in DOMAIN ds[Hash[x]] : n[ds[Hash[x]][i].key] # x
        BY <1>4, <1>8, <2>1, <3>2
      <4> QED
        BY <2>1, <2>3, <3>2, <4>1 DEF Answers
    <3> QED
      BY <3>1, <3>2
  <2> QED
    BY <2>2, <2>3
<1> DEFINE D == DictOf(n, ds)
           E == DictOf(m, bs)
<1>15. D = [x \in Keys |-> D[x]] /\ E = [x \in Keys |-> E[x]] /\ \A x \in Keys : D[x] = IF x = k THEN Absent ELSE E[x]
  <2>1. D = [x \in Keys |-> D[x]]
    BY DEF DictOf
  <2>2. E = [x \in Keys |-> E[x]]
    BY DEF DictOf
  <2> QED
    BY <1>14, <2>1, <2>2
<1> HIDE DEF D, E
<1>16. D = [E EXCEPT ![k] = Absent]
  BY <1>15
<1> QED
  BY <1>13, <1>16 DEF D, E

\* The empty map, of a memory where nothing is copied.
LEMMA EmptyIsGood ==
    ASSUME NEW m \in [Cells -> Keys \cup {Freed}]
    PROVE  Good(m, {}, NoEntries) /\ DictOf(m, NoEntries) = [k \in Keys |-> Absent]
<1>1. NoEntries \in [Buckets -> Seq(Entries)] /\ \A b \in Buckets : NoEntries[b] = <<>> /\ DOMAIN NoEntries[b] = {}
  BY DEF NoEntries
<1>2. Good(m, {}, NoEntries)
  BY <1>1 DEF Good, Shape, Distinct
<1>3. \A k \in Keys : MatchesIn(m, NoEntries, k) = {}
  BY <1>1 DEF MatchesIn
<1> QED
  BY <1>2, <1>3 DEF DictOf

(***************************************************************************)
(* Steps                                                                   *)
(***************************************************************************)
LEMMA InvIsGood ==
    MInv <=> /\ Good(mem, copies, buckets)
             /\ ~Live => buckets = NoEntries
             /\ handle \in {"null", "live"}
BY DEF MInv

\* The operators of FeMap are those of the lemmas.
LEMMA SameNames ==
    /\ \A k \in Keys : Matches(k) = MatchesIn(mem, buckets, k) /\ First(k) = FirstIn(mem, buckets, k)
    /\ Dict = DictOf(mem, buckets)
BY DEF Matches, First, Found, Dict, Bucket, MatchesIn, FirstIn, DictOf

LEMMA SameDictNext == Dict' = DictOf(mem', buckets')
BY DEF Matches, First, Found, Dict, Bucket, MatchesIn, FirstIn, DictOf

\* A pointer the program passes reads a text.
LEMMA PointerReads ==
    ASSUME MInv, NEW p \in Pointers, p # Null PROVE p \in Cells /\ mem[p] \in Keys
BY DEF MInv, Good, Shape, Pointers, Allocated

\* The entry a lookup finds, and what it answers.
LEMMA FoundIs ==
    ASSUME MInv, NEW k \in Keys
    PROVE  /\ Found(k) => /\ First(k) \in DOMAIN Bucket(k)
                          /\ mem[Bucket(k)[First(k)].key] = k
                          /\ Dict[k] = Bucket(k)[First(k)].val
                          /\ Dict[k] \in Vals
           /\ ~Found(k) => /\ \A i \in DOMAIN Bucket(k) : mem[Bucket(k)[i].key] # k
                           /\ Dict[k] = Absent
<1>1. Good(mem, copies, buckets) /\ Hash[k] \in Buckets
  BY DEF MInv
<1>2. Answers(mem, buckets, k)
  BY <1>1, GoodAnswers
<1>3. Matches(k) = {i \in DOMAIN Bucket(k) : mem[Bucket(k)[i].key] = k} /\ Bucket(k) = buckets[Hash[k]]
  BY DEF Matches, Bucket
<1>4. ASSUME Found(k)
      PROVE  /\ First(k) \in DOMAIN Bucket(k) /\ mem[Bucket(k)[First(k)].key] = k
             /\ Dict[k] = Bucket(k)[First(k)].val /\ Dict[k] \in Vals
  <2>1. PICK i \in DOMAIN buckets[Hash[k]] : mem[buckets[Hash[k]][i].key] = k
    BY <1>3, <1>4 DEF Found
  <2>2. i = First(k) /\ Dict[k] = buckets[Hash[k]][i].val
    BY <1>2, <2>1, SameNames DEF Answers
  <2>3. buckets[Hash[k]][i].val \in Vals
    BY <1>1, EntryIs
  <2> QED
    BY <1>3, <2>1, <2>2, <2>3
<1>5. ASSUME ~Found(k)
      PROVE  (\A i \in DOMAIN Bucket(k) : mem[Bucket(k)[i].key] # k) /\ Dict[k] = Absent
  <2>1. \A i \in DOMAIN Bucket(k) : mem[Bucket(k)[i].key] # k
    BY <1>3, <1>5 DEF Found
  <2> QED
    BY <1>2, <1>3, <2>1, SameNames DEF Answers
<1> QED
  BY <1>4, <1>5

LEMMA InitHolds == Init => MInv /\ Promise!Init
<1> SUFFICES ASSUME Init PROVE MInv /\ Promise!Init
  OBVIOUS
<1>1. Good(mem, {}, NoEntries) /\ DictOf(mem, NoEntries) = [k \in Keys |-> Absent]
  BY EmptyIsGood DEF Init
<1> QED
  BY <1>1, SameNames DEF Init, MInv, Live, Promise!Init, Promise!Empty

\* Whatever the program writes to cells that are not the map's.
LEMMA WriteStep == ASSUME MInv, ProgramWrites PROVE MInv' /\ Dict' = Dict
<1>1. mem' \in [Cells -> Keys \cup {Freed}] /\ (\A c \in copies : mem'[c] = mem[c])
      /\ UNCHANGED <<copies, handle, buckets, ret>>
  BY DEF ProgramWrites
<1>2. Good(mem', copies, buckets) /\ DictOf(mem', buckets) = DictOf(mem, buckets)
  BY <1>1, WriteKeeps DEF MInv
<1> QED
  BY <1>1, <1>2, SameNames, SameDictNext DEF MInv, Live

LEMMA NewStep == ASSUME MInv, fe_map_new PROVE MInv' /\ Promise!New
<1>1. UNCHANGED <<mem, copies, ret>> /\ handle' = "live" /\ handle = "null" /\ buckets = NoEntries /\ buckets' = buckets
  BY DEF fe_map_new, MInv, Live
<1>2. copies = {}
  <2>1. \A b \in Buckets : DOMAIN buckets[b] = {}
    BY <1>1 DEF NoEntries
  <2> QED
    BY <2>1 DEF MInv, Good, Shape
<1>3. DictOf(mem, NoEntries) = [k \in Keys |-> Absent]
  BY EmptyIsGood DEF MInv, Good, Shape
<1> QED
  BY <1>1, <1>2, <1>3, SameDictNext DEF MInv, Live, Promise!New, Promise!Empty

LEMMA SetStep ==
    ASSUME MInv, NEW p \in Pointers, NEW v \in Vals, fe_map_set(p, v)
    PROVE  MInv' /\ \E k \in Keys : Promise!Set(k, v)
<1> DEFINE k == mem[p]
<1>1. k \in Keys /\ Live /\ UNCHANGED <<handle, ret>>
  BY PointerReads DEF fe_map_set, Usable
<1>2. Hash[k] \in Buckets /\ Bucket(k) = buckets[Hash[k]] /\ Good(mem, copies, buckets)
  BY <1>1 DEF Bucket, MInv
<1>3. CASE Found(k)
  <2>1. buckets' = [buckets EXCEPT ![Hash[k]][First(k)].val = v] /\ UNCHANGED <<mem, copies>>
    BY <1>3 DEF fe_map_set
  <2>2. First(k) \in DOMAIN buckets[Hash[k]] /\ mem[buckets[Hash[k]][First(k)].key] = k
    BY <1>1, <1>2, <1>3, FoundIs
  <2>3. PICK m, cs, bs, ds, key, f :
           m = mem /\ cs = copies /\ bs = buckets /\ ds = buckets' /\ key = k /\ f = First(k)
    OBVIOUS
  <2> HIDE DEF k
  <2>4. /\ Good(m, cs, bs) /\ key \in Keys /\ f \in DOMAIN bs[Hash[key]] /\ m[bs[Hash[key]][f].key] = key
        /\ ds = WithValue(bs, key, f, v)
    BY <1>1, <1>2, <2>1, <2>2, <2>3 DEF WithValue
  <2>5. Good(m, cs, ds) /\ DictOf(m, ds) = [DictOf(m, bs) EXCEPT ![key] = v]
    BY <2>4, UpdateKeeps
  <2>6. Good(mem, copies, ds) /\ DictOf(mem, ds) = [DictOf(mem, buckets) EXCEPT ![k] = v]
    BY <2>3, <2>5
  <2> QED
    BY <1>1, <2>1, <2>3, <2>6, SameNames, SameDictNext DEF MInv, Live, Promise!Set
<1>4. CASE ~Found(k)
  <2>1. PICK c \in Cells \ Allocated : Insert(k, v, c)
    BY <1>4 DEF fe_map_set
  <2>2. /\ c \in Cells /\ mem[c] = Freed
        /\ mem' = [mem EXCEPT ![c] = k] /\ copies' = copies \cup {c}
        /\ buckets' = [buckets EXCEPT ![Hash[k]] = Prepend([key |-> c, val |-> v], @)]
    BY <2>1 DEF Allocated, Insert
  <2>3. \A i \in DOMAIN buckets[Hash[k]] : mem[buckets[Hash[k]][i].key] # k
    BY <1>1, <1>2, <1>4, FoundIs
  <2>4. PICK m, cs, bs, n, ds, key :
           m = mem /\ cs = copies /\ bs = buckets /\ n = mem' /\ ds = buckets' /\ key = k
    OBVIOUS
  <2> HIDE DEF k
  <2>5. /\ Good(m, cs, bs) /\ key \in Keys /\ m[c] = Freed
        /\ \A i \in DOMAIN bs[Hash[key]] : m[bs[Hash[key]][i].key] # key
        /\ n = WithText(m, c, key)
        /\ ds = WithEntry(bs, key, c, v)
    BY <1>1, <1>2, <2>2, <2>3, <2>4 DEF WithText, WithEntry
  <2>6. Good(n, cs \cup {c}, ds) /\ DictOf(n, ds) = [DictOf(m, bs) EXCEPT ![key] = v]
    BY <2>5, InsertKeeps
  <2>7. Good(n, copies \cup {c}, ds) /\ DictOf(n, ds) = [DictOf(mem, buckets) EXCEPT ![k] = v]
    BY <2>4, <2>6
  <2> QED
    BY <1>1, <2>2, <2>4, <2>7, SameNames, SameDictNext DEF MInv, Live, Promise!Set
<1> QED
  BY <1>3, <1>4

\* Asking changes nothing, and a null map or key answers like an absent one.
LEMMA AskStep ==
    ASSUME MInv, NEW p \in Pointers, fe_map_get(p) \/ fe_map_has(p)
    PROVE  MInv' /\ \/ Promise!NoKey
                    \/ \E k \in Keys : Promise!Get(k) \/ Promise!Has(k)
<1>1. UNCHANGED <<mem, copies, handle, buckets>>
  BY DEF fe_map_get, fe_map_has
<1>2. MInv' /\ Dict' = Dict
  BY <1>1, SameNames, SameDictNext DEF MInv, Live
<1>3. CASE ~Usable(p)
  BY <1>1, <1>2, <1>3 DEF fe_map_get, fe_map_has, Promise!NoKey
<1>4. CASE Usable(p)
  <2>1. mem[p] \in Keys
    BY <1>4, PointerReads DEF Usable
  <2>2. CASE fe_map_get(p)
    <3>1. Promise!Get(mem[p])
      BY <1>1, <1>2, <1>4, <2>1, <2>2, FoundIs DEF fe_map_get, Promise!Get
    <3> QED
      BY <1>2, <2>1, <3>1
  <2>3. CASE fe_map_has(p)
    <3>1. Promise!Has(mem[p])
      BY <1>1, <1>2, <1>4, <2>1, <2>3, FoundIs DEF fe_map_has, Promise!Has
    <3> QED
      BY <1>2, <2>1, <3>1
  <2> QED
    BY <2>2, <2>3
<1> QED
  BY <1>3, <1>4

LEMMA DeleteStep ==
    ASSUME MInv, NEW p \in Pointers, fe_map_delete(p)
    PROVE  MInv' /\ \E k \in Keys : Promise!Delete(k)
<1> DEFINE k == mem[p]
           d == buckets[Hash[k]][First(k)].key
<1>1. k \in Keys /\ Live /\ Found(k) /\ UNCHANGED <<handle, ret>>
  BY PointerReads DEF fe_map_delete, Usable
<1>2. Hash[k] \in Buckets /\ Bucket(k) = buckets[Hash[k]] /\ Good(mem, copies, buckets)
  BY <1>1 DEF Bucket, MInv
<1>3. First(k) \in DOMAIN buckets[Hash[k]] /\ mem[d] = k
  BY <1>1, <1>2, FoundIs
<1>4. /\ mem' = [c \in Cells |-> IF c \in {d} THEN Freed ELSE mem[c]]
      /\ copies' = copies \ {d}
      /\ buckets' = [buckets EXCEPT ![Hash[k]] = Without(@, First(k))]
  BY <1>2 DEF fe_map_delete, Release
<1>5. PICK m, cs, bs, n, ds, key, f, e :
         /\ m = mem /\ cs = copies /\ bs = buckets /\ n = mem' /\ ds = buckets'
         /\ key = k /\ f = First(k) /\ e = d
  OBVIOUS
<1>6. n \in [Cells -> Keys \cup {Freed}] /\ \A c \in copies \ {d} : n[c] = mem[c]
  BY <1>2, <1>4, <1>5 DEF Good, Shape
<1>7. e = bs[Hash[key]][f].key
  BY <1>5
<1> HIDE DEF k, d
<1>8. /\ Good(m, cs, bs) /\ key \in Keys /\ f \in DOMAIN bs[Hash[key]] /\ m[bs[Hash[key]][f].key] = key
      /\ n \in [Cells -> Keys \cup {Freed}] /\ \A c \in cs \ {e} : n[c] = m[c]
      /\ ds = WithoutEntry(bs, key, f)
  BY <1>1, <1>2, <1>3, <1>4, <1>5, <1>6, <1>7 DEF WithoutEntry
<1>9. Good(n, cs \ {e}, ds) /\ DictOf(n, ds) = [DictOf(m, bs) EXCEPT ![key] = Absent]
  BY <1>7, <1>8, DeleteKeeps
<1>10. Good(n, copies \ {d}, ds) /\ DictOf(n, ds) = [DictOf(mem, buckets) EXCEPT ![k] = Absent]
  BY <1>5, <1>9
<1> HIDE DEF d
<1> QED
  BY <1>1, <1>4, <1>5, <1>10, SameNames, SameDictNext DEF MInv, Live, Promise!Delete

LEMMA CopiesAreOwned == ASSUME MInv PROVE copies = Owned
<1>1. \A c : c \in Owned <=> \E b \in Buckets : \E i \in DOMAIN buckets[b] : buckets[b][i].key = c
  BY DEF Owned, OwnedBy
<1>2. \A c : c \in copies <=> \E b \in Buckets : \E i \in DOMAIN buckets[b] : buckets[b][i].key = c
  BY DEF MInv, Good, Shape
<1>3. \A c : c \in copies <=> c \in Owned
  BY <1>1, <1>2
<1> QED
  BY <1>3

LEMMA FreeStep == ASSUME MInv, fe_map_free PROVE MInv' /\ Promise!Free
<1>1. copies = Owned
  BY CopiesAreOwned
<1>2. /\ mem' = [c \in Cells |-> IF c \in Owned THEN Freed ELSE mem[c]]
      /\ copies' = copies \ Owned /\ handle' = "null" /\ buckets' = NoEntries /\ ret' = ret
  BY DEF fe_map_free, Release
<1>3. copies' = {} /\ mem' \in [Cells -> Keys \cup {Freed}]
  BY <1>1, <1>2 DEF MInv, Good, Shape
<1>4. Good(mem', {}, NoEntries) /\ DictOf(mem', NoEntries) = [k \in Keys |-> Absent]
  BY <1>3, EmptyIsGood
<1> QED
  BY <1>2, <1>3, <1>4, SameDictNext DEF MInv, Live, Promise!Free, Promise!Empty

LEMMA StutterStep == ASSUME MInv, UNCHANGED vars PROVE MInv' /\ UNCHANGED Promise!vars
BY SameNames, SameDictNext DEF vars, MInv, Live, Promise!vars

LEMMA StepHolds == MInv /\ [Next]_vars => MInv' /\ [Promise!Next]_(Promise!vars)
<1> SUFFICES ASSUME MInv, [Next]_vars PROVE MInv' /\ [Promise!Next]_(Promise!vars)
  OBVIOUS
<1>1. CASE ProgramWrites
  BY <1>1, WriteStep DEF ProgramWrites, Promise!vars
<1>2. CASE fe_map_new
  BY <1>2, NewStep DEF Promise!Next
<1>3. ASSUME NEW p \in Pointers, NEW v \in Vals, fe_map_set(p, v) PROVE MInv' /\ Promise!Next
  BY <1>3, SetStep DEF Promise!Next
<1>4. ASSUME NEW p \in Pointers, fe_map_get(p) \/ fe_map_has(p) PROVE MInv' /\ Promise!Next
  BY <1>4, AskStep DEF Promise!Next
<1>5. ASSUME NEW p \in Pointers, fe_map_delete(p) PROVE MInv' /\ Promise!Next
  BY <1>5, DeleteStep DEF Promise!Next
<1>6. CASE fe_map_free
  BY <1>6, FreeStep DEF Promise!Next
<1>7. CASE UNCHANGED vars
  BY <1>7, StutterStep
<1> QED
  BY <1>1, <1>2, <1>3, <1>4, <1>5, <1>6, <1>7 DEF Next

LEMMA Invariant == Spec => []MInv
BY InitHolds, StepHolds, PTL DEF Spec

(***************************************************************************)
(* Theorems of the map                                                     *)
(***************************************************************************)
LEMMA InvIsWellFormed == MInv => WellFormed
<1> SUFFICES ASSUME MInv PROVE WellFormed
  OBVIOUS
<1>1. copies = Owned
  BY CopiesAreOwned
<1> QED
  BY <1>1 DEF MInv, Good, Shape, Distinct, WellFormed

\* No sequence of map calls and writes to the program's own strings leaks a
\* key, frees one twice, or puts a text into a bucket twice (fermi_rt.c
\* 358-410).
THEOREM MapWellFormed == Spec => []WellFormed
BY Invariant, InvIsWellFormed, PTL

\* Every run of the map is one of the partial function Dictionary describes,
\* whatever the hash function makes collide.
THEOREM MapImplementsDictionary == Spec => ImplementsDictionary
<1>1. MInv /\ [Next]_vars => [Promise!Next]_(Promise!vars)
  BY StepHolds
<1>2. Init => Promise!Init
  BY InitHolds
<1> QED
  BY <1>1, <1>2, Invariant, PTL DEF Spec, ImplementsDictionary, Promise!Spec

(***************************************************************************)
(* The program and its strings                                             *)
(***************************************************************************)
USE MarkAssumption, LiteralAssumption, VarAssumption

\* The variables whose text the program has not given away.
Known(v) == Declared(v) /\ v \notin stale

SlotType ==
    /\ slot \in [Vars -> Cells \cup {Null, Undeclared}]
    /\ val \in [Vars -> Keys \cup {Null}]
    /\ shares \in [Immutable -> Mutable \cup {NoVar}]

Reads ==
    \A v \in Vars : Known(v) =>
        IF slot[v] = Null THEN val[v] = Null
        ELSE mem[slot[v]] = val[v] /\ mem[slot[v]] # Freed /\ slot[v] \notin copies

\* A plain str is in no buffer but the one it is said to share: this is why
\* freeing a buffer takes its text from nobody else.
Sharing == \A u \in Immutable, w \in Buffers : Known(u) /\ slot[w] = slot[u] => shares[u] = w

LiteralsStay == \A k \in Keys : Literal[k] \notin copies

\* The inductive invariant, without the map's.
SOwn == SlotType /\ Reads /\ Sharing /\ LiteralsStay /\ BuffersHaveOneOwner
SInv == MInv /\ SOwn

LEMMA CellKinds ==
    /\ Null \notin Cells /\ Undeclared \notin Cells /\ Undeclared # Null
    /\ NoVar \notin Mutable /\ Mutable \cap Immutable = {}
    /\ \A k \in Keys : Literal[k] \in Cells
    /\ Freed \notin Keys
<1>1. \A k \in Keys : Literal[k] \in Cells
  OBVIOUS
<1> QED
  BY <1>1

LEMMA InvTypes ==
    ASSUME SInv
    PROVE  /\ mem \in [Cells -> Keys \cup {Freed}]
           /\ copies \subseteq Cells
           /\ \A c \in copies : mem[c] \in Keys
           /\ SlotType
<1>1. Shape(mem, copies, buckets) /\ SlotType
  BY DEF SInv, SOwn, MInv, Good
<1>2. ASSUME NEW c \in copies PROVE mem[c] \in Keys
  <2>1. \E b \in Buckets : \E i \in DOMAIN buckets[b] : buckets[b][i].key = c
    BY <1>1 DEF Shape
  <2> QED
    BY <1>1, <2>1 DEF Shape
<1> QED
  BY <1>1, <1>2 DEF Shape

(***************************************************************************)
(* Evaluating a right-hand side, and copying what it points to.            *)
(***************************************************************************)
\* What an evaluation e of src gives.
Evaluated(src, e) ==
    /\ e.mem \in [Cells -> Keys \cup {Freed}]
    /\ \A c \in Cells : mem[c] # Freed => e.mem[c] = mem[c]
    /\ e.ptr \in Cells \cup {Null}
    /\ ~IsStale(src) => IF e.ptr = Null THEN TextOf(src) = Null
                        ELSE e.mem[e.ptr] = TextOf(src) /\ e.mem[e.ptr] # Freed /\ e.ptr \notin copies
    /\ ~IsStale(src) => \A w \in Buffers : slot[w] = e.ptr => BufferOf(src) = w
    /\ TextOf(src) \in Keys \cup {Null}
    /\ BufferOf(src) \in Mutable \cup {NoVar}

LEMMA EvaluationsAre ==
    ASSUME SInv, NEW src \in Sources, src.kind = "var" => Declared(src.name),
           NEW e \in Evaluations(src)
    PROVE  Evaluated(src, e)
<1>1. mem \in [Cells -> Keys \cup {Freed}] /\ SlotType /\ \A c \in copies : mem[c] \in Keys
  BY InvTypes
<1>2. CASE src \in [kind : {"literal", "fresh"}, text : Keys]
  <2>1. src.text \in Keys /\ src.kind # "var" /\ TextOf(src) = src.text /\ ~IsStale(src) /\ BufferOf(src) = NoVar
    BY <1>2 DEF TextOf, IsStale, BufferOf
  <2>2. CASE src.kind = "literal"
    <3>1. e = [mem |-> mem, ptr |-> Literal[src.text]]
      BY <2>2 DEF Evaluations
    <3>2. e.mem = mem /\ e.ptr = Literal[src.text]
      BY <3>1
    <3>3. mem[Literal[src.text]] = src.text /\ Literal[src.text] \notin copies
          /\ \A w \in Buffers : slot[w] # Literal[src.text]
      BY <2>1 DEF SInv, SOwn, LiteralsStay, BuffersHaveOneOwner, Literals
    <3> QED
      BY <1>1, <2>1, <3>2, <3>3, CellKinds DEF Evaluated
  <2>3. CASE src.kind = "fresh"
    <3>1. PICK c \in FreeCells(mem) : e = Written(mem, c, src.text)
      BY <2>3 DEF Evaluations
    <3>2. e.mem = [mem EXCEPT ![c] = src.text] /\ e.ptr = c /\ c \in Cells /\ mem[c] = Freed
      BY <3>1 DEF FreeCells, Written
    <3>3. c \notin copies /\ \A w \in Buffers : slot[w] # c
      BY <1>1, <3>2, CellKinds DEF SInv, SOwn, BuffersHaveOneOwner
    <3> QED
      BY <1>1, <2>1, <3>2, <3>3, CellKinds DEF Evaluated
  <2> QED
    BY <1>2, <2>2, <2>3
<1>3. CASE src \in [kind : {"var"}, name : Vars]
  <2>1. src.name \in Vars /\ src.kind = "var" /\ TextOf(src) = val[src.name] /\ Declared(src.name)
        /\ (IsStale(src) <=> src.name \in stale)
    BY <1>3 DEF TextOf, IsStale
  <2>2. e.mem = mem /\ e.ptr = slot[src.name]
    <3>1. e = [mem |-> mem, ptr |-> slot[src.name]]
      BY <2>1 DEF Evaluations
    <3> QED
      BY <3>1
  <2>3. e.ptr \in Cells \cup {Null} /\ TextOf(src) \in Keys \cup {Null}
    BY <1>1, <2>1, <2>2 DEF SlotType, Declared
  <2>4. BufferOf(src) = IF src.name \in Mutable THEN src.name ELSE shares[src.name]
    BY <2>1 DEF BufferOf
  <2>5. BufferOf(src) \in Mutable \cup {NoVar}
    BY <1>1, <2>1, <2>4 DEF SlotType, Vars
  <2>6. ~IsStale(src) => IF e.ptr = Null THEN TextOf(src) = Null
                         ELSE mem[e.ptr] = TextOf(src) /\ mem[e.ptr] # Freed /\ e.ptr \notin copies
    BY <2>1, <2>2 DEF SInv, SOwn, Reads, Known
  <2>7. ASSUME ~IsStale(src), NEW w \in Buffers, slot[w] = e.ptr PROVE BufferOf(src) = w
    <3>1. CASE src.name \in Mutable
      <4>1. src.name \in Buffers
        BY <2>2, <2>7, <3>1 DEF Buffers
      <4> QED
        BY <2>2, <2>4, <2>7, <3>1, <4>1 DEF SInv, SOwn, BuffersHaveOneOwner
    <3>2. CASE src.name \notin Mutable
      BY <2>1, <2>2, <2>4, <2>7, <3>2 DEF SInv, SOwn, Sharing, Known, Vars
    <3> QED
      BY <3>1, <3>2
  <2> QED
    BY <1>1, <2>2, <2>3, <2>5, <2>6, <2>7 DEF Evaluated
<1> QED
  BY <1>2, <1>3 DEF Sources

\* What is copied is no null pointer.
LEMMA PointerInCells ==
    ASSUME SInv, NEW src \in Sources, Copyable(src), NEW e \in Evaluations(src), Evaluated(src, e)
    PROVE  e.ptr \in Cells
<1>1. CASE src.kind = "var"
  <2>1. e = [mem |-> mem, ptr |-> slot[src.name]]
    BY <1>1 DEF Evaluations
  <2> QED
    BY <1>1, <2>1 DEF Copyable
<1>2. CASE src.kind # "var"
  <2>1. TextOf(src) \in Keys /\ ~IsStale(src)
    BY <1>2 DEF Sources, TextOf, IsStale
  <2> QED
    BY <2>1 DEF Evaluated
<1> QED
  BY <1>1, <1>2

\* A copy is in a cell that was free; it reads the text it was made of unless
\* that was freed.
Copied(m, p, r, c, x) ==
    /\ m[c] = Freed /\ r.ptr = c /\ r.mem = [m EXCEPT ![c] = x]
    /\ m[p] # Freed => x = m[p]

LEMMA CopyIs ==
    ASSUME NEW m \in [Cells -> Keys \cup {Freed}], NEW p \in Cells, NEW r \in emit_mut_str_copy(m, p)
    PROVE  \E c \in Cells, x \in Keys : Copied(m, p, r, c, x)
<1>1. PICK c \in FreeCells(m), x \in TextsAt(m, p) : r = Written(m, c, x)
  BY DEF emit_mut_str_copy
<1>2. c \in Cells /\ m[c] = Freed /\ x \in Keys /\ (m[p] # Freed => x = m[p])
  BY CellKinds DEF FreeCells, TextsAt
<1> QED
  BY <1>1, <1>2 DEF Written, Copied

(***************************************************************************)
(* A mut str v is given text t, in a copy x of it at c, once its old       *)
(* buffer, if any, was freed.                                              *)
(***************************************************************************)
MutGets(v, old, c, x, t) ==
    /\ slot' = [slot EXCEPT ![v] = c]
    /\ val' = [val EXCEPT ![v] = t]
    /\ shares' = [u \in Immutable |-> IF shares[u] = v THEN NoVar ELSE shares[u]]
    /\ mem' \in [Cells -> Keys \cup {Freed}]
    /\ mem'[c] = x
    /\ \A d \in Cells : d # c /\ d # old /\ mem[d] # Freed => mem'[d] = mem[d]
    /\ mem[c] = Freed \/ c = old
    /\ old # Null => v \in Buffers /\ old = slot[v]
    /\ v \notin stale' => x = t
    /\ \A w \in Vars : w # v /\ w \notin stale' =>
          w \notin stale /\ (old # Null /\ w \in Immutable => shares[w] # v)
    /\ UNCHANGED <<copies, handle, buckets, ret>>

LEMMA MutGetsHolds ==
    ASSUME SInv, NEW v \in Mutable, NEW old \in Cells \cup {Null}, NEW c \in Cells, NEW x \in Keys,
           NEW t \in Keys \cup {Null}, MutGets(v, old, c, x, t)
    PROVE  SOwn' /\ ProgramWrites
<1>1. mem \in [Cells -> Keys \cup {Freed}] /\ SlotType /\ \A d \in copies : mem[d] \in Keys
  BY InvTypes
<1>2. v \in Vars /\ v \notin Immutable
  BY CellKinds DEF Vars
\* The old buffer and the new one are nobody else's.
<1>3. \A d \in {old, c} \ {Null} :
         /\ d \notin copies
         /\ \A k \in Keys : Literal[k] # d
         /\ \A w \in Buffers : w # v => slot[w] # d
         /\ \A w \in Vars : w # v /\ Declared(w) /\ w \notin stale' => slot[w] # d
  <2>1. ASSUME NEW d \in Cells, mem[d] = Freed
        PROVE  /\ d \notin copies
               /\ \A k \in Keys : Literal[k] # d
               /\ \A w \in Buffers : slot[w] # d
               /\ \A w \in Vars : Declared(w) /\ w \notin stale => slot[w] # d
    <3>1. d \notin copies
      BY <1>1, <2>1, CellKinds
    <3>2. (\A k \in Keys : Literal[k] # d) /\ \A w \in Buffers : slot[w] # d
      BY <2>1, CellKinds DEF SInv, SOwn, BuffersHaveOneOwner
    <3>3. \A w \in Vars : Declared(w) /\ w \notin stale => slot[w] # d
      BY <2>1, CellKinds DEF SInv, SOwn, Reads, Known
    <3> QED
      BY <3>1, <3>2, <3>3
  <2>2. ASSUME old # Null
        PROVE  /\ old \notin copies
               /\ \A k \in Keys : Literal[k] # old
               /\ \A w \in Buffers : w # v => slot[w] # old
               /\ \A w \in Vars : w # v /\ Declared(w) /\ w \notin stale' => slot[w] # old
    <3>1. v \in Buffers /\ old = slot[v]
      BY <2>2 DEF MutGets
    <3>2. old \notin copies /\ (\A k \in Keys : Literal[k] # old) /\ \A w \in Buffers : w # v => slot[w] # old
      BY <3>1 DEF SInv, SOwn, BuffersHaveOneOwner, Literals
    <3>3. ASSUME NEW w \in Vars, w # v, Declared(w), w \notin stale' PROVE slot[w] # old
      <4>1. w \notin stale /\ (w \in Immutable => shares[w] # v)
        BY <2>2, <3>3 DEF MutGets
      <4>2. CASE w \in Immutable
        BY <3>1, <3>3, <4>1, <4>2 DEF SInv, SOwn, Sharing, Known
      <4>3. CASE w \in Mutable
        <5>1. slot[w] \in Cells => w \in Buffers
          BY <4>3 DEF Buffers
        <5> QED
          BY <2>2, <3>2, <3>3, <5>1
      <4> QED
        BY <4>2, <4>3 DEF Vars
    <3> QED
      BY <3>2, <3>3
  <2>3. mem[c] = Freed \/ (c = old /\ old # Null)
    BY CellKinds DEF MutGets
  <2>4. \A w \in Vars : w # v /\ w \notin stale' => w \notin stale
    BY DEF MutGets
  <2> QED
    BY <2>1, <2>2, <2>3, <2>4
<1>4. ProgramWrites
  <2>1. ASSUME NEW d \in copies PROVE mem'[d] = mem[d]
    <3>1. d \in Cells /\ mem[d] # Freed /\ d # c /\ d # old
      BY <1>1, <1>3, <2>1, InvTypes, CellKinds
    <3> QED
      BY <3>1 DEF MutGets
  <2> QED
    BY <2>1 DEF MutGets, ProgramWrites
<1>5. SlotType'
  BY <1>1, <1>2 DEF MutGets, SlotType
\* Whoever is not v keeps slot and value, and what is there.
<1>6. \A w \in Vars : w # v => slot'[w] = slot[w] /\ val'[w] = val[w]
  BY <1>1, <1>2 DEF MutGets, SlotType
<1>7. slot'[v] = c /\ val'[v] = t
  BY <1>1, <1>2 DEF MutGets, SlotType
<1>8. \A d \in Cells : d # c /\ d # old /\ mem[d] # Freed => mem'[d] = mem[d]
  BY DEF MutGets
<1>9. copies' = copies /\ mem'[c] = x
  BY DEF MutGets
<1>10. Reads'
  <2> SUFFICES ASSUME NEW w \in Vars, slot'[w] # Undeclared, w \notin stale'
               PROVE  IF slot'[w] = Null THEN val'[w] = Null
                      ELSE mem'[slot'[w]] = val'[w] /\ mem'[slot'[w]] # Freed /\ slot'[w] \notin copies'
    BY DEF Reads, Known, Declared
  <2>1. CASE w = v
    BY <1>3, <1>7, <1>9, <2>1, CellKinds DEF MutGets
  <2>2. CASE w # v
    <3>1. slot'[w] = slot[w] /\ val'[w] = val[w] /\ Known(w)
      BY <1>6, <2>2 DEF Known, Declared, MutGets
    <3>2. CASE slot[w] = Null
      BY <3>1, <3>2 DEF SInv, SOwn, Reads
    <3>3. CASE slot[w] # Null
      <4>1. mem[slot[w]] = val[w] /\ mem[slot[w]] # Freed /\ slot[w] \notin copies
        BY <3>1, <3>3 DEF SInv, SOwn, Reads
      <4>2. slot[w] \in Cells /\ slot[w] # c /\ slot[w] # old
        BY <1>1, <1>3, <2>2, <3>1, <3>3, CellKinds DEF SlotType, Known, Declared
      <4> QED
        BY <1>8, <1>9, <3>1, <3>3, <4>1, <4>2
    <3> QED
      BY <3>2, <3>3
  <2> QED
    BY <2>1, <2>2
<1>11. Buffers' = Buffers \cup {v}
  <2>1. \A w \in Mutable : slot'[w] \in Cells <=> (w = v \/ slot[w] \in Cells)
    BY <1>6, <1>7 DEF Vars
  <2> QED
    BY <2>1 DEF Buffers
<1>12. Sharing'
  <2> SUFFICES ASSUME NEW u \in Immutable, NEW w \in Buffers', slot'[u] # Undeclared, u \notin stale',
                      slot'[w] = slot'[u]
               PROVE  shares'[u] = w
    BY DEF Sharing, Known, Declared
  <2>1. u \in Vars /\ u # v /\ slot'[u] = slot[u] /\ Known(u)
    BY <1>2, <1>6 DEF Known, Declared, MutGets, Vars
  <2>2. w # v
    BY <1>3, <1>7, <2>1, CellKinds DEF Known
  <2>3. w \in Buffers /\ slot'[w] = slot[w]
    BY <1>6, <1>11, <2>2 DEF Buffers, Vars
  <2>4. shares[u] = w
    BY <2>1, <2>3 DEF SInv, SOwn, Sharing
  <2> QED
    BY <2>2, <2>4 DEF MutGets
<1>13. LiteralsStay'
  BY <1>9 DEF SInv, SOwn, LiteralsStay
<1>14. BuffersHaveOneOwner'
  <2>1. \A w \in Buffers' : mem'[slot'[w]] # Freed /\ slot'[w] \notin Literals \cup copies'
    <3> TAKE w \in Buffers'
    <3>1. CASE w = v
      BY <1>3, <1>7, <1>9, <3>1, CellKinds DEF Literals
    <3>2. CASE w # v
      <4>1. w \in Buffers /\ slot'[w] = slot[w] /\ slot[w] \in Cells
        BY <1>6, <1>11, <3>2 DEF Buffers, Vars
      <4>2. mem[slot[w]] # Freed /\ slot[w] \notin Literals \cup copies
        BY <4>1 DEF SInv, SOwn, BuffersHaveOneOwner
      <4>3. slot[w] # c /\ slot[w] # old
        BY <1>3, <3>2, <4>1, CellKinds
      <4> QED
        BY <1>8, <1>9, <4>1, <4>2, <4>3
    <3> QED
      BY <3>1, <3>2
  <2>2. \A w, z \in Buffers' : slot'[w] = slot'[z] => w = z
    <3> TAKE w, z \in Buffers'
    <3>1. \A y \in Buffers' : y # v => y \in Buffers /\ slot'[y] = slot[y] /\ slot[y] # c
      BY <1>3, <1>6, <1>11, CellKinds DEF Buffers, Vars
    <3> QED
      BY <1>7, <3>1 DEF SInv, SOwn, BuffersHaveOneOwner
  <2>3. \A k \in Keys : mem'[Literal[k]] = k
    <3> TAKE k \in Keys
    <3>1. mem[Literal[k]] = k /\ Literal[k] # c /\ Literal[k] # old /\ Literal[k] \in Cells
      BY <1>3, CellKinds DEF SInv, SOwn, BuffersHaveOneOwner
    <3> QED
      BY <1>8, <3>1, CellKinds
  <2> QED
    BY <2>1, <2>2, <2>3 DEF BuffersHaveOneOwner, Literals
<1> QED
  BY <1>4, <1>5, <1>10, <1>12, <1>13, <1>14 DEF SOwn

(***************************************************************************)
(* Statements                                                              *)
(***************************************************************************)
LEMMA DeclareMutHolds ==
    ASSUME SInv, NEW v \in Mutable, NEW src \in Sources, DeclareMut(v, src) PROVE SOwn' /\ ProgramWrites
<1>1. src.kind = "var" => slot[src.name] \in Cells /\ Declared(src.name)
  BY CellKinds DEF DeclareMut, Copyable, Declared
<1>2. PICK e \in Evaluations(src) : \E r \in emit_mut_str_copy(e.mem, e.ptr) : Store(v, r)
  BY DEF DeclareMut
<1>3. Evaluated(src, e)
  BY <1>1, EvaluationsAre
<1>4. e.ptr \in Cells
  BY <1>1, <1>3, PointerInCells DEF DeclareMut
<1>5. PICK r \in emit_mut_str_copy(e.mem, e.ptr) : Store(v, r)
  BY <1>2
<1>6. PICK c \in Cells, x \in Keys : Copied(e.mem, e.ptr, r, c, x)
  BY <1>3, <1>4, CopyIs DEF Evaluated
<1>7. mem' = [e.mem EXCEPT ![c] = x] /\ slot' = [slot EXCEPT ![v] = c]
  BY <1>5, <1>6 DEF Store, Copied
<1>8. mem[c] = Freed
  BY <1>3, <1>6 DEF Evaluated, Copied
<1>9. mem' \in [Cells -> Keys \cup {Freed}] /\ mem'[c] = x
      /\ \A d \in Cells : d # c /\ mem[d] # Freed => mem'[d] = mem[d]
  BY <1>3, <1>7 DEF Evaluated
<1>10. v \notin stale' => x = TextOf(src)
  BY <1>3, <1>4, <1>6, CellKinds DEF Evaluated, DeclareMut, Copied
<1>11. MutGets(v, Null, c, x, TextOf(src))
  BY <1>7, <1>8, <1>9, <1>10 DEF MutGets, DeclareMut
<1> QED
  BY <1>3, <1>11, MutGetsHolds DEF Evaluated

LEMMA AssignMutHolds ==
    ASSUME SInv, NEW v \in Mutable, NEW src \in Sources, AssignMut(v, src) PROVE SOwn' /\ ProgramWrites
<1> DEFINE old == slot[v]
<1>1. src.kind = "var" => slot[src.name] \in Cells /\ Declared(src.name)
  BY CellKinds DEF AssignMut, Copyable, Declared
<1>2. old \in Cells \cup {Null} /\ (old # Null => v \in Buffers)
  BY InvTypes DEF AssignMut, SlotType, Declared, Buffers, Vars
<1>3. PICK e \in Evaluations(src) : \E r \in emit_mut_str_replace(e.mem, old, e.ptr) : Store(v, r)
  BY DEF AssignMut
<1>4. Evaluated(src, e)
  BY <1>1, EvaluationsAre
<1>5. e.ptr \in Cells
  BY <1>1, <1>4, PointerInCells DEF AssignMut
<1> DEFINE m == IF old = Null THEN e.mem ELSE [e.mem EXCEPT ![old] = Freed]
<1>6. m \in [Cells -> Keys \cup {Freed}]
  BY <1>2, <1>4 DEF Evaluated
<1>7. \A d \in Cells : m[d] = IF d = old THEN Freed ELSE e.mem[d]
  BY <1>2, <1>4, CellKinds DEF Evaluated
<1>8. PICK r \in emit_mut_str_copy(m, e.ptr) : Store(v, r)
  BY <1>3 DEF emit_mut_str_replace
<1> HIDE DEF m
<1>9. PICK c \in Cells, x \in Keys : Copied(m, e.ptr, r, c, x)
  BY <1>5, <1>6, CopyIs
<1>10. mem' = [m EXCEPT ![c] = x] /\ slot' = [slot EXCEPT ![v] = c]
  BY <1>8, <1>9 DEF Store, Copied
<1>11. mem[c] = Freed \/ c = old
  BY <1>4, <1>7, <1>9 DEF Evaluated, Copied
<1>12. mem' \in [Cells -> Keys \cup {Freed}] /\ mem'[c] = x
       /\ \A d \in Cells : d # c /\ d # old /\ mem[d] # Freed => mem'[d] = mem[d]
  BY <1>4, <1>6, <1>7, <1>10 DEF Evaluated
<1>13. ASSUME v \notin stale' PROVE x = TextOf(src)
  <2>1. ~IsStale(src) /\ BufferOf(src) # v
    BY <1>13 DEF AssignMut, Bereaved
  <2>2. e.ptr # old
    BY <1>2, <1>4, <1>5, <2>1, CellKinds DEF Evaluated
  <2> QED
    BY <1>4, <1>5, <1>7, <1>9, <2>1, <2>2, CellKinds DEF Evaluated, Copied
<1>14. \A w \in Vars : w # v /\ w \notin stale' => w \notin stale /\ (w \in Immutable => shares[w] # v)
  BY DEF AssignMut, Bereaved
<1>15. MutGets(v, old, c, x, TextOf(src))
  BY <1>2, <1>10, <1>11, <1>12, <1>13, <1>14 DEF MutGets, AssignMut
<1> HIDE DEF old
<1> QED
  BY <1>2, <1>4, <1>15, MutGetsHolds DEF Evaluated

LEMMA DeclareMutEmptyHolds ==
    ASSUME SInv, NEW v \in Mutable, DeclareMutEmpty(v) PROVE SOwn' /\ ProgramWrites
<1>1. mem \in [Cells -> Keys \cup {Freed}] /\ SlotType
  BY InvTypes
<1>2. v \in Vars /\ v \notin Immutable /\ UNCHANGED <<mem, copies, handle, buckets, ret>>
  BY CellKinds DEF Vars, DeclareMutEmpty, vars
<1>3. ProgramWrites
  BY <1>1, <1>2 DEF ProgramWrites
<1>4. SlotType' /\ \A w \in Vars : slot'[w] = (IF w = v THEN Null ELSE slot[w])
                                   /\ val'[w] = (IF w = v THEN Null ELSE val[w])
  BY <1>1, <1>2 DEF DeclareMutEmpty, SlotType
<1>5. \A w \in Vars : w # v /\ w \notin stale' => w \notin stale
  BY DEF DeclareMutEmpty
<1>6. Reads'
  BY <1>2, <1>4, <1>5 DEF SInv, SOwn, Reads, Known, Declared
<1>7. Buffers' = Buffers \ {v}
  <2>1. \A w \in Mutable : slot'[w] \in Cells <=> (w # v /\ slot[w] \in Cells)
    BY <1>4, CellKinds DEF Vars
  <2> QED
    BY <2>1 DEF Buffers
<1>8. Sharing'
  <2> SUFFICES ASSUME NEW u \in Immutable, NEW w \in Buffers', slot'[u] # Undeclared, u \notin stale',
                      slot'[w] = slot'[u]
               PROVE  shares'[u] = w
    BY DEF Sharing, Known, Declared
  <2>1. u \in Vars /\ u # v /\ w \in Buffers /\ w \in Vars /\ w # v
    BY <1>2, <1>7 DEF Buffers, Vars
  <2>2. shares[u] = w
    BY <1>4, <1>5, <2>1 DEF SInv, SOwn, Sharing, Known, Declared
  <2> QED
    BY <2>1, <2>2 DEF DeclareMutEmpty
<1>9. LiteralsStay'
  BY <1>2 DEF SInv, SOwn, LiteralsStay
<1>10. BuffersHaveOneOwner'
  BY <1>2, <1>4, <1>7 DEF SInv, SOwn, BuffersHaveOneOwner, Literals, Buffers, Vars
<1> QED
  BY <1>3, <1>4, <1>6, <1>8, <1>9, <1>10 DEF SOwn

LEMMA DeclarePlainHolds ==
    ASSUME SInv, NEW u \in Immutable, NEW src \in Sources, DeclarePlain(u, src) PROVE SOwn' /\ ProgramWrites
<1>1. mem \in [Cells -> Keys \cup {Freed}] /\ SlotType /\ copies \subseteq Cells
      /\ \A d \in copies : mem[d] \in Keys
  BY InvTypes
<1>2. u \in Vars /\ u \notin Mutable /\ UNCHANGED <<copies, handle, buckets, ret>>
  BY CellKinds DEF Vars, DeclarePlain
<1>3. PICK e \in Evaluations(src) : Store(u, e)
  BY DEF DeclarePlain
<1>4. Evaluated(src, e)
  BY EvaluationsAre DEF DeclarePlain
<1>5. mem' = e.mem /\ slot' = [slot EXCEPT ![u] = e.ptr]
  BY <1>3 DEF Store
<1>6. mem' \in [Cells -> Keys \cup {Freed}] /\ \A c \in Cells : mem[c] # Freed => mem'[c] = mem[c]
  BY <1>4, <1>5 DEF Evaluated
<1>7. ProgramWrites
  BY <1>1, <1>2, <1>6, CellKinds DEF ProgramWrites
<1>8. SlotType' /\ \A w \in Vars : slot'[w] = (IF w = u THEN e.ptr ELSE slot[w])
                                   /\ val'[w] = (IF w = u THEN TextOf(src) ELSE val[w])
  BY <1>1, <1>2, <1>4, <1>5 DEF DeclarePlain, SlotType, Evaluated
<1>9. /\ \A w \in Vars : w # u /\ w \notin stale' => w \notin stale
      /\ u \notin stale' => ~IsStale(src)
  BY DEF DeclarePlain
<1>10. Reads'
  <2> SUFFICES ASSUME NEW w \in Vars, slot'[w] # Undeclared, w \notin stale'
               PROVE  IF slot'[w] = Null THEN val'[w] = Null
                      ELSE mem'[slot'[w]] = val'[w] /\ mem'[slot'[w]] # Freed /\ slot'[w] \notin copies'
    BY DEF Reads, Known, Declared
  <2>1. CASE w = u
    BY <1>2, <1>4, <1>5, <1>8, <1>9, <2>1 DEF Evaluated
  <2>2. CASE w # u
    <3>1. slot'[w] = slot[w] /\ val'[w] = val[w] /\ w \notin stale
      BY <1>8, <1>9, <2>2
    <3>2. IF slot[w] = Null THEN val[w] = Null
          ELSE mem[slot[w]] = val[w] /\ mem[slot[w]] # Freed /\ slot[w] \notin copies
      BY <3>1 DEF SInv, SOwn, Reads, Known, Declared
    <3>3. slot[w] # Null => slot[w] \in Cells
      BY <1>1, <3>1 DEF SlotType
    <3> QED
      BY <1>2, <1>6, <3>1, <3>2, <3>3
  <2> QED
    BY <2>1, <2>2
<1>11. Buffers' = Buffers /\ \A w \in Buffers : slot'[w] = slot[w] /\ slot[w] \in Cells /\ w \in Vars
  BY <1>2, <1>8 DEF Buffers, Vars
<1>12. Sharing'
  <2> SUFFICES ASSUME NEW y \in Immutable, NEW w \in Buffers, slot'[y] # Undeclared, y \notin stale',
                      slot[w] = slot'[y]
               PROVE  shares'[y] = w
    BY <1>11 DEF Sharing, Known, Declared
  <2>1. CASE y = u
    <3>1. BufferOf(src) = w
      BY <1>4, <1>8, <1>9, <1>2, <2>1 DEF Evaluated
    <3> QED
      BY <1>1, <2>1, <3>1 DEF DeclarePlain, SlotType
  <2>2. CASE y # u
    <3>1. shares[y] = w
      BY <1>8, <1>9, <2>2 DEF SInv, SOwn, Sharing, Known, Declared, Vars
    <3> QED
      BY <1>1, <2>2, <3>1 DEF DeclarePlain, SlotType
  <2> QED
    BY <2>1, <2>2
<1>13. LiteralsStay'
  BY <1>2 DEF SInv, SOwn, LiteralsStay
<1>14. BuffersHaveOneOwner'
  <2>1. \A w \in Buffers : mem'[slot[w]] = mem[slot[w]]
    BY <1>6, <1>11 DEF SInv, SOwn, BuffersHaveOneOwner
  <2>2. \A k \in Keys : mem'[Literal[k]] = k
    BY <1>6, CellKinds DEF SInv, SOwn, BuffersHaveOneOwner
  <2> QED
    BY <1>2, <1>11, <2>1, <2>2 DEF SInv, SOwn, BuffersHaveOneOwner, Literals
<1> QED
  BY <1>7, <1>8, <1>10, <1>12, <1>13, <1>14 DEF SOwn

(***************************************************************************)
(* Calls of the map: what it frees are its copies, what it allocates was   *)
(* free.                                                                   *)
(***************************************************************************)
LEMMA KeysArePointers == ASSUME SInv, NEW u \in KeyVars PROVE slot[u] \in Pointers
<1>1. u \in Vars /\ Known(u)
  BY DEF KeyVars, Known
<1>2. slot[u] \in Cells \cup {Null}
  BY <1>1, InvTypes DEF SlotType, Known, Declared
<1> QED
  BY <1>1, <1>2 DEF SInv, SOwn, Reads, Pointers, Allocated

MapOnly == \A c \in Cells : mem[c] # Freed /\ c \notin copies => mem'[c] = mem[c] /\ c \notin copies'

LEMMA MapCallsMapOnly == ASSUME SInv, MapCall PROVE Next /\ MapOnly /\ UNCHANGED sVars
<1>1. mem \in [Cells -> Keys \cup {Freed}] /\ copies \subseteq Cells
  BY InvTypes
<1>2. UNCHANGED sVars
  BY DEF MapCall
<1>3. CASE fe_map_new
  BY <1>2, <1>3 DEF Next, MapOnly, fe_map_new
<1>4. CASE fe_map_free
  <2>1. Owned = copies
    BY CopiesAreOwned DEF SInv
  <2> QED
    BY <1>2, <1>4, <2>1 DEF Next, MapOnly, fe_map_free, Release
<1>5. ASSUME NEW u \in KeyVars, NEW x \in Vals, fe_map_set(slot[u], x) PROVE Next /\ MapOnly
  <2>1. Next
    BY <1>5, KeysArePointers DEF Next
  <2>2. CASE UNCHANGED <<mem, copies>>
    BY <2>1, <2>2 DEF MapOnly
  <2>3. ASSUME NEW c \in Cells \ Allocated, Insert(mem[slot[u]], x, c) PROVE MapOnly
    <3>1. mem[c] = Freed /\ mem' = [mem EXCEPT ![c] = mem[slot[u]]] /\ copies' = copies \cup {c}
      BY <2>3 DEF Insert, Allocated
    <3> QED
      BY <1>1, <3>1 DEF MapOnly
  <2> QED
    BY <1>5, <2>1, <2>2, <2>3 DEF fe_map_set
<1>6. ASSUME NEW u \in KeyVars, fe_map_get(slot[u]) \/ fe_map_has(slot[u]) PROVE Next /\ MapOnly
  <2>1. Next
    BY <1>6, KeysArePointers DEF Next
  <2> QED
    BY <1>6, <2>1 DEF MapOnly, fe_map_get, fe_map_has
<1>7. ASSUME NEW u \in KeyVars, fe_map_delete(slot[u]) PROVE Next /\ MapOnly
  <2>1. Next
    BY <1>7, KeysArePointers DEF Next
  <2> DEFINE k == mem[slot[u]]
             d == Bucket(k)[First(k)].key
  <2>2. k \in Keys /\ Found(k)
    BY <1>7, KeysArePointers, PointerReads DEF fe_map_delete, Usable, SInv
  <2>3. /\ mem' = [c \in Cells |-> IF c \in {d} THEN Freed ELSE mem[c]]
        /\ copies' = copies \ {d}
    BY <1>7 DEF fe_map_delete, Release
  <2>4. First(k) \in DOMAIN Bucket(k) /\ Bucket(k) = buckets[Hash[k]] /\ Hash[k] \in Buckets
    BY <2>2, FoundIs, HashAssumption DEF SInv, Bucket
  <2>5. d \in copies
    BY <2>4, EntryIs DEF SInv, MInv
  <2> HIDE DEF d
  <2>6. MapOnly
    BY <2>3, <2>5 DEF MapOnly
  <2> QED
    BY <2>1, <2>6
<1> QED
  BY <1>2, <1>3, <1>4, <1>5, <1>6, <1>7 DEF MapCall

LEMMA MapOnlyHolds == ASSUME SInv, MapOnly, UNCHANGED sVars PROVE SOwn'
<1>1. slot' = slot /\ val' = val /\ shares' = shares /\ stale' = stale
  BY DEF sVars
<1>2. SlotType
  BY InvTypes
<1>3. Buffers' = Buffers
  BY <1>1 DEF Buffers
<1>4. SlotType' /\ Sharing'
  BY <1>1, <1>3 DEF SInv, SOwn, SlotType, Sharing, Known, Declared
<1>5. Reads'
  <2> SUFFICES ASSUME NEW w \in Vars, slot[w] # Undeclared, w \notin stale
               PROVE  IF slot[w] = Null THEN val[w] = Null
                      ELSE mem'[slot[w]] = val[w] /\ mem'[slot[w]] # Freed /\ slot[w] \notin copies'
    BY <1>1 DEF Reads, Known, Declared
  <2>1. IF slot[w] = Null THEN val[w] = Null
        ELSE mem[slot[w]] = val[w] /\ mem[slot[w]] # Freed /\ slot[w] \notin copies
    BY DEF SInv, SOwn, Reads, Known, Declared
  <2>2. slot[w] # Null => slot[w] \in Cells
    BY <1>2 DEF SlotType
  <2> QED
    BY <2>1, <2>2 DEF MapOnly
<1>6. \A k \in Keys : mem'[Literal[k]] = k /\ Literal[k] \notin copies'
  BY CellKinds DEF SInv, SOwn, BuffersHaveOneOwner, LiteralsStay, MapOnly
<1>7. \A w \in Buffers : mem'[slot[w]] # Freed /\ slot[w] \notin copies'
  BY DEF SInv, SOwn, BuffersHaveOneOwner, Buffers, MapOnly
<1>8. BuffersHaveOneOwner'
  BY <1>1, <1>3, <1>6, <1>7 DEF SInv, SOwn, BuffersHaveOneOwner, Literals
<1> QED
  BY <1>4, <1>5, <1>6, <1>8 DEF SOwn, LiteralsStay

(***************************************************************************)
(* The program                                                             *)
(***************************************************************************)
LEMMA SInitHolds == SInit => SInv /\ Init
<1> SUFFICES ASSUME SInit PROVE SInv /\ Init
  OBVIOUS
<1>1. \A k \in Keys : mem[Literal[k]] = k
  <2> TAKE k \in Keys
  <2>1. Literal[k] \in Cells /\ Literal[k] \in Literals
    BY CellKinds DEF Literals
  <2>2. mem[Literal[k]] = CHOOSE j \in Keys : Literal[j] = Literal[k]
    BY <2>1 DEF SInit
  <2> QED
    BY <2>2
<1>2. mem \in [Cells -> Keys \cup {Freed}]
  <2>1. \A c \in Literals : (CHOOSE k \in Keys : Literal[k] = c) \in Keys
    BY DEF Literals
  <2> QED
    BY <2>1 DEF SInit
<1>3. Init
  BY <1>2 DEF SInit, Init
<1>4. Buffers = {} /\ \A v \in Vars : ~Known(v)
  BY CellKinds DEF SInit, Buffers, Known, Declared, Vars
<1>5. SlotType
  BY DEF SInit, SlotType
<1>6. SOwn
  BY <1>1, <1>4, <1>5 DEF SOwn, Reads, Sharing, LiteralsStay, BuffersHaveOneOwner, SInit, Vars
<1> QED
  BY <1>3, <1>6, InitHolds DEF SInv

LEMMA SStepHolds == SInv /\ [SNext]_allVars => SInv' /\ [Next]_vars
<1> SUFFICES ASSUME SInv, [SNext]_allVars PROVE SInv' /\ [Next]_vars
  OBVIOUS
<1>1. ASSUME ProgramWrites, SOwn' PROVE SInv' /\ Next
  BY <1>1, WriteStep DEF SInv, Next
<1>2. CASE \E v \in Mutable : DeclareMutEmpty(v)
  BY <1>1, <1>2, DeclareMutEmptyHolds
<1>3. CASE \E v \in Mutable, src \in Sources : DeclareMut(v, src) \/ AssignMut(v, src)
  BY <1>1, <1>3, DeclareMutHolds, AssignMutHolds
<1>4. CASE \E u \in Immutable, src \in Sources : DeclarePlain(u, src)
  BY <1>1, <1>4, DeclarePlainHolds
<1>5. CASE MapCall
  <2>1. Next /\ SOwn'
    BY <1>5, MapCallsMapOnly, MapOnlyHolds
  <2> QED
    BY <2>1, StepHolds DEF SInv
<1>6. CASE UNCHANGED allVars
  <2>1. UNCHANGED vars /\ UNCHANGED sVars
    BY <1>6 DEF allVars
  <2>2. MapOnly
    BY <2>1 DEF vars, MapOnly
  <2> QED
    BY <2>1, <2>2, MapOnlyHolds, StutterStep DEF SInv
<1> QED
  BY <1>2, <1>3, <1>4, <1>5, <1>6 DEF SNext

LEMMA SInvariant == SSpec => []SInv
BY SInitHolds, SStepHolds, PTL DEF SSpec

(***************************************************************************)
(* Theorems of the program                                                 *)
(***************************************************************************)
\* The free an assignment begins with is of the variable's own buffer, and
\* never the second one (codegen.c 183-236).
THEOREM StringsHaveOneOwner == SSpec => []BuffersHaveOneOwner
<1>1. SInv => BuffersHaveOneOwner
  BY DEF SInv, SOwn
<1> QED
  BY <1>1, SInvariant, PTL

\* A variable reads what the program last gave it, unless the program took
\* it away (codegen.c 954-972, 1737-1788).
THEOREM StringsReadLastText == SSpec => []ReadsLastText
<1>1. SInv => ReadsLastText
  BY DEF SInv, SOwn, Reads, Known, ReadsLastText
<1> QED
  BY <1>1, SInvariant, PTL

\* A compiled program is, to the map, one that leaves the map's cells alone.
THEOREM StringsImplementFeMap == SSpec => ImplementsFeMap
BY SInitHolds, SStepHolds, SInvariant, PTL DEF SSpec, Spec, ImplementsFeMap

\* So the program sees a dictionary, and leaks or damages no key.
THEOREM ProgramSeesDictionary == SSpec => ImplementsDictionary /\ []WellFormed
<1>1. SSpec => Spec
  BY StringsImplementFeMap DEF ImplementsFeMap
<1> QED
  BY <1>1, MapImplementsDictionary, MapWellFormed, PTL

(***************************************************************************)
(* The array                                                               *)
(***************************************************************************)
\* Without an array nothing is counted: fe_array_free is the only way back to
\* the null handle.
NullIsEmpty == ~HasArray => len = 0

\* The inductive invariant.  Popping answers with a cell, so the type of the
\* answer needs that the cells below len are written.
AInv == ATypeOK /\ ReachesOnlyWritten /\ NullIsEmpty

USE ElemAssumption, CapAssumption, RequestAssumption, BoundAssumption

(***************************************************************************)
(* Steps                                                                   *)
(***************************************************************************)
LEMMA ArrayInitHolds == AInit => AInv
BY DEF AInit, AInv, ATypeOK, ReachesOnlyWritten, NullIsEmpty, HasArray, Block, NoBlock

LEMMA NewHolds == ASSUME AInv, NEW n \in Requests, fe_array_new(n) PROVE AInv'
<1> PICK c : c = cap' OBVIOUS
<1>1. c \in Nat \ {0} /\ arr' = "live" /\ len' = 0 /\ data' = [i \in Block(c) |-> Unwritten] /\ answer' = answer
  BY DEF fe_array_new
<1>2. ATypeOK'
  BY <1>1 DEF AInv, ATypeOK
<1>3. ReachesOnlyWritten' /\ NullIsEmpty'
  BY <1>1 DEF ReachesOnlyWritten, NullIsEmpty, HasArray, Block
<1> QED
  BY <1>2, <1>3 DEF AInv

\* What a push does to the block: the capacity exceeds len, the old cells
\* below it are kept, and the cell at len is the new value.
LEMMA PushStep ==
    ASSUME AInv, NEW v \in Elems, fe_array_push(v)
    PROVE  \E c \in Nat :
              /\ len < c /\ cap <= c /\ cap' = c /\ len' = len + 1 /\ len \in Nat
              /\ UNCHANGED <<arr, answer>> /\ HasArray
              /\ data' = [i \in Block(c) |->
                            IF i = len THEN v ELSE IF i < cap THEN data[i] ELSE Unwritten]
<1> DEFINE c == IF len >= cap THEN 2 * cap ELSE cap
<1>1. len \in Nat /\ cap \in Nat /\ len <= cap /\ cap > 0
  BY DEF AInv, ATypeOK, ReachesOnlyWritten, fe_array_push
<1>2. c \in Nat /\ len < c /\ cap <= c
  BY <1>1
<1>3. cap' = c /\ len' = len + 1 /\ UNCHANGED <<arr, answer>> /\ data' = [Grown(c) EXCEPT ![len] = v] /\ HasArray
  BY DEF fe_array_push
<1> HIDE DEF c
<1>4. len \in Block(c)
  BY <1>1, <1>2 DEF Block
<1>5. data' = [i \in Block(c) |-> IF i = len THEN v ELSE IF i < cap THEN data[i] ELSE Unwritten]
  BY <1>3, <1>4 DEF Grown
<1> QED
  BY <1>1, <1>2, <1>3, <1>5

LEMMA PushHolds == ASSUME AInv, NEW v \in Elems, fe_array_push(v) PROVE AInv'
<1>1. PICK c \in Nat :
              /\ len < c /\ cap <= c /\ cap' = c /\ len' = len + 1 /\ len \in Nat
              /\ UNCHANGED <<arr, answer>> /\ HasArray
              /\ data' = [i \in Block(c) |->
                            IF i = len THEN v ELSE IF i < cap THEN data[i] ELSE Unwritten]
  BY PushStep
<1>2. cap \in Nat /\ len <= cap /\ data \in [Block(cap) -> Elems \cup {Unwritten}]
      /\ \A i \in Block(len) : data[i] \in Elems
  BY DEF AInv, ATypeOK, ReachesOnlyWritten
<1>3. data' \in [Block(c) -> Elems \cup {Unwritten}]
  <2> SUFFICES ASSUME NEW i \in Block(c), i # len, i < cap PROVE data[i] \in Elems \cup {Unwritten}
    BY <1>1
  <2>1. i \in Block(cap)
    BY <1>2 DEF Block
  <2> QED
    BY <1>2, <2>1
<1>4. \A i \in Block(len + 1) : data'[i] \in Elems
  <2> TAKE i \in Block(len + 1)
  <2>1. i \in Block(c) /\ (i # len => i \in Block(len) /\ i < cap)
    BY <1>1, <1>2 DEF Block
  <2> QED
    BY <1>1, <1>2, <2>1
<1>5. ATypeOK'
  BY <1>1, <1>3 DEF AInv, ATypeOK
<1>6. ReachesOnlyWritten'
  BY <1>1, <1>4 DEF ReachesOnlyWritten
<1>7. NullIsEmpty'
  BY <1>1 DEF NullIsEmpty, HasArray
<1> QED
  BY <1>5, <1>6, <1>7 DEF AInv

LEMMA PopHolds == ASSUME AInv, fe_array_pop PROVE AInv'
<1>1. UNCHANGED <<arr, data, cap>>
  BY DEF fe_array_pop
<1>2. CASE ~HasArray \/ len <= 0
  BY <1>1, <1>2 DEF fe_array_pop, AInv, ATypeOK, ReachesOnlyWritten, NullIsEmpty, HasArray
<1>3. CASE HasArray /\ ~(len <= 0)
  <2>1. answer' = data[len - 1] /\ len' = len - 1
    BY <1>3 DEF fe_array_pop
  <2>2. len \in Nat /\ len - 1 \in Nat /\ len - 1 \in Block(len) /\ Block(len - 1) \subseteq Block(len)
    BY <1>3 DEF AInv, ATypeOK, Block
  <2>3. answer' \in Elems
    BY <2>1, <2>2 DEF AInv, ReachesOnlyWritten
  <2>4. ATypeOK'
    BY <1>1, <2>1, <2>2, <2>3 DEF AInv, ATypeOK
  <2>5. len - 1 <= cap
    BY <2>2 DEF AInv, ATypeOK, ReachesOnlyWritten
  <2>6. ReachesOnlyWritten'
    BY <1>1, <2>1, <2>2, <2>5 DEF AInv, ReachesOnlyWritten, HasArray
  <2>7. NullIsEmpty'
    BY <1>1, <1>3 DEF NullIsEmpty, HasArray
  <2> QED
    BY <2>4, <2>6, <2>7 DEF AInv
<1> QED
  BY <1>2, <1>3

\* An index in bounds is one of a written cell.
LEMMA InBoundsIsWritten ==
    ASSUME AInv, NEW i \in Indices, InBounds(i) PROVE i \in Block(len) /\ i \in Block(cap) /\ data[i] \in Elems
<1>1. i \in Int /\ len \in Nat /\ cap \in Nat /\ len <= cap /\ 0 <= i /\ i < len
  BY DEF AInv, ATypeOK, ReachesOnlyWritten, InBounds, Indices
<1>2. i \in Block(len) /\ i \in Block(cap)
  BY <1>1 DEF Block
<1> QED
  BY <1>2 DEF AInv, ReachesOnlyWritten

LEMMA GetHolds == ASSUME AInv, NEW i \in Indices, fe_array_get(i) PROVE AInv'
<1>1. answer' \in Elems /\ UNCHANGED <<arr, data, len, cap>>
  BY InBoundsIsWritten DEF fe_array_get
<1> QED
  BY <1>1 DEF AInv, ATypeOK, ReachesOnlyWritten, NullIsEmpty, HasArray

LEMMA SetHolds == ASSUME AInv, NEW i \in Indices, NEW v \in Elems, fe_array_set(i, v) PROVE AInv'
<1>1. UNCHANGED <<arr, len, cap, answer>>
  BY DEF fe_array_set
<1>2. CASE InBounds(i)
  <2>1. data' = [data EXCEPT ![i] = v]
    BY <1>2 DEF fe_array_set
  <2>2. /\ data' \in [Block(cap) -> Elems \cup {Unwritten}]
        /\ \A k \in Block(len) : data'[k] \in Elems
    <3>1. data \in [Block(cap) -> Elems \cup {Unwritten}] /\ Block(len) \subseteq Block(cap)
          /\ \A k \in Block(len) : data[k] \in Elems
      BY DEF AInv, ATypeOK, ReachesOnlyWritten, Block
    <3> QED
      BY <2>1, <3>1
  <2> QED
    BY <1>1, <2>2 DEF AInv, ATypeOK, ReachesOnlyWritten, NullIsEmpty, HasArray
<1>3. CASE ~InBounds(i)
  <2>1. data' = data
    BY <1>3 DEF fe_array_set
  <2> QED
    BY <1>1, <2>1 DEF AInv, ATypeOK, ReachesOnlyWritten, NullIsEmpty, HasArray
<1> QED
  BY <1>2, <1>3

LEMMA LenHolds == ASSUME AInv, fe_array_len PROVE AInv'
<1>1. answer' \in Nat /\ UNCHANGED <<arr, data, len, cap>>
  BY DEF fe_array_len, AInv, ATypeOK
<1> QED
  BY <1>1 DEF AInv, ATypeOK, ReachesOnlyWritten, NullIsEmpty, HasArray

LEMMA FreeHolds == ASSUME AInv, fe_array_free PROVE AInv'
BY DEF fe_array_free, AInv, ATypeOK, ReachesOnlyWritten, NullIsEmpty, HasArray, Block, NoBlock

LEMMA ArrayStepHolds == AInv /\ [ANext]_avars => AInv'
<1> SUFFICES ASSUME AInv, [ANext]_avars PROVE AInv'
  OBVIOUS
<1>1. CASE ANext
  BY <1>1, NewHolds, PushHolds, PopHolds, GetHolds, SetHolds, LenHolds, FreeHolds DEF ANext
<1>2. CASE UNCHANGED avars
  BY <1>2 DEF avars, AInv, ATypeOK, ReachesOnlyWritten, NullIsEmpty, HasArray
<1> QED
  BY <1>1, <1>2

LEMMA ArrayInvariant == ASpec => []AInv
BY ArrayInitHolds, ArrayStepHolds, PTL DEF ASpec

(***************************************************************************)
(* Theorems of the array                                                   *)
(***************************************************************************)
\* The block always has the size the capacity says, whatever was pushed,
\* popped and freed (fe_array_new, fe_array_push).
THEOREM ArrayTypeOK == ASpec => []ATypeOK
<1>1. AInv => ATypeOK
  BY DEF AInv
<1> QED
  BY <1>1, ArrayInvariant, PTL

\* No program reads a cell that realloc or malloc gave and nobody wrote
\* (fe_array_get, fe_array_pop), and none writes beyond the block.
THEOREM ArrayReachesOnlyWritten == ASpec => []ReachesOnlyWritten
<1>1. AInv => ReachesOnlyWritten
  BY DEF AInv
<1> QED
  BY <1>1, ArrayInvariant, PTL

(***************************************************************************)
(* Refinement.  The items are the cells below len.                         *)
(***************************************************************************)
LEMMA ItemsIsSequence ==
    ASSUME AInv
    PROVE  Items \in Seq(Elems) /\ Len(Items) = len /\ DOMAIN Items = 1..len /\ len \in Nat
<1>1. len \in Nat /\ \A i \in 1..len : data[i - 1] \in Elems
  <2>1. \A i \in 1..len : i - 1 \in Block(len)
    BY DEF AInv, ATypeOK, Block
  <2> QED
    BY <2>1 DEF AInv, ATypeOK, ReachesOnlyWritten
<1> QED
  BY <1>1 DEF Items

\* The sequence is unchanged when len is, and the cells below it.
LEMMA SameItems ==
    ASSUME AInv, len' = len, \A i \in Block(len) : data'[i] = data[i]
    PROVE  Items' = Items
<1>1. \A i \in 1..len : i - 1 \in Block(len)
  BY DEF AInv, ATypeOK, Block
<1> QED
  BY <1>1 DEF Items

LEMMA EmptyItems == len = 0 => Items = <<>>
BY DEF Items

LEMMA EmptyItemsNext == len' = 0 => Items' = <<>>
BY DEF Items

LEMMA RefinesInit == AInit => Sequence!Init
BY EmptyItems DEF AInit, Sequence!Init

LEMMA RefinesNew == ASSUME AInv, NEW n \in Requests, fe_array_new(n) PROVE Sequence!New
BY EmptyItemsNext DEF fe_array_new, HasArray, Sequence!New, Sequence!Live

LEMMA RefinesPush == ASSUME AInv, NEW v \in Elems, fe_array_push(v) PROVE Sequence!Push(v)
<1>1. PICK c \in Nat :
              /\ len < c /\ cap <= c /\ cap' = c /\ len' = len + 1 /\ len \in Nat
              /\ UNCHANGED <<arr, answer>> /\ HasArray
              /\ data' = [i \in Block(c) |->
                            IF i = len THEN v ELSE IF i < cap THEN data[i] ELSE Unwritten]
  BY PushStep
<1>2. Items \in Seq(Elems) /\ Len(Items) = len /\ DOMAIN Items = 1..len
  BY ItemsIsSequence
<1>3. \A i \in 1..(len + 1) : data'[i - 1] = IF i = len + 1 THEN v ELSE data[i - 1]
  <2> TAKE i \in 1..(len + 1)
  <2>1. i - 1 \in Block(c) /\ (i - 1 = len <=> i = len + 1) /\ (i # len + 1 => i - 1 < cap)
    BY <1>1 DEF Block, AInv, ATypeOK, ReachesOnlyWritten
  <2> QED
    BY <1>1, <2>1
<1>4. Items' = [i \in 1..(len + 1) |-> data'[i - 1]]
  BY <1>1 DEF Items
<1>5. Append(Items, v) = [i \in 1..(len + 1) |-> IF i = len + 1 THEN v ELSE data[i - 1]]
  BY <1>1, <1>2 DEF Items
<1>6. Items' = Append(Items, v)
  BY <1>3, <1>4, <1>5
<1> QED
  BY <1>1, <1>6 DEF Sequence!Push, Sequence!Live, HasArray

LEMMA RefinesPop == ASSUME AInv, fe_array_pop PROVE Sequence!Pop
<1>1. UNCHANGED <<arr, data, cap>>
  BY DEF fe_array_pop
<1>2. Items \in Seq(Elems) /\ Len(Items) = len /\ DOMAIN Items = 1..len /\ len \in Nat
  BY ItemsIsSequence
<1>3. CASE ~HasArray \/ len <= 0
  <2>1. len = 0 /\ answer' = 0 /\ len' = len
    BY <1>2, <1>3 DEF fe_array_pop, AInv, NullIsEmpty
  <2> QED
    BY <1>1, <2>1, EmptyItems, EmptyItemsNext DEF Sequence!Pop
<1>4. CASE HasArray /\ ~(len <= 0)
  <2>1. answer' = data[len - 1] /\ len' = len - 1
    BY <1>4 DEF fe_array_pop
  <2>2. Items # <<>> /\ Items[len] = data[len - 1]
    BY <1>2, <1>4 DEF Items
  <2>3. Items' = [i \in 1..(len - 1) |-> data[i - 1]]
    BY <1>1, <2>1 DEF Items
  <2>4. SubSeq(Items, 1, len - 1) = [i \in 1..(len - 1) |-> Items[i]]
    BY <1>2, <1>4
  <2>5. \A i \in 1..(len - 1) : Items[i] = data[i - 1]
    BY <1>2 DEF Items
  <2>6. Items' = SubSeq(Items, 1, len - 1)
    BY <2>3, <2>4, <2>5
  <2> QED
    BY <1>1, <1>2, <2>1, <2>2, <2>6 DEF Sequence!Pop
<1> QED
  BY <1>3, <1>4

\* The program's bounds are those of the sequence, counted from 0.
LEMMA SameBounds == ASSUME AInv, NEW i \in Indices PROVE InBounds(i) <=> i + 1 \in DOMAIN Items
<1>1. DOMAIN Items = 1..len /\ len \in Nat /\ i \in Int
  BY ItemsIsSequence DEF Indices
<1>2. CASE HasArray
  BY <1>1, <1>2 DEF InBounds
<1>3. CASE ~HasArray
  BY <1>1, <1>3 DEF InBounds, AInv, NullIsEmpty
<1> QED
  BY <1>2, <1>3

LEMMA RefinesGet == ASSUME AInv, NEW i \in Indices, fe_array_get(i) PROVE Sequence!Get(i)
<1>1. UNCHANGED <<arr, data, len, cap>> /\ answer' = IF InBounds(i) THEN data[i] ELSE 0
  BY DEF fe_array_get
<1>2. Items' = Items
  BY <1>1 DEF Items
<1>3. i + 1 \in DOMAIN Items => Items[i + 1] = data[i]
  BY DEF Items, Indices
<1> QED
  BY <1>1, <1>2, <1>3, SameBounds DEF Sequence!Get

LEMMA RefinesSet ==
    ASSUME AInv, NEW i \in Indices, NEW v \in Elems, fe_array_set(i, v) PROVE Sequence!Set(i, v)
<1>1. UNCHANGED <<arr, len, cap, answer>> /\ data' = IF InBounds(i) THEN [data EXCEPT ![i] = v] ELSE data
  BY DEF fe_array_set
<1>2. DOMAIN Items = 1..len /\ len \in Nat /\ i \in Int
  BY ItemsIsSequence DEF Indices
<1>3. CASE InBounds(i)
  <2>1. i + 1 \in DOMAIN Items
    BY <1>3, SameBounds
  <2>2. \A k \in 1..len : data'[k - 1] = IF k = i + 1 THEN v ELSE data[k - 1]
    <3> TAKE k \in 1..len
    <3>1. k - 1 \in Block(cap) /\ (k - 1 = i <=> k = i + 1) /\ DOMAIN data = Block(cap)
      BY <1>2 DEF Block, AInv, ATypeOK, ReachesOnlyWritten
    <3> QED
      BY <1>1, <1>3, <3>1
  <2>3. Items' = [k \in 1..len |-> data'[k - 1]]
    BY <1>1 DEF Items
  <2>4. [Items EXCEPT ![i + 1] = v] = [k \in 1..len |-> IF k = i + 1 THEN v ELSE data[k - 1]]
    BY <1>2 DEF Items
  <2>5. Items' = [Items EXCEPT ![i + 1] = v]
    BY <2>2, <2>3, <2>4
  <2> QED
    BY <1>1, <2>1, <2>5 DEF Sequence!Set
<1>4. CASE ~InBounds(i)
  <2>1. i + 1 \notin DOMAIN Items /\ Items' = Items
    BY <1>1, <1>4, SameBounds DEF Items
  <2> QED
    BY <1>1, <2>1 DEF Sequence!Set
<1> QED
  BY <1>3, <1>4

LEMMA RefinesLength == ASSUME AInv, fe_array_len PROVE Sequence!Length
<1>1. UNCHANGED <<arr, data, len, cap>> /\ answer' = IF HasArray THEN len ELSE 0
  BY DEF fe_array_len
<1>2. Items' = Items /\ Len(Items) = len
  BY <1>1, ItemsIsSequence DEF Items
<1> QED
  BY <1>1, <1>2 DEF Sequence!Length, AInv, NullIsEmpty

LEMMA RefinesFree == ASSUME AInv, fe_array_free PROVE Sequence!Free
BY EmptyItemsNext DEF fe_array_free, Sequence!Free

\* Every run of the array is a run of the sequence SequenceADT describes, its
\* answers included (fermi_rt.c 331-350).
THEOREM ArrayImplementsSequence == ASpec => ImplementsSequence
<1>1. AInv /\ [ANext]_avars => [Sequence!Next]_(Sequence!vars)
  <2> SUFFICES ASSUME AInv, [ANext]_avars PROVE [Sequence!Next]_(Sequence!vars)
    OBVIOUS
  <2>1. CASE ANext
    BY <2>1, RefinesNew, RefinesPush, RefinesPop, RefinesGet, RefinesSet, RefinesLength, RefinesFree
    DEF ANext, Sequence!Next
  <2>2. CASE UNCHANGED avars
    BY <2>2 DEF avars, Items, Sequence!vars
  <2> QED
    BY <2>1, <2>2
<1> QED
  BY <1>1, RefinesInit, ArrayInvariant, PTL DEF ASpec, ImplementsSequence, Sequence!Spec
=============================================================================
