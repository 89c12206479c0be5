-------------------------------- MODULE FeMap --------------------------------
(***************************************************************************)
(* The hash map of the runtime (rt/fermi_rt.c 352-409), called by          *)
(* generated code through map::new, set, get, has, delete and free         *)
(* (codegen.c 554-562).  A bucket is the list of its entries, newest       *)
(* first.  Key texts live in memory cells: the program passes a pointer to *)
(* a cell of its own, which it may rewrite, free or reuse at any later     *)
(* moment, and an entry points to the copy strdup made for it.             *)
(***************************************************************************)
EXTENDS Integers, Sequences

CONSTANTS Cells,   \* blocks of memory a key text can occupy
          Keys,    \* key texts
          Vals,    \* values
          Buckets, \* indices of the bucket array, FE_MAP_BUCKETS of them
          Hash,    \* fe_map_hash, FNV-1a masked to a bucket index
          Freed,   \* content of a cell that is not allocated
          Null,    \* the null pointer
          Absent   \* value the promise gives a key that is not there

ASSUME HashAssumption == Hash \in [Keys -> Buckets]
ASSUME MarkAssumption == Freed \notin Keys /\ Null \notin Cells /\ Absent \notin Vals
ASSUME ValueAssumption == Vals \subseteq Int /\ 0 \in Vals

VARIABLES mem,     \* content of every cell
          copies,  \* blocks strdup gave the map that it has not freed
          handle,  \* the program's pointer to the map: null or live
          buckets, \* FeMap.buckets
          ret      \* the last answer

vars == <<mem, copies, handle, buckets, ret>>

Live == handle = "live"
Entries == [key : Cells, val : Vals]
NoEntries == [b \in Buckets |-> <<>>]
OwnedBy(bs) == UNION {{bs[b][i].key : i \in DOMAIN bs[b]} : b \in Buckets}
Owned == OwnedBy(buckets)
Allocated == {c \in Cells : mem[c] # Freed}

Init == /\ mem \in [Cells -> Keys \cup {Freed}]
        /\ copies = {}
        /\ handle = "null"
        /\ buckets = NoEntries
        /\ ret = 0

(***************************************************************************)
(* The program's own strings: anything may happen to cells strdup did not  *)
(* give the map.  A reassigned mut str, for instance, frees one cell and fills  *)
(* another (codegen.c 225-238); MutStrings is such a program.              *)
(***************************************************************************)
ProgramWrites ==
    /\ mem' \in [Cells -> Keys \cup {Freed}]
    /\ \A c \in copies : mem'[c] = mem[c]
    /\ UNCHANGED <<copies, handle, buckets, ret>>

(***************************************************************************)
(* Walking a bucket: strcmp against the entries in order.                  *)
(***************************************************************************)
Bucket(k) == buckets[Hash[k]]
Matches(k) == {i \in DOMAIN Bucket(k) : mem[Bucket(k)[i].key] = k}
Found(k) == Matches(k) # {}
First(k) == CHOOSE i \in Matches(k) : \A j \in Matches(k) : i <= j

Prepend(e, s) == <<e>> \o s
Without(s, n) == [i \in 1..Len(s) - 1 |-> IF i < n THEN s[i] ELSE s[i + 1]]

fe_map_new ==
    /\ ~Live
    /\ handle' = "live"
    /\ buckets' = NoEntries
    /\ UNCHANGED <<mem, copies, ret>>

\* A pointer the program passes is null or to a text of its own.
Pointers == {Null} \cup (Allocated \ copies)

\* Every operation returns at once on a null map or a null key.
Usable(p) == Live /\ p # Null

Insert(k, v, copy) ==
    /\ mem' = [mem EXCEPT ![copy] = k]
    /\ copies' = copies \cup {copy}
    /\ buckets' = [buckets EXCEPT ![Hash[k]] = Prepend([key |-> copy, val |-> v], @)]

\* Mutant (of fe_map_set): the entry keeps the program's pointer.
fe_map_set_NoCopy(p, v) ==
    /\ Usable(p)
    /\ LET k == mem[p] IN
       /\ IF Found(k)
          THEN buckets' = [buckets EXCEPT ![Hash[k]][First(k)].val = v]
          ELSE buckets' = [buckets EXCEPT ![Hash[k]] = Prepend([key |-> p, val |-> v], @)]
       /\ UNCHANGED <<mem, copies>>
    /\ UNCHANGED <<handle, ret>>

fe_map_set(p, v) ==
    /\ Usable(p)
    /\ LET k == mem[p] IN
       IF Found(k)
       THEN /\ buckets' = [buckets EXCEPT ![Hash[k]][First(k)].val = v]
            /\ UNCHANGED <<mem, copies>>
       ELSE \E copy \in Cells \ Allocated : Insert(k, v, copy)
    /\ UNCHANGED <<handle, ret>>

fe_map_get(p) ==
    /\ ret' = IF Usable(p) /\ Found(mem[p])
              THEN Bucket(mem[p])[First(mem[p])].val ELSE 0
    /\ UNCHANGED <<mem, copies, handle, buckets>>

fe_map_has(p) ==
    /\ ret' = IF Usable(p) /\ Found(mem[p]) THEN 1 ELSE 0
    /\ UNCHANGED <<mem, copies, handle, buckets>>

Release(cs) ==
    /\ mem' = [c \in Cells |-> IF c \in cs THEN Freed ELSE mem[c]]
    /\ copies' = copies \ cs

\* Mutant (of fe_map_delete): the key is freed but the entry stays linked.
fe_map_delete_KeepsEntry(p) ==
    /\ Usable(p) /\ Found(mem[p])
    /\ Release({Bucket(mem[p])[First(mem[p])].key})
    /\ UNCHANGED <<handle, buckets, ret>>

\* Without a match nothing happens.
fe_map_delete(p) ==
    /\ Usable(p) /\ Found(mem[p])
    /\ LET k == mem[p] IN
       /\ Release({Bucket(k)[First(k)].key})
       /\ buckets' = [buckets EXCEPT ![Hash[k]] = Without(@, First(k))]
    /\ UNCHANGED <<handle, ret>>

fe_map_free ==
    /\ Release(Owned)
    /\ handle' = "null"
    /\ buckets' = NoEntries
    /\ UNCHANGED ret

Next ==
    \/ ProgramWrites
    \/ fe_map_new
    \/ \E p \in Pointers, v \in Vals : fe_map_set(p, v)
    \/ \E p \in Pointers : fe_map_get(p) \/ fe_map_has(p) \/ fe_map_delete(p)
    \/ fe_map_free

Spec == Init /\ [][Next]_vars

(***************************************************************************)
(* Properties                                                              *)
(***************************************************************************)

TypeOK == /\ mem \in [Cells -> Keys \cup {Freed}]
          /\ copies \in SUBSET Cells
          /\ handle \in {"null", "live"}
          /\ buckets \in [Buckets -> Seq(Entries)]
          /\ ret \in Vals \cup {0, 1}

\* The copies that are not freed are exactly the keys of the entries, each of
\* one entry: no path leaks a key, frees one twice or compares against freed
\* memory, and a lookup finds each text at most once, in the bucket it hashes
\* to (fermi_rt.c 360-409).
WellFormed ==
    /\ ~Live => buckets = NoEntries
    /\ copies = Owned
    /\ \A b \in Buckets : \A i \in DOMAIN buckets[b] :
          /\ mem[buckets[b][i].key] \in Keys
          /\ Hash[mem[buckets[b][i].key]] = b
    /\ \A b, c \in Buckets : \A i \in DOMAIN buckets[b], j \in DOMAIN buckets[c] :
          buckets[b][i].key = buckets[c][j].key => b = c /\ i = j
    /\ \A b \in Buckets : \A i, j \in DOMAIN buckets[b] :
          mem[buckets[b][i].key] = mem[buckets[b][j].key] => i = j

\* The partial function a program sees.
Dict == [k \in Keys |-> IF Found(k) THEN Bucket(k)[First(k)].val ELSE Absent]
Promise == INSTANCE Dictionary WITH dict <- Dict

\* Collisions, chain order, the place of a deleted entry in its chain and
\* whatever the program does to its own strings are invisible: every run is
\* one of the dictionary.
ImplementsDictionary == Promise!Spec
=============================================================================
