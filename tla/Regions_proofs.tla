--------------------------- MODULE Regions_proofs ---------------------------
(***************************************************************************)
(* Proofs about Regions for every number of objects, every frame limit and *)
(* every nesting bound.                                                    *)
(***************************************************************************)
EXTENDS Regions, SequenceTheorems, TLAPS

\* Unwinding to position k keeps exactly the entries up to k.
LEMMA UnwindFacts ==
    ASSUME NEW c \in Seq(Entry), NEW k \in 0..Len(c)
    PROVE  /\ SubSeq(c, 1, k) \in Seq(Entry)
           /\ Len(SubSeq(c, 1, k)) = k
           /\ \A i \in 1..k : SubSeq(c, 1, k)[i] = c[i]
           /\ RegionsOf(SubSeq(c, 1, k)) = {i \in RegionsOf(c) : i <= k}
<1>1. SubSeq(c, 1, k) \in Seq(Entry) /\ Len(SubSeq(c, 1, k)) = k
  OBVIOUS
<1>2. \A i \in 1..k : SubSeq(c, 1, k)[i] = c[i]
  OBVIOUS
<1>3. DOMAIN c = 1..Len(c) /\ DOMAIN SubSeq(c, 1, k) = 1..k
  BY <1>1
<1> QED
  BY <1>1, <1>2, <1>3 DEF RegionsOf, IsRegion

\* Nesting adds one entry at the end.
LEMMA NestFacts ==
    ASSUME NEW c \in Seq(Entry), NEW e \in Entry
    PROVE  /\ Append(c, e) \in Seq(Entry)
           /\ Len(Append(c, e)) = Len(c) + 1
           /\ \A i \in 1..Len(c) : Append(c, e)[i] = c[i]
           /\ Append(c, e)[Len(c) + 1] = e
           /\ RegionsOf(Append(c, e)) =
                RegionsOf(c) \union (IF e.kind = "region" THEN {Len(c) + 1} ELSE {})
<1>1. /\ Append(c, e) \in Seq(Entry)
      /\ Len(Append(c, e)) = Len(c) + 1
      /\ \A i \in 1..Len(c) : Append(c, e)[i] = c[i]
      /\ Append(c, e)[Len(c) + 1] = e
  OBVIOUS
<1>2. DOMAIN c = 1..Len(c) /\ DOMAIN Append(c, e) = 1..(Len(c) + 1)
  BY <1>1
<1> QED
  BY <1>1, <1>2 DEF RegionsOf, IsRegion

\* Positions of regions and activations are positions of ctl.
LEMMA Positions ==
    ASSUME NEW c \in Seq(Entry)
    PROVE  /\ RegionsOf(c) \subseteq 1..Len(c)
           /\ Len(c) \in Nat
           /\ DOMAIN c = 1..Len(c)
           /\ \A i \in 1..Len(c) : c[i] \in Entry
BY DEF RegionsOf

-----------------------------------------------------------------------------
\* A jump goes to a position of ctl and touches nothing but ctl and owner.
Jumped(k) == Running /\ k \in 0..Len(ctl) /\ Jump(k)

LEMMA JumpCases ==
    ASSUME TypeOK, Break \/ Continue \/ Return
    PROVE  \E k \in 0..Len(ctl) : Jump(k)
<1>1. DOMAIN ctl = 1..Len(ctl) /\ Len(ctl) \in Nat
  BY Positions DEF TypeOK
<1>2. Loops \subseteq 1..Len(ctl) /\ Activations \subseteq 1..Len(ctl)
  BY <1>1 DEF Loops, Activations
<1>3. CASE Break
  <2>1. PICK i \in Loops : Jump(i - 1)
    BY <1>3 DEF Break
  <2>2. i - 1 \in 0..Len(ctl)
    BY <1>1, <1>2
  <2> QED BY <2>1, <2>2
<1>4. CASE Continue
  <2>1. PICK i \in Loops : Jump(i)
    BY <1>4 DEF Continue
  <2>2. i \in 0..Len(ctl)
    BY <1>1, <1>2
  <2> QED BY <2>1, <2>2
<1>5. CASE Return
  <2>1. PICK i \in Activations : Jump(i - 1)
    BY <1>5 DEF Return
  <2>2. i - 1 \in 0..Len(ctl)
    BY <1>1, <1>2
  <2> QED BY <2>1, <2>2
<1> QED
  BY <1>3, <1>4, <1>5

\* Every step is one of seven, the three jumps taken together.
LEMMA StepCases ==
    ASSUME TypeOK, [Next]_vars
    PROVE  \/ EnterRegion \/ EnterLoop \/ Call
           \/ \E o \in Objects : RegionAlloc(o)
           \/ \E o \in Objects : PlainAlloc(o)
           \/ LeaveRegion \/ LeaveLoop
           \/ \E k \in 0..Len(ctl) : Jump(k)
           \/ UNCHANGED vars
BY JumpCases DEF Next

\* The program may leave an entry only when there is one.
LEMMA RunningLen ==
    ASSUME TypeOK, Running
    PROVE  Len(ctl) \in Nat /\ Len(ctl) >= 1 /\ Len(ctl) - 1 \in 0..Len(ctl)
BY DEF TypeOK, Running

-----------------------------------------------------------------------------
LEMMA TypeStart == Init => TypeOK
<1> SUFFICES ASSUME Init PROVE TypeOK
  OBVIOUS
<1>1. depth \in 0..MaxDepth
  BY DepthAssumption DEF Init
<1>2. [kind |-> "fn", base |-> 0] \in Entry
  BY DEF Entry, Kinds
<1>3. ctl \in Seq(Entry)
  BY <1>2 DEF Init
<1>4. heads \in [Frames -> SUBSET Objects]
  BY DEF Init
<1>5. heap \in [Objects -> {"fresh", "live", "freed"}] /\ owner \in [Objects -> Int]
  BY DEF Init, Closed
<1>6. saturated \in BOOLEAN /\ abandoned \in BOOLEAN
  BY DEF Init
<1> QED
  BY <1>1, <1>3, <1>4, <1>5, <1>6 DEF TypeOK

LEMMA TypeStep == TypeOK /\ [Next]_vars => TypeOK'
<1> SUFFICES ASSUME TypeOK, [Next]_vars
             PROVE  TypeOK'
  OBVIOUS
<1> USE DepthAssumption
<1>1. CASE EnterRegion
  <2>1. /\ depth' \in 0..MaxDepth /\ saturated' \in BOOLEAN
        /\ heads' \in [Frames -> SUBSET Objects]
    <3>1. CASE depth < MaxDepth
      BY <1>1, <3>1 DEF TypeOK, EnterRegion, fe_region_push, Frames
    <3>2. CASE ~(depth < MaxDepth)
      BY <1>1, <3>2 DEF TypeOK, EnterRegion, fe_region_push
    <3> QED BY <3>1, <3>2
  <2>2. [kind |-> "region", base |-> depth'] \in Entry
    BY <2>1 DEF Entry, Kinds
  <2> QED BY <1>1, <2>1, <2>2 DEF TypeOK, EnterRegion, Nest
<1>2. CASE EnterLoop
  BY <1>2 DEF TypeOK, EnterLoop, Nest, Entry, Kinds
<1>3. CASE Call
  BY <1>3 DEF TypeOK, Call, Nest, Entry, Kinds
<1>4. ASSUME NEW o \in Objects, RegionAlloc(o)
      PROVE  TypeOK'
  <2>1. {0} \union RegionsOf(ctl) \subseteq Int
    BY Positions DEF TypeOK
  <2> QED BY <1>4, <2>1 DEF TypeOK, RegionAlloc, fe_region_alloc, Frames
<1>5. ASSUME NEW o \in Objects, PlainAlloc(o)
      PROVE  TypeOK'
  BY <1>5 DEF TypeOK, PlainAlloc
<1>6. CASE LeaveRegion
  BY <1>6, RunningLen, UnwindFacts
     DEF TypeOK, LeaveRegion, fe_region_pop, Unwind, Closed
<1>7. CASE LeaveLoop
  BY <1>7, RunningLen, UnwindFacts DEF TypeOK, LeaveLoop, Unwind, Closed
<1>8. ASSUME NEW k \in 0..Len(ctl), Jump(k)
      PROVE  TypeOK'
  BY <1>8, UnwindFacts DEF TypeOK, Jump, Unwind, Closed
<1>9. CASE UNCHANGED vars
  BY <1>9 DEF vars, TypeOK
<1> QED
  BY <1>1, <1>2, <1>3, <1>4, <1>5, <1>6, <1>7, <1>8, <1>9, StepCases

\* Every reachable state has the shape TypeOK describes.
THEOREM TypeCorrect == Spec => []TypeOK
BY TypeStart, TypeStep, PTL DEF Spec

-----------------------------------------------------------------------------
(***************************************************************************)
(* No double free.  FramesHoldLive is inductive only together with the     *)
(* fact that no object is listed in two frames in use.                     *)
(***************************************************************************)
FramesDisjoint ==
    \A f, g \in 1..depth : f # g => heads[f] \intersect heads[g] = {}

FramesInv == FramesDisjoint /\ FramesHoldLive

\* Linking a fresh object into one of the frames in use keeps FramesInv.
LEMMA AllocKeepsFrames ==
    ASSUME TypeOK, FramesInv, NEW o \in Objects, RegionAlloc(o)
    PROVE  FramesInv'
<1> USE DepthAssumption
<1>1. /\ heap[o] = "fresh" /\ depth' = depth
      /\ heap' = [heap EXCEPT ![o] = "live"]
      /\ heads' = IF depth > 0 THEN [heads EXCEPT ![depth] = @ \union {o}] ELSE heads
  BY DEF RegionAlloc, fe_region_alloc
<1>2. depth \in Nat /\ depth <= MaxDepth /\ 1..depth \subseteq Frames
  BY DEF TypeOK, Frames
<1>3. \A f \in 1..depth : o \notin heads[f]
  BY <1>1 DEF FramesInv, FramesHoldLive
<1>4. \A f \in 1..depth : heads'[f] = IF f = depth THEN heads[f] \union {o} ELSE heads[f]
  <2> SUFFICES ASSUME NEW f \in 1..depth
               PROVE  heads'[f] = IF f = depth THEN heads[f] \union {o} ELSE heads[f]
    OBVIOUS
  <2>1. depth > 0 /\ depth \in Frames /\ f \in Frames
    BY <1>2 DEF Frames
  <2>2. heads' = [heads EXCEPT ![depth] = heads[depth] \union {o}]
    BY <1>1, <2>1
  <2>3. DOMAIN heads = Frames
    BY DEF TypeOK
  <2> QED BY <2>1, <2>2, <2>3
<1>5. FramesHoldLive'
  <2> SUFFICES ASSUME NEW f \in 1..depth, NEW p \in heads'[f] PROVE heap'[p] = "live"
    BY <1>1 DEF FramesHoldLive
  <2>1. p \in heads[f] \/ p = o
    BY <1>4
  <2>2. p \in heads[f] => p \in Objects /\ heap[p] = "live"
    BY <1>2 DEF TypeOK, FramesInv, FramesHoldLive
  <2> QED BY <1>1, <2>1, <2>2 DEF TypeOK
<1>6. FramesDisjoint'
  BY <1>1, <1>2, <1>3, <1>4 DEF FramesInv, FramesDisjoint
<1> QED BY <1>5, <1>6 DEF FramesInv

\* A push adds one frame, emptied first, or none.
LEMMA PushKeepsFrames ==
    ASSUME TypeOK, FramesInv, EnterRegion
    PROVE  FramesInv'
<1> USE DepthAssumption
<1>1. heap' = heap /\ fe_region_push
  BY DEF EnterRegion
<1>2. depth \in Nat
  BY DEF TypeOK
<1>3. CASE depth < MaxDepth
  <2>1. depth' = depth + 1 /\ heads' = [heads EXCEPT ![depth + 1] = {}]
    BY <1>1, <1>3 DEF fe_region_push
  <2>2. heads'[depth + 1] = {} /\ \A f \in 1..depth : heads'[f] = heads[f]
    BY <2>1, <1>2, <1>3 DEF TypeOK, Frames
  <2>3. \A f \in 1..depth' : f \in 1..depth \/ f = depth + 1
    BY <2>1, <1>2
  <2> QED
    BY <1>1, <2>2, <2>3 DEF FramesInv, FramesDisjoint, FramesHoldLive
<1>4. CASE ~(depth < MaxDepth)
  BY <1>1, <1>4 DEF fe_region_push, FramesInv, FramesDisjoint, FramesHoldLive
<1> QED BY <1>3, <1>4

\* A pop frees the objects of the last frame, which no other frame lists.
LEMMA PopKeepsFrames ==
    ASSUME TypeOK, FramesInv, LeaveRegion
    PROVE  FramesInv'
<1> USE DepthAssumption
<1>1. heads' = heads /\ fe_region_pop
  BY DEF LeaveRegion
<1>2. depth \in Nat
  BY DEF TypeOK
<1>3. CASE depth > 0
  <2>1. depth' = depth - 1 /\ Popped = heads[depth]
    BY <1>1, <1>3 DEF fe_region_pop, Popped
  <2>2. \A f \in 1..depth' : f \in 1..depth /\ f # depth
    BY <2>1, <1>2
  <2>3. \A f \in 1..depth' : heads[f] \intersect Popped = {}
    BY <1>2, <1>3, <2>1, <2>2 DEF FramesInv, FramesDisjoint
  <2>4. \A f \in 1..depth' : heads[f] \subseteq Objects
    BY <2>1, <1>2 DEF TypeOK, Frames
  <2>5. FramesHoldLive'
    BY <1>1, <2>2, <2>3, <2>4 DEF fe_region_pop, FramesInv, FramesHoldLive
  <2>6. FramesDisjoint'
    BY <1>1, <2>2 DEF FramesInv, FramesDisjoint
  <2> QED BY <2>5, <2>6 DEF FramesInv
<1>4. CASE depth = 0
  BY <1>1, <1>4 DEF fe_region_pop, FramesInv, FramesDisjoint, FramesHoldLive
<1> QED BY <1>2, <1>3, <1>4

LEMMA FramesStart == Init => FramesInv
<1> SUFFICES ASSUME Init PROVE FramesInv
  OBVIOUS
<1>1. 1..depth = {}
  BY DEF Init
<1> QED BY <1>1 DEF FramesInv, FramesDisjoint, FramesHoldLive

LEMMA FramesStep == TypeOK /\ FramesInv /\ [Next]_vars => FramesInv'
<1> SUFFICES ASSUME TypeOK, FramesInv, [Next]_vars
             PROVE  FramesInv'
  OBVIOUS
<1> USE DEF FramesInv, FramesDisjoint, FramesHoldLive
<1>1. CASE EnterRegion
  BY <1>1, PushKeepsFrames
<1>2. CASE EnterLoop \/ Call \/ LeaveLoop
  BY <1>2 DEF EnterLoop, Call, LeaveLoop
<1>3. ASSUME NEW o \in Objects, RegionAlloc(o)
      PROVE  FramesInv'
  BY <1>3, AllocKeepsFrames
<1>4. ASSUME NEW o \in Objects, PlainAlloc(o)
      PROVE  FramesInv'
  BY <1>4 DEF PlainAlloc, TypeOK
<1>5. CASE LeaveRegion
  BY <1>5, PopKeepsFrames
<1>6. ASSUME NEW k \in 0..Len(ctl), Jump(k)
      PROVE  FramesInv'
  BY <1>6 DEF Jump
<1>7. CASE UNCHANGED vars
  BY <1>7 DEF vars
<1> QED
  BY <1>1, <1>2, <1>3, <1>4, <1>5, <1>6, <1>7, StepCases

\* The runtime never frees an object twice, even after ignored pushes.
THEOREM NoDoubleFree == Spec => []FramesHoldLive
<1>1. FramesInv => FramesHoldLive
  BY DEF FramesInv
<1> QED
  BY <1>1, FramesStart, FramesStep, TypeCorrect, PTL DEF Spec

-----------------------------------------------------------------------------
(***************************************************************************)
(* No premature free.  The runtime knows nothing of abandoned regions, so  *)
(* the argument is about the frames of the regions still open: each open   *)
(* region pushed a frame of its own that is still in use, inner regions    *)
(* above outer ones, and memory lies below the frame of every region       *)
(* opened after it was allocated.                                          *)
(***************************************************************************)
BasesOrdered ==
    /\ \A i \in RegionsOf(ctl) : ctl[i].base \in 1..depth
    /\ \A i, j \in RegionsOf(ctl) : i < j => ctl[i].base < ctl[j].base

OwnersAlive ==
    \A o \in Objects : owner[o] # Closed => owner[o] \in 0..Len(ctl) /\ heap[o] = "live"

MemoryBelow ==
    \A f \in 1..depth : \A o \in heads[f] :
        owner[o] # Closed => \A i \in RegionsOf(ctl) : i > owner[o] => ctl[i].base > f

ScopeInv == ~saturated => BasesOrdered /\ OwnersAlive /\ MemoryBelow

\* Leaving entries keeps ScopeInv when the frames of the remaining regions
\* stay in use and no memory that still has an owner changes.
LEMMA UnwindKeepsScopes ==
    ASSUME TypeOK, BasesOrdered, OwnersAlive, MemoryBelow,
           NEW k \in 0..Len(ctl), Unwind(k),
           heads' = heads, depth' \in 0..depth,
           \A i \in RegionsOf(ctl) : i <= k => ctl[i].base <= depth',
           \A o \in Objects : owner'[o] # Closed => heap'[o] = heap[o]
    PROVE  BasesOrdered' /\ OwnersAlive' /\ MemoryBelow'
<1>1. /\ ctl' = SubSeq(ctl, 1, k)
      /\ owner' = [o \in Objects |-> IF owner[o] > k THEN Closed ELSE owner[o]]
  BY DEF Unwind
<1>2. ctl \in Seq(Entry) /\ Len(ctl) \in Nat /\ depth \in Nat /\ depth' \in Nat
  BY DepthAssumption DEF TypeOK
<1>3. /\ Len(ctl') = k
      /\ \A i \in 1..k : ctl'[i] = ctl[i]
      /\ RegionsOf(ctl') = {i \in RegionsOf(ctl) : i <= k}
  BY <1>1, <1>2, UnwindFacts
<1>4. RegionsOf(ctl) \subseteq 1..Len(ctl) /\ \A i \in RegionsOf(ctl) : ctl[i].base \in Nat
  BY <1>2, Positions DEF Entry
<1>5. \A i \in RegionsOf(ctl') : i \in RegionsOf(ctl) /\ i <= k /\ i \in Int /\ ctl'[i] = ctl[i]
  BY <1>3, <1>4
<1>6. BasesOrdered'
  BY <1>2, <1>4, <1>5 DEF BasesOrdered
<1>7. OwnersAlive'
  BY <1>1, <1>2, <1>3 DEF OwnersAlive, TypeOK, Closed
<1>8. MemoryBelow'
  <2> SUFFICES ASSUME NEW f \in 1..depth', NEW o \in heads'[f], owner'[o] # Closed,
                      NEW i \in RegionsOf(ctl'), i > owner'[o]
               PROVE  ctl'[i].base > f
    BY DEF MemoryBelow
  <2>1. f \in 1..depth /\ f \in Frames /\ o \in heads[f]
    BY <1>2, DepthAssumption DEF TypeOK, Frames
  <2>2. o \in Objects
    BY <2>1 DEF TypeOK
  <2>3. owner'[o] = owner[o] /\ owner[o] # Closed
    BY <1>1, <2>2
  <2> QED BY <1>5, <2>1, <2>3 DEF MemoryBelow
<1> QED BY <1>6, <1>7, <1>8

\* A jump or the end of a loop leaves the runtime alone.
LEMMA JumpKeepsScopes ==
    ASSUME TypeOK, BasesOrdered, OwnersAlive, MemoryBelow,
           NEW k \in 0..Len(ctl), Unwind(k),
           heads' = heads, depth' = depth, heap' = heap
    PROVE  BasesOrdered' /\ OwnersAlive' /\ MemoryBelow'
<1>1. depth' \in 0..depth
  BY DepthAssumption DEF TypeOK
<1>2. \A i \in RegionsOf(ctl) : i <= k => ctl[i].base <= depth'
  BY <1>1 DEF BasesOrdered
<1> QED BY <1>1, <1>2, UnwindKeepsScopes

\* The end of a region block frees the last frame in use: its own, or one an
\* abandoned region left above it, never one below.
LEMMA PopKeepsScopes ==
    ASSUME TypeOK, BasesOrdered, OwnersAlive, MemoryBelow, LeaveRegion
    PROVE  BasesOrdered' /\ OwnersAlive' /\ MemoryBelow'
<1> DEFINE L == Len(ctl)
<1>1. /\ Running /\ IsRegion(ctl, L) /\ fe_region_pop
      /\ Unwind(L - 1) /\ heads' = heads
  BY DEF LeaveRegion
<1>2. L \in Nat /\ L >= 1 /\ L - 1 \in 0..L /\ depth \in Nat
  BY <1>1, RunningLen, DepthAssumption DEF TypeOK
<1>3. L \in RegionsOf(ctl) /\ RegionsOf(ctl) \subseteq 1..L
  BY <1>1, <1>2, Positions DEF RegionsOf, TypeOK
<1>4. ctl[L].base \in 1..depth /\ depth >= 1
  BY <1>2, <1>3 DEF BasesOrdered
<1>5. /\ depth' = depth - 1 /\ Popped = heads[depth]
      /\ heap' = [o \in Objects |-> IF o \in heads[depth] THEN "freed" ELSE heap[o]]
  BY <1>1, <1>2, <1>4 DEF fe_region_pop, Popped
<1>6. \A i \in RegionsOf(ctl) : i <= L - 1 => ctl[i].base <= depth'
  <2> SUFFICES ASSUME NEW i \in RegionsOf(ctl), i <= L - 1 PROVE ctl[i].base <= depth'
    OBVIOUS
  <2>1. ctl[i].base < ctl[L].base /\ ctl[i].base \in 1..depth
    BY <1>2, <1>3 DEF BasesOrdered
  <2> QED BY <1>2, <1>4, <1>5, <2>1
<1>7. ASSUME NEW o \in Objects, owner'[o] # Closed
      PROVE  heap'[o] = heap[o]
  <2>1. owner'[o] = owner[o] /\ ~(owner[o] > L - 1)
    BY <1>1, <1>7 DEF Unwind
  <2>2. owner[o] \in 0..L
    BY <1>7, <2>1 DEF OwnersAlive
  <2>3. L > owner[o]
    BY <1>2, <2>1, <2>2
  <2>4. ASSUME o \in heads[depth] PROVE FALSE
    <3>1. depth \in 1..depth
      BY <1>2, <1>4
    <3>2. ctl[L].base > depth
      BY <1>3, <1>7, <2>1, <2>3, <2>4, <3>1 DEF MemoryBelow
    <3> QED BY <1>2, <1>4, <3>2
  <2> QED BY <1>5, <2>4
<1>8. depth' \in 0..depth
  BY <1>2, <1>4, <1>5
<1> QED BY <1>1, <1>2, <1>6, <1>7, <1>8, UnwindKeepsScopes

\* A push that is not ignored opens a frame above all others.
LEMMA PushKeepsScopes ==
    ASSUME TypeOK, BasesOrdered, OwnersAlive, MemoryBelow, EnterRegion, ~saturated'
    PROVE  BasesOrdered' /\ OwnersAlive' /\ MemoryBelow'
<1> DEFINE L == Len(ctl)
           e == [kind |-> "region", base |-> depth + 1]
<1>1. depth \in Nat /\ L \in Nat /\ ctl \in Seq(Entry) /\ e \in Entry
  BY DepthAssumption DEF TypeOK, Entry, Kinds
<1>2. /\ depth < MaxDepth /\ depth' = depth + 1
      /\ heads' = [heads EXCEPT ![depth + 1] = {}]
      /\ heap' = heap /\ owner' = owner
  BY DEF EnterRegion, fe_region_push
<1>3. ctl' = Append(ctl, e)
  BY <1>2 DEF EnterRegion, Nest
<1>4. /\ Len(ctl') = L + 1 /\ ctl'[L + 1] = e
      /\ \A i \in 1..L : ctl'[i] = ctl[i]
      /\ RegionsOf(ctl') = RegionsOf(ctl) \union {L + 1}
  BY <1>1, <1>3, NestFacts
<1>5. RegionsOf(ctl) \subseteq 1..L
  BY <1>1, Positions
<1>6. \A i \in RegionsOf(ctl) : ctl'[i] = ctl[i] /\ i \in 1..L /\ ctl[i].base \in 1..depth
  BY <1>4, <1>5 DEF BasesOrdered
<1>7. BasesOrdered'
  <2>1. \A i \in RegionsOf(ctl') : ctl'[i].base \in 1..depth'
    BY <1>1, <1>2, <1>4, <1>6
  <2>2. ASSUME NEW i \in RegionsOf(ctl'), NEW j \in RegionsOf(ctl'), i < j
        PROVE  ctl'[i].base < ctl'[j].base
    <3>1. i \in RegionsOf(ctl)
      BY <1>1, <1>4, <1>5, <2>2
    <3>2. CASE j = L + 1
      BY <1>1, <1>4, <1>6, <3>1, <3>2
    <3>3. CASE j \in RegionsOf(ctl)
      BY <1>6, <2>2, <3>1, <3>3 DEF BasesOrdered
    <3> QED BY <1>4, <3>2, <3>3
  <2> QED BY <2>1, <2>2 DEF BasesOrdered
<1>8. OwnersAlive'
  BY <1>1, <1>2, <1>4 DEF OwnersAlive
<1>9. MemoryBelow'
  <2> SUFFICES ASSUME NEW f \in 1..depth', NEW o \in heads'[f], owner'[o] # Closed,
                      NEW i \in RegionsOf(ctl'), i > owner'[o]
               PROVE  ctl'[i].base > f
    BY DEF MemoryBelow
  <2>1. f # depth + 1
    BY <1>1, <1>2, DepthAssumption DEF TypeOK, Frames
  <2>2. f \in 1..depth /\ o \in heads[f]
    BY <1>1, <1>2, <2>1, DepthAssumption DEF TypeOK, Frames
  <2>3. CASE i = L + 1
    BY <1>1, <1>4, <2>2, <2>3
  <2>4. CASE i \in RegionsOf(ctl)
    BY <1>2, <1>6, <2>2, <2>4 DEF MemoryBelow
  <2> QED BY <1>4, <2>3, <2>4
<1> QED BY <1>7, <1>8, <1>9

\* A loop or a call opens no frame and owns no memory.
LEMMA NestKeepsScopes ==
    ASSUME TypeOK, BasesOrdered, OwnersAlive, MemoryBelow, EnterLoop \/ Call
    PROVE  BasesOrdered' /\ OwnersAlive' /\ MemoryBelow'
<1>1. PICK e \in Entry : e.kind # "region" /\ ctl' = Append(ctl, e)
  <2>1. [kind |-> "loop", base |-> 0] \in Entry /\ [kind |-> "fn", base |-> 0] \in Entry
    BY DEF Entry, Kinds
  <2> QED BY <2>1 DEF EnterLoop, Call, Nest
<1>2. heads' = heads /\ depth' = depth /\ heap' = heap /\ owner' = owner
  BY DEF EnterLoop, Call
<1>3. /\ Len(ctl') = Len(ctl) + 1 /\ Len(ctl) \in Nat
      /\ RegionsOf(ctl') = RegionsOf(ctl)
      /\ \A i \in RegionsOf(ctl) : ctl'[i] = ctl[i]
  <2>1. ctl \in Seq(Entry) /\ RegionsOf(ctl) \subseteq 1..Len(ctl) /\ Len(ctl) \in Nat
    BY Positions DEF TypeOK
  <2>2. /\ Len(Append(ctl, e)) = Len(ctl) + 1
        /\ \A i \in 1..Len(ctl) : Append(ctl, e)[i] = ctl[i]
        /\ RegionsOf(Append(ctl, e)) = RegionsOf(ctl) \union
              (IF e.kind = "region" THEN {Len(ctl) + 1} ELSE {})
    BY <2>1, NestFacts
  <2> QED BY <1>1, <2>1, <2>2
<1> QED BY <1>2, <1>3 DEF BasesOrdered, OwnersAlive, MemoryBelow

\* New memory belongs to the innermost open region and lies in the last
\* frame in use, below whatever is opened later.
LEMMA AllocKeepsScopes ==
    ASSUME TypeOK, FramesInv, BasesOrdered, OwnersAlive, MemoryBelow,
           NEW o \in Objects, RegionAlloc(o) \/ PlainAlloc(o)
    PROVE  BasesOrdered' /\ OwnersAlive' /\ MemoryBelow'
<1>1. PICK r \in {0} \union RegionsOf(ctl) :
         /\ owner' = [owner EXCEPT ![o] = r]
         /\ RegionAlloc(o) => \A i \in RegionsOf(ctl) : ~(i > r)
  <2>1. RegionsOf(ctl) \subseteq Nat
    BY Positions DEF TypeOK
  <2> QED BY <2>1 DEF RegionAlloc, PlainAlloc, IsLast
<1>2. /\ ctl' = ctl /\ depth' = depth /\ heap[o] = "fresh"
      /\ heap' = [heap EXCEPT ![o] = "live"]
  BY DEF RegionAlloc, PlainAlloc, fe_region_alloc
<1>3. /\ r \in 0..Len(ctl) /\ r # Closed
      /\ owner'[o] = r /\ \A p \in Objects : p # o => owner'[p] = owner[p]
  BY <1>1, Positions DEF TypeOK, Closed
<1>4. BasesOrdered'
  BY <1>2 DEF BasesOrdered
<1>5. OwnersAlive'
  BY <1>2, <1>3 DEF OwnersAlive, TypeOK
<1>6. MemoryBelow'
  <2> SUFFICES ASSUME NEW f \in 1..depth, NEW p \in heads'[f], owner'[p] # Closed,
                      NEW i \in RegionsOf(ctl), i > owner'[p]
               PROVE  ctl[i].base > f
    BY <1>2 DEF MemoryBelow
  <2>1. f \in Frames /\ depth \in Nat
    BY DepthAssumption DEF TypeOK, Frames
  <2>2. CASE p = o
    <3>1. CASE RegionAlloc(o)
      BY <1>1, <1>3, <2>2, <3>1
    <3>2. CASE PlainAlloc(o)
      <4>1. o \in heads[f]
        BY <2>2, <3>2 DEF PlainAlloc
      <4> QED BY <1>2, <4>1 DEF FramesInv, FramesHoldLive
    <3> QED BY <3>1, <3>2
  <2>3. CASE p # o
    <3>1. p \in heads[f]
      BY <2>1, <2>3 DEF TypeOK, RegionAlloc, PlainAlloc, fe_region_alloc
    <3>2. owner'[p] = owner[p]
      BY <1>3, <2>1, <2>3, <3>1 DEF TypeOK
    <3> QED BY <3>1, <3>2 DEF MemoryBelow
  <2> QED BY <2>2, <2>3
<1> QED BY <1>4, <1>5, <1>6

LEMMA SaturationStays == [Next]_vars /\ ~saturated' => ~saturated
BY DEF Next, vars, EnterRegion, fe_region_push, EnterLoop, Call, RegionAlloc,
       PlainAlloc, LeaveRegion, LeaveLoop, Break, Continue, Return, Jump

LEMMA ScopeStep == TypeOK /\ FramesInv /\ ScopeInv /\ [Next]_vars => ScopeInv'
<1> SUFFICES ASSUME TypeOK, FramesInv, ScopeInv, [Next]_vars, ~saturated'
             PROVE  BasesOrdered' /\ OwnersAlive' /\ MemoryBelow'
  BY DEF ScopeInv
<1>1. ~saturated
  BY SaturationStays
<1>2. BasesOrdered /\ OwnersAlive /\ MemoryBelow
  BY <1>1 DEF ScopeInv
<1>3. CASE EnterRegion
  BY <1>2, <1>3, PushKeepsScopes
<1>4. CASE EnterLoop \/ Call
  BY <1>2, <1>4, NestKeepsScopes
<1>5. ASSUME NEW o \in Objects, RegionAlloc(o) \/ PlainAlloc(o)
      PROVE  BasesOrdered' /\ OwnersAlive' /\ MemoryBelow'
  BY <1>2, <1>5, AllocKeepsScopes
<1>6. CASE LeaveRegion
  BY <1>2, <1>6, PopKeepsScopes
<1>7. CASE LeaveLoop
  BY <1>2, <1>7, JumpKeepsScopes, RunningLen DEF LeaveLoop
<1>8. ASSUME NEW k \in 0..Len(ctl), Jump(k)
      PROVE  BasesOrdered' /\ OwnersAlive' /\ MemoryBelow'
  BY <1>2, <1>8, JumpKeepsScopes DEF Jump
<1>9. CASE UNCHANGED vars
  BY <1>2, <1>9 DEF vars, BasesOrdered, OwnersAlive, MemoryBelow
<1> QED
  BY <1>3, <1>4, <1>5, <1>6, <1>7, <1>8, <1>9, StepCases

LEMMA ScopeStart == Init => ScopeInv
<1> SUFFICES ASSUME Init PROVE ScopeInv
  OBVIOUS
<1>1. 1..depth = {} /\ \A o \in Objects : owner[o] = Closed
  BY DEF Init
<1>2. RegionsOf(ctl) = {}
  BY DEF Init, RegionsOf, IsRegion
<1> QED
  BY <1>1, <1>2 DEF ScopeInv, BasesOrdered, OwnersAlive, MemoryBelow

\* Memory is never freed while the region it was allocated in is open, as
\* long as no push was ignored: for every frame limit and every program.
THEOREM NoPrematureFreeHolds == Spec => []NoPrematureFree
<1>1. ScopeInv => NoPrematureFree
  BY DEF ScopeInv, OwnersAlive, NoPrematureFree
<1> QED
  BY <1>1, ScopeStart, ScopeStep, FramesStart, FramesStep, TypeCorrect, PTL DEF Spec

-----------------------------------------------------------------------------
(***************************************************************************)
(* No leak.  When no region was abandoned the open regions hold the frames *)
(* 1, 2, ... in order, and memory sits in the frame of the region owning   *)
(* it, so the pop at the end of a region frees all of it.                  *)
(***************************************************************************)
DepthIsInnermost ==
    /\ RegionsOf(ctl) = {} => depth = 0
    /\ \A i \in RegionsOf(ctl) : IsLast(i, RegionsOf(ctl)) => depth = ctl[i].base

BasesConsecutive ==
    /\ \A i \in RegionsOf(ctl) : (\A j \in RegionsOf(ctl) : i <= j) => ctl[i].base = 1
    /\ \A i, j \in RegionsOf(ctl) :
          i < j /\ (\A m \in RegionsOf(ctl) : m <= i \/ j <= m) => ctl[j].base = ctl[i].base + 1

MemoryInOwnFrame ==
    \A o \in Objects : owner[o] > 0 =>
        owner[o] \in RegionsOf(ctl) /\ o \in heads[ctl[owner[o]].base]

OwnerlessNotLive == \A o \in Objects : owner[o] = Closed => heap[o] # "live"

Balanced == DepthIsInnermost /\ BasesConsecutive /\ MemoryInOwnFrame /\ OwnerlessNotLive
BalanceInv == ~saturated /\ ~abandoned => Balanced

\* Steps that open and close no region and allocate nothing keep Balanced.
LEMMA QuietKeepsBalance ==
    ASSUME Balanced, RegionsOf(ctl') = RegionsOf(ctl),
           \A i \in RegionsOf(ctl) : ctl'[i] = ctl[i],
           depth' = depth, heads' = heads, heap' = heap,
           \A o \in Objects : owner'[o] = owner[o]
    PROVE  Balanced'
<1>1. DepthIsInnermost'
  BY DEF Balanced, DepthIsInnermost, IsLast
<1>2. BasesConsecutive'
  BY DEF Balanced, BasesConsecutive
<1>3. MemoryInOwnFrame'
  BY DEF Balanced, MemoryInOwnFrame
<1>4. OwnerlessNotLive'
  BY DEF Balanced, OwnerlessNotLive
<1> QED BY <1>1, <1>2, <1>3, <1>4 DEF Balanced

\* Leaving entries of which none is a region.
LEMMA QuietUnwind ==
    ASSUME TypeOK, Balanced, NEW k \in 0..Len(ctl), Unwind(k),
           \A i \in RegionsOf(ctl) : i <= k,
           depth' = depth, heads' = heads, heap' = heap
    PROVE  Balanced'
<1>1. ctl \in Seq(Entry) /\ ctl' = SubSeq(ctl, 1, k) /\ RegionsOf(ctl) \subseteq 1..Len(ctl)
  BY Positions DEF TypeOK, Unwind
<1>2. RegionsOf(ctl') = RegionsOf(ctl) /\ \A i \in RegionsOf(ctl) : ctl'[i] = ctl[i]
  <2>1. /\ RegionsOf(ctl') = {i \in RegionsOf(ctl) : i <= k}
        /\ \A i \in 1..k : ctl'[i] = ctl[i]
    BY <1>1, UnwindFacts
  <2>2. \A i \in RegionsOf(ctl) : i <= k /\ i \in 1..k
    BY <1>1
  <2> QED BY <2>1, <2>2
<1>3. \A o \in Objects : owner'[o] = owner[o]
  <2> SUFFICES ASSUME NEW o \in Objects PROVE ~(owner[o] > k)
    BY DEF Unwind
  <2>1. owner[o] \in Int /\ k \in Nat
    BY DEF TypeOK
  <2> QED BY <2>1 DEF Balanced, MemoryInOwnFrame
<1> QED BY <1>2, <1>3, QuietKeepsBalance

LEMMA PushKeepsBalance ==
    ASSUME TypeOK, BasesOrdered, Balanced, EnterRegion, ~saturated'
    PROVE  Balanced'
<1> DEFINE L == Len(ctl)
           R == RegionsOf(ctl)
           e == [kind |-> "region", base |-> depth + 1]
<1>1. depth \in Nat /\ L \in Nat /\ ctl \in Seq(Entry) /\ e \in Entry /\ R \subseteq 1..L
  BY DepthAssumption, Positions DEF TypeOK, Entry, Kinds
<1>2. /\ depth < MaxDepth /\ depth' = depth + 1
      /\ heads' = [heads EXCEPT ![depth + 1] = {}]
      /\ heap' = heap /\ owner' = owner
  BY DEF EnterRegion, fe_region_push
<1>3. ctl' = Append(ctl, e)
  BY <1>2 DEF EnterRegion, Nest
<1>4. /\ ctl'[L + 1] = e
      /\ \A i \in R : ctl'[i] = ctl[i]
      /\ RegionsOf(ctl') = R \union {L + 1}
  BY <1>1, <1>3, NestFacts
<1>5. \A i \in R : i < L + 1 /\ i \in Nat
  BY <1>1
<1>6. DepthIsInnermost'
  <2>1. \A i \in RegionsOf(ctl') : IsLast(i, RegionsOf(ctl')) => i = L + 1
    BY <1>1, <1>4, <1>5 DEF IsLast
  <2>2. RegionsOf(ctl') # {} /\ ctl'[L + 1].base = depth'
    BY <1>2, <1>4
  <2> QED BY <2>1, <2>2 DEF DepthIsInnermost
<1>7. BasesConsecutive'
  <2>1. ASSUME NEW i \in RegionsOf(ctl'), \A j \in RegionsOf(ctl') : i <= j
        PROVE  ctl'[i].base = 1
    <3>1. CASE i \in R
      BY <1>4, <2>1, <3>1 DEF Balanced, BasesConsecutive
    <3>2. CASE i = L + 1
      <4>1. R = {}
        BY <1>1, <1>4, <1>5, <2>1, <3>2
      <4> QED BY <1>4, <3>2, <4>1 DEF Balanced, DepthIsInnermost
    <3> QED BY <1>4, <3>1, <3>2
  <2>2. ASSUME NEW i \in RegionsOf(ctl'), NEW j \in RegionsOf(ctl'), i < j,
               \A m \in RegionsOf(ctl') : m <= i \/ j <= m
        PROVE  ctl'[j].base = ctl'[i].base + 1
    <3>1. i \in R
      BY <1>1, <1>4, <1>5, <2>2
    <3>2. CASE j \in R
      BY <1>4, <2>2, <3>1, <3>2 DEF Balanced, BasesConsecutive
    <3>3. CASE j = L + 1
      <4>1. IsLast(i, R)
        BY <1>1, <1>4, <1>5, <2>2, <3>1, <3>3 DEF IsLast
      <4> QED BY <1>4, <3>1, <3>3, <4>1 DEF Balanced, DepthIsInnermost
    <3> QED BY <1>4, <3>2, <3>3
  <2> QED BY <2>1, <2>2 DEF BasesConsecutive
<1>8. MemoryInOwnFrame'
  <2> SUFFICES ASSUME NEW o \in Objects, owner[o] > 0
               PROVE  owner[o] \in RegionsOf(ctl') /\ o \in heads'[ctl'[owner[o]].base]
    BY <1>2 DEF MemoryInOwnFrame
  <2>1. owner[o] \in R /\ o \in heads[ctl[owner[o]].base]
    BY DEF Balanced, MemoryInOwnFrame
  <2>2. ctl[owner[o]].base \in 1..depth
    BY <2>1 DEF BasesOrdered
  <2>3. heads'[ctl[owner[o]].base] = heads[ctl[owner[o]].base]
    BY <1>1, <1>2, <2>2, DepthAssumption DEF TypeOK, Frames
  <2> QED BY <1>4, <2>1, <2>3
<1>9. OwnerlessNotLive'
  BY <1>2 DEF Balanced, OwnerlessNotLive
<1> QED BY <1>6, <1>7, <1>8, <1>9 DEF Balanced

LEMMA PopKeepsBalance ==
    ASSUME TypeOK, BasesOrdered, OwnersAlive, Balanced, LeaveRegion
    PROVE  Balanced'
<1> DEFINE L == Len(ctl)
           R == RegionsOf(ctl)
<1>1. /\ Running /\ IsRegion(ctl, L) /\ fe_region_pop
      /\ Unwind(L - 1) /\ heads' = heads
  BY DEF LeaveRegion
<1>2. L \in Nat /\ L >= 1 /\ L - 1 \in 0..L /\ depth \in Nat /\ ctl \in Seq(Entry)
  BY <1>1, RunningLen, DepthAssumption DEF TypeOK
<1>3. L \in R /\ R \subseteq 1..L /\ IsLast(L, R)
  BY <1>1, <1>2, Positions DEF RegionsOf, IsLast
<1>4. depth = ctl[L].base /\ depth >= 1
  BY <1>2, <1>3 DEF Balanced, DepthIsInnermost, BasesOrdered
<1>5. /\ depth' = depth - 1 /\ Popped = heads[depth]
      /\ heap' = [o \in Objects |-> IF o \in heads[depth] THEN "freed" ELSE heap[o]]
  BY <1>1, <1>2, <1>4 DEF fe_region_pop, Popped
<1>6. /\ ctl' = SubSeq(ctl, 1, L - 1)
      /\ owner' = [o \in Objects |-> IF owner[o] > L - 1 THEN Closed ELSE owner[o]]
  BY <1>1 DEF Unwind
<1>7. /\ RegionsOf(ctl') = {i \in R : i <= L - 1}
      /\ \A i \in 1..(L - 1) : ctl'[i] = ctl[i]
  BY <1>2, <1>6, UnwindFacts
<1>8. \A i \in R : i \in Nat /\ (i \in RegionsOf(ctl') \/ i = L)
  BY <1>2, <1>3, <1>7
<1>9. \A i \in RegionsOf(ctl') : i \in R /\ i < L /\ ctl'[i] = ctl[i]
  BY <1>2, <1>3, <1>7
<1>10. DepthIsInnermost'
  <2>1. ASSUME RegionsOf(ctl') = {} PROVE depth' = 0
    <3>1. \A j \in R : L <= j
      BY <1>8, <2>1
    <3> QED BY <1>3, <1>4, <1>5, <3>1 DEF Balanced, BasesConsecutive
  <2>2. ASSUME NEW i \in RegionsOf(ctl'), IsLast(i, RegionsOf(ctl'))
        PROVE  depth' = ctl'[i].base
    <3>1. i < L /\ \A m \in R : m <= i \/ L <= m
      BY <1>2, <1>8, <1>9, <2>2 DEF IsLast
    <3>2. ctl[L].base = ctl[i].base + 1
      BY <1>3, <1>9, <2>2, <3>1 DEF Balanced, BasesConsecutive
    <3>3. ctl[i].base \in Nat
      BY <1>9, <2>2 DEF BasesOrdered
    <3> QED BY <1>2, <1>4, <1>5, <1>9, <3>2, <3>3
  <2> QED BY <2>1, <2>2 DEF DepthIsInnermost
<1>11. BasesConsecutive'
  <2>1. ASSUME NEW i \in RegionsOf(ctl'), \A j \in RegionsOf(ctl') : i <= j
        PROVE  ctl'[i].base = 1
    <3>1. \A j \in R : i <= j
      BY <1>2, <1>8, <1>9, <2>1
    <3> QED BY <1>9, <3>1 DEF Balanced, BasesConsecutive
  <2>2. ASSUME NEW i \in RegionsOf(ctl'), NEW j \in RegionsOf(ctl'), i < j,
               \A m \in RegionsOf(ctl') : m <= i \/ j <= m
        PROVE  ctl'[j].base = ctl'[i].base + 1
    <3>1. \A m \in R : m <= i \/ j <= m
      BY <1>2, <1>8, <1>9, <2>2
    <3> QED BY <1>9, <2>2, <3>1 DEF Balanced, BasesConsecutive
  <2> QED BY <2>1, <2>2 DEF BasesConsecutive
<1>12. \A o \in Objects : owner[o] \in Int
  BY DEF TypeOK
<1>13. MemoryInOwnFrame'
  <2> SUFFICES ASSUME NEW o \in Objects, owner'[o] > 0
               PROVE  owner'[o] \in RegionsOf(ctl') /\ o \in heads'[ctl'[owner'[o]].base]
    BY DEF MemoryInOwnFrame
  <2>1. owner'[o] = owner[o] /\ ~(owner[o] > L - 1)
    BY <1>6 DEF Closed
  <2>2. owner[o] \in R /\ o \in heads[ctl[owner[o]].base]
    BY <2>1 DEF Balanced, MemoryInOwnFrame
  <2>3. owner[o] \in RegionsOf(ctl')
    BY <1>2, <1>8, <2>1, <2>2
  <2> QED BY <1>1, <1>9, <2>1, <2>2, <2>3
<1>14. OwnerlessNotLive'
  <2> SUFFICES ASSUME NEW o \in Objects, owner'[o] = Closed PROVE heap'[o] # "live"
    BY DEF OwnerlessNotLive
  <2>1. CASE owner[o] = Closed
    BY <1>5, <2>1 DEF Balanced, OwnerlessNotLive
  <2>2. CASE owner[o] # Closed
    <3>1. owner[o] > L - 1 /\ owner[o] \in 0..L
      BY <1>6, <2>2 DEF OwnersAlive
    <3>2. owner[o] = L /\ owner[o] > 0
      BY <1>2, <3>1
    <3>3. o \in heads[depth]
      BY <1>4, <3>2 DEF Balanced, MemoryInOwnFrame
    <3> QED BY <1>5, <3>3
  <2> QED BY <2>1, <2>2
<1> QED BY <1>10, <1>11, <1>13, <1>14 DEF Balanced

LEMMA AllocKeepsBalance ==
    ASSUME TypeOK, BasesOrdered, Balanced, NEW o \in Objects, RegionAlloc(o) \/ PlainAlloc(o)
    PROVE  Balanced'
<1> DEFINE R == RegionsOf(ctl)
<1>1. /\ ctl' = ctl /\ depth' = depth /\ heap' = [heap EXCEPT ![o] = "live"]
      /\ heap[o] = "fresh" /\ R \subseteq Nat
  BY Positions DEF RegionAlloc, PlainAlloc, fe_region_alloc, TypeOK
<1>2. \A f \in Frames : heads[f] \subseteq heads'[f]
  <2>1. heads' = heads \/ heads' = [heads EXCEPT ![depth] = heads[depth] \union {o}]
    BY DEF RegionAlloc, PlainAlloc, fe_region_alloc
  <2>2. DOMAIN heads = Frames
    BY DEF TypeOK
  <2> QED BY <2>1, <2>2
<1>3. \A i \in R : ctl[i].base \in Frames /\ ctl[i].base \in 1..depth
  BY DepthAssumption DEF BasesOrdered, TypeOK, Frames
<1>4. PICK r \in {0} \union R :
         /\ owner' = [owner EXCEPT ![o] = r]
         /\ r > 0 => r \in R /\ o \in heads'[ctl[r].base]
  <2>1. CASE PlainAlloc(o)
    <3>1. owner' = [owner EXCEPT ![o] = 0] /\ ~(0 > 0)
      BY <2>1 DEF PlainAlloc
    <3> QED BY <3>1
  <2>2. CASE RegionAlloc(o)
    <3>1. PICK r \in {0} \union R : IsLast(r, {0} \union R) /\ owner' = [owner EXCEPT ![o] = r]
      BY <2>2 DEF RegionAlloc
    <3>2. ASSUME r > 0 PROVE r \in R /\ o \in heads'[ctl[r].base]
      <4>1. r \in R /\ IsLast(r, R)
        <5>1. r # 0 /\ r \in R
          BY <3>2
        <5> QED BY <3>1, <5>1 DEF IsLast
      <4>2. depth = ctl[r].base /\ depth \in Frames /\ depth > 0
        <5>1. depth = ctl[r].base
          BY <4>1 DEF Balanced, DepthIsInnermost
        <5>2. depth \in Frames
          BY <1>3, <4>1, <5>1
        <5>3. depth > 0
          BY <5>2, DepthAssumption DEF Frames
        <5> QED BY <5>1, <5>2, <5>3
      <4> QED BY <2>2, <4>1, <4>2 DEF RegionAlloc, fe_region_alloc, TypeOK
    <3> QED BY <3>1, <3>2
  <2> QED BY <2>1, <2>2
<1>5. /\ owner'[o] = r /\ r # Closed
      /\ \A p \in Objects : p # o => owner'[p] = owner[p] /\ heap'[p] = heap[p]
  BY <1>1, <1>4 DEF TypeOK, Closed
<1>6. DepthIsInnermost' /\ BasesConsecutive'
  BY <1>1 DEF Balanced, DepthIsInnermost, BasesConsecutive
<1>7. MemoryInOwnFrame'
  <2> SUFFICES ASSUME NEW p \in Objects, owner'[p] > 0
               PROVE  owner'[p] \in R /\ p \in heads'[ctl[owner'[p]].base]
    BY <1>1 DEF MemoryInOwnFrame
  <2>1. CASE p = o
    BY <1>4, <1>5, <2>1
  <2>2. CASE p # o
    <3>1. owner'[p] \in R /\ p \in heads[ctl[owner'[p]].base]
      BY <1>5, <2>2 DEF Balanced, MemoryInOwnFrame
    <3> QED BY <1>2, <1>3, <3>1
  <2> QED BY <2>1, <2>2
<1>8. OwnerlessNotLive'
  BY <1>5 DEF Balanced, OwnerlessNotLive
<1> QED BY <1>6, <1>7, <1>8 DEF Balanced

LEMMA BalanceStep == TypeOK /\ ScopeInv /\ BalanceInv /\ [Next]_vars => BalanceInv'
<1> SUFFICES ASSUME TypeOK, ScopeInv, BalanceInv, [Next]_vars, ~saturated', ~abandoned'
             PROVE  Balanced'
  BY DEF BalanceInv
<1>1. ~saturated
  BY DEF Next, vars, EnterRegion, fe_region_push, EnterLoop, Call, RegionAlloc,
         PlainAlloc, LeaveRegion, LeaveLoop, Break, Continue, Return, Jump
<1>1a. ~abandoned
  <2>1. ASSUME abandoned PROVE abandoned'
    BY <2>1, Zenon
       DEF Next, vars, EnterRegion, EnterLoop, Call, RegionAlloc,
           PlainAlloc, LeaveRegion, LeaveLoop, Break, Continue, Return, Jump
  <2> QED BY <2>1
<1>2. BasesOrdered /\ OwnersAlive /\ Balanced
  BY <1>1, <1>1a DEF ScopeInv, BalanceInv
<1>3. CASE EnterRegion
  BY <1>2, <1>3, PushKeepsBalance
<1>4. CASE EnterLoop \/ Call
  <2>1. PICK e \in Entry : e.kind # "region" /\ ctl' = Append(ctl, e)
    <3>1. [kind |-> "loop", base |-> 0] \in Entry /\ [kind |-> "fn", base |-> 0] \in Entry
      BY DEF Entry, Kinds
    <3> QED BY <1>4, <3>1 DEF EnterLoop, Call, Nest
  <2>2. /\ \A i \in 1..Len(ctl) : Append(ctl, e)[i] = ctl[i]
        /\ RegionsOf(Append(ctl, e)) = RegionsOf(ctl) \union
              (IF e.kind = "region" THEN {Len(ctl) + 1} ELSE {})
    BY NestFacts DEF TypeOK
  <2>3. RegionsOf(ctl) \subseteq 1..Len(ctl)
    BY Positions DEF TypeOK
  <2>4. RegionsOf(ctl') = RegionsOf(ctl) /\ \A i \in RegionsOf(ctl) : ctl'[i] = ctl[i]
    BY <2>1, <2>2, <2>3
  <2> QED BY <1>2, <1>4, <2>4, QuietKeepsBalance DEF EnterLoop, Call
<1>5. ASSUME NEW o \in Objects, RegionAlloc(o) \/ PlainAlloc(o)
      PROVE  Balanced'
  BY <1>2, <1>5, AllocKeepsBalance
<1>6. CASE LeaveRegion
  BY <1>2, <1>6, PopKeepsBalance
<1>7. CASE LeaveLoop
  <2>1. Unwind(Len(ctl) - 1) /\ depth' = depth /\ heads' = heads /\ heap' = heap
    BY <1>7 DEF LeaveLoop
  <2>2. Len(ctl) - 1 \in 0..Len(ctl) /\ Len(ctl) \in Nat
    BY <1>7, RunningLen DEF LeaveLoop
  <2>3. \A i \in RegionsOf(ctl) : i <= Len(ctl) - 1
    <3>1. RegionsOf(ctl) \subseteq 1..Len(ctl) /\ Len(ctl) \notin RegionsOf(ctl)
      BY <1>7, Positions DEF TypeOK, LeaveLoop, RegionsOf, IsRegion
    <3> QED BY <2>2, <3>1
  <2> QED BY <1>2, <2>1, <2>2, <2>3, QuietUnwind
<1>8. ASSUME NEW k \in 0..Len(ctl), Jump(k)
      PROVE  Balanced'
  <2>1. Unwind(k) /\ depth' = depth /\ heads' = heads /\ heap' = heap
    BY <1>8 DEF Jump
  <2>2. \A i \in RegionsOf(ctl) : i <= k
    <3>1. ~ \E i \in RegionsOf(ctl) : i > k
      BY <1>8, Zenon DEF Jump
    <3>2. RegionsOf(ctl) \subseteq Nat /\ k \in Nat
      BY Positions DEF TypeOK
    <3> QED BY <3>1, <3>2
  <2> QED BY <1>2, <2>1, <2>2, QuietUnwind
<1>9. CASE UNCHANGED vars
  BY <1>2, <1>9, QuietKeepsBalance DEF vars
<1> QED
  BY <1>3, <1>4, <1>5, <1>6, <1>7, <1>8, <1>9, StepCases

LEMMA BalanceStart == Init => BalanceInv
<1> SUFFICES ASSUME Init PROVE BalanceInv
  OBVIOUS
<1>1. depth = 0 /\ \A o \in Objects : owner[o] = Closed /\ heap[o] = "fresh"
  BY DEF Init
<1>2. RegionsOf(ctl) = {}
  BY DEF Init, RegionsOf, IsRegion
<1>3. \A o \in Objects : ~(owner[o] > 0)
  <2>1. ~(Closed > 0)
    BY DEF Closed
  <2> QED BY <1>1, <2>1
<1> QED
  BY <1>1, <1>2, <1>3
     DEF BalanceInv, Balanced, DepthIsInnermost, BasesConsecutive, MemoryInOwnFrame,
         OwnerlessNotLive

\* When every region block is left at its end and no push was ignored, the
\* memory of a closed region has been freed and the depth is exact.
THEOREM NoLeakHolds == Spec => []NoLeakWhenBalanced
<1>1. BalanceInv => NoLeakWhenBalanced
  BY DEF BalanceInv, Balanced, DepthIsInnermost, OwnerlessNotLive, NoLeakWhenBalanced
<1> QED
  BY <1>1, ScopeStart, BalanceStart, BalanceStep, ScopeStep, FramesStart, FramesStep, TypeCorrect,
     PTL DEF Spec

-----------------------------------------------------------------------------
(***************************************************************************)
(* Below the limit every step of the runtime is a step of RegionScopes, or *)
(* a stutter: a push opens a scope, and what a pop frees has no owner.     *)
(***************************************************************************)
Shape == [i \in DOMAIN ctl |-> ctl[i].kind]

\* The shape of ctl is a sequence of kinds, as long as ctl.
LEMMA ShapeFacts ==
    ASSUME NEW c \in Seq(Entry)
    PROVE  LET kinds == [i \in DOMAIN c |-> c[i].kind]
           IN  kinds \in Seq(Kinds) /\ Len(kinds) = Len(c) /\ DOMAIN kinds = 1..Len(c)
<1> DEFINE kinds == [i \in DOMAIN c |-> c[i].kind]
<1>1. DOMAIN c = 1..Len(c) /\ Len(c) \in Nat
  OBVIOUS
<1>2. \A i \in 1..Len(c) : c[i].kind \in Kinds
  BY Positions DEF Entry
<1>3. kinds \in [1..Len(c) -> Kinds]
  BY <1>1, <1>2
<1>4. kinds \in Seq(Kinds) /\ Len(kinds) = Len(c)
  <2>1. kinds \in Seq(Kinds)
    BY <1>1, <1>3, SeqDef
  <2>2. DOMAIN kinds = 1..Len(kinds) /\ DOMAIN kinds = 1..Len(c) /\ Len(kinds) \in Nat
    BY <1>1, <2>1
  <2> QED BY <1>1, <2>1, <2>2
<1> QED BY <1>1, <1>4

LEMMA NestMaps ==
    ASSUME TypeOK, NEW e \in Entry, ctl' = Append(ctl, e), heap' = heap, owner' = owner
    PROVE  Scopes!Open(e.kind)
<1>1. ctl \in Seq(Entry) /\ ctl' \in Seq(Entry)
  BY DEF TypeOK
<1>2. Shape' = Append(Shape, e.kind)
  BY <1>1, NestFacts, ShapeFacts DEF Shape
<1> QED BY <1>2 DEF Scopes!Open, Shape

LEMMA UnwindMaps ==
    ASSUME TypeOK, NEW k \in 0..Len(ctl), Unwind(k),
           NEW freed \in SUBSET Objects,
           heap' = [o \in Objects |-> IF o \in freed THEN "freed" ELSE heap[o]],
           \A o \in freed : owner'[o] = Closed /\ heap[o] = "live"
    PROVE  Scopes!Exit(k)
<1>1. ctl \in Seq(Entry) /\ ctl' = SubSeq(ctl, 1, k) /\ ctl' \in Seq(Entry)
  BY UnwindFacts DEF TypeOK, Unwind
<1>2. Shape' = SubSeq(Shape, 1, k)
  BY <1>1, UnwindFacts, ShapeFacts DEF Shape
<1>3. owner' = [o \in Objects |-> IF owner[o] > k THEN Scopes!Closed ELSE owner[o]]
  BY DEF Unwind, Closed, Scopes!Closed
<1>4. freed \in SUBSET {o \in Objects : owner'[o] = Scopes!Closed /\ heap[o] = "live"}
  BY DEF Closed, Scopes!Closed
<1> QED BY <1>2, <1>3, <1>4 DEF Scopes!Exit, Shape

LEMMA StepMaps ==
    ASSUME TypeOK, FramesInv, ScopeInv, ~saturated, [Next]_vars, ~saturated'
    PROVE  Scopes!Next \/ UNCHANGED Scopes!absVars
<1>1. BasesOrdered /\ OwnersAlive /\ MemoryBelow
  BY DEF ScopeInv
<1>2. Len(Shape) = Len(ctl) /\ Len(ctl) \in Nat
  BY ShapeFacts DEF TypeOK, Shape
<1>3. ASSUME NEW e \in Entry, ctl' = Append(ctl, e), heap' = heap, owner' = owner
      PROVE  Scopes!Next
  <2>1. e.kind \in Kinds /\ Scopes!Open(e.kind)
    BY <1>3, NestMaps DEF Entry
  <2> QED BY <2>1 DEF Scopes!Next
<1>4. ASSUME NEW k \in 0..Len(ctl), Scopes!Exit(k)
      PROVE  Scopes!Next
  BY <1>2, <1>4 DEF Scopes!Next, Shape
<1>5. ASSUME NEW k \in 0..Len(ctl), Unwind(k), heap' = heap
      PROVE  Scopes!Next
  <2>1. heap' = [o \in Objects |-> IF o \in {} THEN "freed" ELSE heap[o]]
    BY <1>5 DEF TypeOK
  <2> QED BY <1>4, <1>5, <2>1, UnwindMaps
<1>6. CASE EnterRegion
  <2>1. depth' \in Nat
    BY <1>6, DepthAssumption DEF EnterRegion, fe_region_push, TypeOK
  <2>2. [kind |-> "region", base |-> depth'] \in Entry
    BY <2>1 DEF Entry, Kinds
  <2> QED BY <1>3, <1>6, <2>2 DEF EnterRegion, Nest
<1>7. CASE EnterLoop \/ Call
  <2>1. [kind |-> "loop", base |-> 0] \in Entry /\ [kind |-> "fn", base |-> 0] \in Entry
    BY DEF Entry, Kinds
  <2> QED BY <1>3, <1>7, <2>1 DEF EnterLoop, Call, Nest
<1>8. ASSUME NEW o \in Objects, RegionAlloc(o) \/ PlainAlloc(o)
      PROVE  Scopes!Next
  <2>1. PICK r \in 0..Len(ctl) : owner' = [owner EXCEPT ![o] = r]
    BY <1>8, <1>2, Positions DEF RegionAlloc, PlainAlloc, TypeOK
  <2>2. /\ heap[o] = "fresh" /\ heap' = [heap EXCEPT ![o] = "live"] /\ ctl' = ctl
    BY <1>8 DEF RegionAlloc, PlainAlloc, fe_region_alloc
  <2>3. Scopes!Allocate(o, r)
    BY <2>1, <2>2 DEF Scopes!Allocate
  <2> QED BY <1>2, <2>3 DEF Scopes!Next, Shape
<1>9. CASE LeaveRegion
  <2>0. PICK k \in 0..Len(ctl) : k = Len(ctl) - 1
    BY <1>9, RunningLen DEF LeaveRegion
  <2>0a. PICK freed \in SUBSET Objects : freed = {o \in Objects : o \in Popped}
    OBVIOUS
  <2>1. Unwind(k)
    BY <1>9, <2>0 DEF LeaveRegion, Unwind
  <2>2. heap' = [o \in Objects |-> IF o \in freed THEN "freed" ELSE heap[o]]
    BY <1>9, <2>0a DEF LeaveRegion, fe_region_pop
  <2>3. ASSUME NEW o \in freed
        PROVE  owner'[o] = Closed /\ heap[o] = "live"
    <3>1. o \in Objects /\ depth \in 1..depth /\ o \in heads[depth]
      BY <2>3, <2>0a, DepthAssumption DEF Popped, TypeOK
    <3>2. heap[o] = "live"
      BY <3>1 DEF FramesInv, FramesHoldLive
    <3>3. heap'[o] = "freed"
      BY <2>2, <2>3, <3>1
    <3>4. OwnersAlive'
      BY <1>1, <1>9, PopKeepsScopes
    <3> QED BY <3>1, <3>2, <3>3, <3>4 DEF OwnersAlive
  <2>4. Scopes!Exit(k)
    BY <2>1, <2>2, <2>3, UnwindMaps
  <2> QED BY <1>4, <2>4
<1>10. CASE LeaveLoop
  BY <1>5, <1>10, RunningLen DEF LeaveLoop
<1>11. ASSUME NEW k \in 0..Len(ctl), Jump(k)
       PROVE  Scopes!Next
  BY <1>5, <1>11 DEF Jump
<1>12. CASE UNCHANGED vars
  BY <1>12 DEF vars, Scopes!absVars
<1> QED
  BY <1>6, <1>7, <1>8, <1>9, <1>10, <1>11, <1>12, StepCases

\* Until it ignores a push, the runtime implements the promise of RegionScopes.
THEOREM RuntimeKeepsPromise == Spec => ImplementsScopes
<1> DEFINE Safe == TypeOK /\ FramesInv /\ ScopeInv
<1>1. Init => Scopes!Init
  <2> SUFFICES ASSUME Init PROVE Scopes!Init
    OBVIOUS
  <2>1. Shape \in [1..1 -> Kinds]
    <3> DEFINE first == [kind |-> "fn", base |-> 0]
    <3>1. ctl = <<first>> /\ first \in Entry /\ first.kind \in Kinds
      BY DEF Init, Entry, Kinds
    <3> HIDE DEF first
    <3>2. DOMAIN ctl = 1..1 /\ ctl[1] = first
      BY <3>1
    <3> QED BY <3>1, <3>2 DEF Shape
  <2>2. heap = [o \in Objects |-> "fresh"] /\ owner = [o \in Objects |-> Scopes!Closed]
    BY DEF Init, Closed, Scopes!Closed
  <2> QED BY <2>1, <2>2 DEF Scopes!Init, Shape
<1>2. Init => Safe
  BY TypeStart, FramesStart, ScopeStart DEF Init
<1>3. Safe /\ [Next]_vars => Safe'
  BY TypeStep, FramesStep, ScopeStep
<1>4. Safe /\ [Next]_vars
        => [saturated' \/ Scopes!Next \/ UNCHANGED Scopes!absVars]_vars
  <2> SUFFICES ASSUME Safe, [Next]_vars, ~saturated'
               PROVE  Scopes!Next \/ UNCHANGED Scopes!absVars
    OBVIOUS
  <2>1. ~saturated
    BY SaturationStays
  <2> QED BY <2>1, StepMaps
<1> QED
  BY <1>1, <1>2, <1>3, <1>4, PTL DEF Spec, ImplementsScopes
=============================================================================
