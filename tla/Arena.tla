-------------------------------- MODULE Arena --------------------------------
(***************************************************************************)
(* The arena every stage of the compiler allocates from (fearena/arena.c): *)
(* a list of chunks, of which only the newest is filled.  A block is never *)
(* given back; arena_free ends all of them at once.  An arena is a value   *)
(* here, so that the stages that allocate can carry it in their state.     *)
(***************************************************************************)
EXTENDS Integers, Sequences

CONSTANTS BlockSize,  \* block_size, what a chunk holds at least
          Requests    \* sizes asked for

ASSUME BlockSizeAssumption == BlockSize \in Nat \ {0}
ASSUME RequestsAssumption == Requests \subseteq Nat

\* chunks: oldest first, so the head of the list is the last one.
\* blocks: history, every block handed out, in order.
Chunk == [used : Nat, cap : Nat]
Block == [chunk : Nat \ {0}, off : Nat, size : Nat]
ArenaType == [chunks : Seq(Chunk), blocks : Seq(Block)]

NewChunk(n) == [used |-> 0, cap |-> IF n > BlockSize THEN n ELSE BlockSize]

arena_new == [chunks |-> <<NewChunk(0)>>, blocks |-> <<>>]

\* (n + 7) & ~7
Aligned(n) == 8 * ((n + 7) \div 8)

\* Mutant (of Fits): the last chunk is filled up to its capacity and beyond.
Fits_OneMore(chunks, n) ==
    chunks # <<>> /\ chunks[Len(chunks)].used <= chunks[Len(chunks)].cap

Fits(chunks, n) ==
    chunks # <<>> /\ chunks[Len(chunks)].used + n <= chunks[Len(chunks)].cap

\* The arena after n more bytes, already rounded up, were handed out.
Take(a, n) ==
    LET chunks == IF Fits(a.chunks, n) THEN a.chunks ELSE Append(a.chunks, NewChunk(n))
        last == Len(chunks)
        used == chunks[last].used
    IN  [chunks |-> [chunks EXCEPT ![last] = [@ EXCEPT !.used = used + n]],
         blocks |-> Append(a.blocks, [chunk |-> last, off |-> used, size |-> n])]

arena_alloc(a, n) == Take(a, Aligned(n))

\* n bytes and the zero that ends them.
arena_strndup(a, n) == arena_alloc(a, n + 1)

arena_free(a) == [chunks |-> <<>>, blocks |-> <<>>]

(***************************************************************************)
(* Any use of one arena.                                                   *)
(***************************************************************************)
VARIABLE arena

AInit == arena = arena_new

ANext == \/ \E n \in Requests : arena' = arena_alloc(arena, n)
         \/ \E n \in Requests : arena' = arena_strndup(arena, n)
         \/ arena' = arena_free(arena)

ASpec == AInit /\ [][ANext]_arena

(***************************************************************************)
(* Properties                                                              *)
(***************************************************************************)

\* What is handed out is memory of the chunk it lies in, aligned to eight
\* bytes, and no two blocks share a byte, whatever chunks were added in
\* between (arena.c 17-34).
BlocksApart ==
    /\ \A i \in DOMAIN arena.blocks :
          LET b == arena.blocks[i]
          IN  /\ b.chunk \in DOMAIN arena.chunks
              /\ b.off + b.size <= arena.chunks[b.chunk].used
              /\ arena.chunks[b.chunk].used <= arena.chunks[b.chunk].cap
              /\ b.off % 8 = 0
    /\ \A i, j \in DOMAIN arena.blocks :
          LET b == arena.blocks[i]
              c == arena.blocks[j]
          IN  i < j /\ b.chunk = c.chunk => b.off + b.size <= c.off
=============================================================================
