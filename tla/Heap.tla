-------------------------------- MODULE Heap --------------------------------
(***************************************************************************)
(* The kernel heap: memory/heap.c, at the level of its block headers.      *)
(*                                                                         *)
(* Addresses are bytes from KERNEL_HEAP_START.  Every public operation is  *)
(* one step, because it runs under heap_lock.  Next to the headers the     *)
(* model keeps what the clients have written into their memory, so that a  *)
(* header or a copy that lands in somebody's payload is seen.              *)
(***************************************************************************)
EXTENDS Integers, FiniteSets

CONSTANTS
    Client,        \* code that owns at most one allocation each
    NULL,
    Align,         \* HEAP_ALIGNMENT
    Header,        \* sizeof(heap_block_t)
    PageSize,
    InitialPages,  \* HEAP_INITIAL_PAGES
    Expansion,     \* HEAP_MINIMUM_EXPANSION
    LimitPages,    \* KERNEL_HEAP_LIMIT
    Frames,        \* frames the page allocator can still give
    SizeMax,       \* SIZE_MAX
    Sizes          \* sizes that are asked for

ASSUME HeapAssumption ==
    /\ Align \in Nat \ {0} /\ Header \in Nat \ {0} /\ Header % Align = 0
    /\ PageSize \in Nat /\ PageSize % Align = 0 /\ PageSize > Header
    /\ LimitPages \in Nat /\ InitialPages \in 1..LimitPages /\ Expansion \in Nat \ {0}
    /\ Frames \in Nat /\ SizeMax \in Nat /\ Sizes \subseteq Nat
    /\ NULL \notin Nat

Limit == LimitPages * PageSize
Byte  == 0..(Limit - 1)
Addr  == {a \in Byte : a % Align = 0}
Block == [size : 0..Limit, previous : Addr \cup {NULL}, next : Addr \cup {NULL},
          magic : BOOLEAN, free : BOOLEAN]
NoBlock == [size |-> 0, previous |-> NULL, next |-> NULL, magic |-> FALSE, free |-> FALSE]

VARIABLES
    blk,        \* blk[a]: the header at address a, NoBlock where none is written
    first, last, mapped_end,
    frames,     \* free physical frames
    mem,        \* mem[a]: the client whose live data byte a holds, or NULL
    own         \* own[c]: <<pointer, bytes>> of client c, or <<>>

vars == <<blk, first, last, mapped_end, frames, mem, own>>
heap == [blk |-> blk, first |-> first, last |-> last, end |-> mapped_end, frames |-> frames]

-----------------------------------------------------------------------------
(* Helpers on a heap h = [blk, first, last, end, frames]                   *)

align_up_size(n) == IF n > SizeMax - (Align - 1) THEN 0
                    ELSE ((n + Align - 1) \div Align) * Align
pages_for_size(n) == (n + PageSize - 1) \div PageSize

\* heap_find_free_block: the first block on the list that is large enough.
heap_find_free_block(h, n) ==
    LET from[b \in Addr \cup {NULL}] ==
          IF b = NULL \/ (h.blk[b].free /\ h.blk[b].size >= n) THEN b
          ELSE from[h.blk[b].next]
    IN  from[h.first]

\* heap_split_block, and its version that leaves heap_last_block alone.
SplitBody(h, b, n, tail) ==
    LET rest == h.blk[b].size - n
        nb   == b + Header + n
        nx   == h.blk[b].next
        cut  == [h.blk EXCEPT ![nb] = [size |-> rest - Header, previous |-> b,
                                       next |-> nx, magic |-> TRUE, free |-> TRUE],
                              ![b].size = n, ![b].next = nb]
    IN  IF h.blk[b].size < n \/ rest < Header + Align THEN h
        ELSE [h EXCEPT !.blk = IF nx = NULL THEN cut ELSE [cut EXCEPT ![nx].previous = nb],
                       !.last = IF nx = NULL THEN tail ELSE @]
split_keeps_last(h, b, n) == SplitBody(h, b, n, h.last)
heap_split_block(h, b, n) == SplitBody(h, b, n, b + Header + n)

\* heap_merge_with_next, and its version that does not look at next->free.
MergeBody(h, b) ==
    LET nx == h.blk[b].next
        nn == h.blk[nx].next
        cut == [h.blk EXCEPT ![b].size = @ + Header + h.blk[nx].size,
                             ![b].next = nn, ![nx] = NoBlock]
    IN  [h EXCEPT !.blk = IF nn = NULL THEN cut ELSE [cut EXCEPT ![nn].previous = b],
                  !.last = IF nn = NULL THEN b ELSE @]
Adjacent(h, b) == h.blk[b].next = b + Header + h.blk[b].size
merge_any(h, b) == IF h.blk[b].next = NULL \/ ~Adjacent(h, b) THEN h ELSE MergeBody(h, b)
heap_merge_with_next(h, b) ==
    IF h.blk[b].next = NULL THEN h
    ELSE IF ~h.blk[h.blk[b].next].free \/ ~Adjacent(h, b) THEN h
    ELSE MergeBody(h, b)

\* heap_expand: more pages at the end, joined to a last block that is free.
\* Frames that were mapped before one is missing are given back.
heap_expand(h, n) ==
    LET need  == pages_for_size(Header + n)
        pages == IF need < Expansion THEN Expansion ELSE need
        bytes == pages * PageSize
        fresh == [size |-> bytes - Header, previous |-> h.last, next |-> NULL,
                  magic |-> TRUE, free |-> TRUE]
        grown == [h EXCEPT !.end = @ + bytes, !.frames = @ - pages]
    IN  IF n > SizeMax - Header \/ bytes > Limit - h.end \/ pages > h.frames THEN h
        ELSE IF h.blk[h.last].free
             THEN [grown EXCEPT !.blk = [h.blk EXCEPT ![h.last].size = @ + bytes]]
             ELSE [grown EXCEPT !.blk = [h.blk EXCEPT ![h.end] = fresh,
                                                      ![h.last].next = h.end],
                                !.last = h.end]

\* heap_allocate_unlocked: the new heap and the block, or NULL.
heap_allocate_unlocked(h, n) ==
    LET want == align_up_size(n)
        b0 == heap_find_free_block(h, want)
        h1 == IF b0 = NULL THEN heap_expand(h, want) ELSE h
        b  == IF b0 = NULL THEN heap_find_free_block(h1, want) ELSE b0
        h2 == heap_split_block(h1, b, want)
    IN  IF n = 0 \/ want = 0 THEN [h |-> h, b |-> NULL]
        ELSE IF b = NULL THEN [h |-> h1, b |-> NULL]
        ELSE [h |-> [h2 EXCEPT !.blk = [h2.blk EXCEPT ![b].free = FALSE]], b |-> b]

\* heap_block_from_pointer: the block of a pointer into the mapped heap, if its
\* header is one.
heap_block_from_pointer(h, p) ==
    IF p >= Header /\ p < h.end /\ h.blk[p - Header].magic THEN p - Header ELSE NULL

\* heap_free_unlocked: merge forward, then into the previous block; nothing for
\* a pointer that is no block and for a block that is free.
merge_forward(h, p) ==
    LET b == heap_block_from_pointer(h, p)
    IN  IF b = NULL \/ h.blk[b].free THEN h
        ELSE heap_merge_with_next([h EXCEPT !.blk = [h.blk EXCEPT ![b].free = TRUE]], b)
heap_free_unlocked(h, p) ==
    LET b  == heap_block_from_pointer(h, p)
        h1 == merge_forward(h, p)
        pr == h1.blk[b].previous
    IN  IF b = NULL \/ h.blk[b].free \/ pr = NULL THEN h1
        ELSE IF h1.blk[pr].free THEN heap_merge_with_next(h1, pr) ELSE h1

-----------------------------------------------------------------------------
\* heap_initialize: one free block over the initial pages.
Init ==
    /\ blk = [a \in Addr |-> IF a = 0
                THEN [size |-> InitialPages * PageSize - Header, previous |-> NULL,
                      next |-> NULL, magic |-> TRUE, free |-> TRUE]
                ELSE NoBlock]
    /\ first = 0 /\ last = 0 /\ mapped_end = InitialPages * PageSize
    /\ frames = Frames
    /\ mem = [a \in Byte |-> NULL]
    /\ own = [c \in Client |-> <<>>]

Become(h) == /\ blk' = h.blk /\ first' = h.first /\ last' = h.last
             /\ mapped_end' = h.end /\ frames' = h.frames

Bytes(p, n) == p..(p + n - 1)

\* What the headers written by a step do to the bytes under them.
Under(h, m) ==
    LET headers == UNION {Bytes(b, Header) : b \in {x \in Addr : /\ h.blk[x].magic
                                                                 /\ h.blk[x] # blk[x]}}
    IN  [a \in Byte |-> IF a \in headers THEN NULL ELSE m[a]]
\* Client c fills bytes B.
Given(m, c, B) == [a \in Byte |-> IF a \in B THEN c ELSE m[a]]
\* Client c has n bytes at p and nothing else; they hold its data where m says so.
Live(m, c, p, n) == [a \in Byte |-> IF m[a] = c /\ a \notin Bytes(p, n) THEN NULL ELSE m[a]]

\* kmalloc; the client fills what it got.
kmalloc(c, n) ==
    LET r == heap_allocate_unlocked(heap, n)
        p == r.b + Header
    IN  /\ own[c] = <<>>
        /\ Become(r.h)
        /\ IF r.b = NULL
             THEN UNCHANGED <<own, mem>>
             ELSE /\ own' = [own EXCEPT ![c] = <<p, n>>]
                  /\ mem' = Given(Under(r.h, mem), c, Bytes(p, n))

kfree(c) ==
    LET h == heap_free_unlocked(heap, own[c][1])
    IN  /\ own[c] # <<>>
        /\ Become(h)
        /\ own' = [own EXCEPT ![c] = <<>>]
        /\ mem' = Live(Under(h, mem), c, 0, 0)

\* How many bytes krealloc copies.
copy_size(h, b, n) == IF h.blk[b].size < n THEN h.blk[b].size ELSE n

\* krealloc of a block that is owned, to a size that is not zero (krealloc(NULL, n)
\* is kmalloc and krealloc(p, 0) is kfree): in place, in place with the next
\* block, or by copying.  The client fills what is new.
krealloc(c, n) ==
    LET p == own[c][1]
        b == heap_block_from_pointer(heap, p)
        want == align_up_size(n)
        nx == blk[b].next
        joins == /\ nx # NULL
                 /\ blk[nx].free
                 /\ blk[b].size + Header + blk[nx].size >= want
        stay == heap_split_block(heap, b, want)
        join == heap_split_block(heap_merge_with_next(heap, b), b, want)
        r == heap_allocate_unlocked(heap, n)
        q == r.b + Header
        k == copy_size(r.h, b, n)
        moved == heap_free_unlocked(r.h, p)
        Filled(m, at) == Live(Given(m, c, (at + own[c][2])..(at + n - 1)), c, at, n)
        under == Under(moved, mem)
        Copied == [a \in Byte |-> IF a \in Bytes(q, k) THEN mem[p + (a - q)] ELSE under[a]]
    IN  /\ own[c] # <<>> /\ n # 0 /\ want # 0
        /\ b # NULL /\ ~blk[b].free
        /\ IF blk[b].size >= want
             THEN /\ Become(stay)
                  /\ own' = [own EXCEPT ![c] = <<p, n>>]
                  /\ mem' = Filled(Under(stay, mem), p)
           ELSE IF joins
             THEN /\ Become(join)
                  /\ own' = [own EXCEPT ![c] = <<p, n>>]
                  /\ mem' = Filled(Under(join, mem), p)
           ELSE IF r.b = NULL
             THEN Become(r.h) /\ UNCHANGED <<own, mem>>
             ELSE /\ Become(moved)
                  /\ own' = [own EXCEPT ![c] = <<q, n>>]
                  /\ mem' = Filled(Copied, q)

Next == \E c \in Client : \/ kfree(c)
                          \/ \E n \in Sizes : kmalloc(c, n) \/ krealloc(c, n)

Spec == Init /\ [][Next]_vars

-----------------------------------------------------------------------------
Blocks == {b \in Addr : blk[b].magic}

\* Types.
TypeOK ==
    /\ blk \in [Addr -> Block] /\ first \in Addr /\ last \in Addr
    /\ mapped_end \in 0..Limit /\ frames \in 0..Frames
    /\ mem \in [Byte -> Client \cup {NULL}]
    /\ \A c \in Client : own[c] # <<>> => own[c][1] \in Addr

\* The list is what it pretends to be: it starts at 0, next and previous agree,
\* last is the end of it, and the blocks tile the mapped heap without a gap (heap.c:350-439).
ListWellFormed ==
    /\ TypeOK
    /\ first = 0 /\ first \in Blocks /\ blk[first].previous = NULL
    /\ last \in Blocks
    /\ \A b \in Blocks :
         LET end == b + Header + blk[b].size
             nx  == blk[b].next
         IN  /\ nx = NULL <=> b = last
             /\ nx = NULL => end = mapped_end
             /\ nx # NULL => nx = end /\ nx \in Blocks /\ blk[nx].previous = b

\* Every client finds in its memory what it wrote there, whatever the others
\* allocate, free and resize; it lies in a block of its own that is not free and
\* large enough, and nobody else's blocks are in use.
PayloadIntact ==
    /\ \A c \in Client : own[c] # <<>> =>
          \A a \in Bytes(own[c][1], own[c][2]) : mem[a] = c
    /\ \A c \in Client : own[c] # <<>> =>
          LET b == own[c][1] - Header
          IN  b \in Blocks /\ ~blk[b].free /\ blk[b].size >= own[c][2]
    /\ Cardinality({b \in Blocks : ~blk[b].free})
         = Cardinality({c \in Client : own[c] # <<>>})
=============================================================================
