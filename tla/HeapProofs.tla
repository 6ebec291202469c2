----------------------------- MODULE HeapProofs -----------------------------
(***************************************************************************)
(* Heap for any clients, sizes, page and header sizes: the block list      *)
(* always tiles the mapped heap, and no client finds its bytes changed.    *)
(***************************************************************************)
EXTENDS Heap, FiniteSetTheorems, WellFoundedInduction, TLAPS

\* The blocks of a heap, the byte after one, and those in use.
BlocksOf(h) == {b \in Addr : h.blk[b].magic}
After(h, b) == b + Header + h.blk[b].size
Used(h) == {b \in BlocksOf(h) : ~h.blk[b].free}

\* The list of a heap: typed, linked both ways, without a gap, without overlap,
\* and nothing written outside of it.
HeapType == [blk : [Addr -> Block], first : Addr, last : Addr, end : 0..Limit, frames : 0..Frames]
Linked(h, b) ==
    /\ After(h, b) <= h.end
    /\ h.blk[b].next = NULL => b = h.last /\ After(h, b) = h.end
    /\ h.blk[b].next # NULL =>
          /\ b # h.last /\ h.blk[b].next = After(h, b)
          /\ After(h, b) \in BlocksOf(h) /\ h.blk[After(h, b)].previous = b
WF(h) ==
    /\ h \in HeapType /\ h.end % Align = 0
    /\ h.first = 0 /\ 0 \in BlocksOf(h) /\ h.blk[0].previous = NULL
    /\ h.last \in BlocksOf(h)
    /\ \A a \in Addr : a \notin BlocksOf(h) => h.blk[a] = NoBlock
    /\ \A b \in BlocksOf(h) : Linked(h, b)
    /\ \A b, c \in BlocksOf(h) : b < c => After(h, b) <= c

\* Block c of h is the same size and as free in g.
Same(h, g, c) == /\ c \in BlocksOf(g) /\ g.blk[c].size = h.blk[c].size
                 /\ g.blk[c].free = h.blk[c].free

-----------------------------------------------------------------------------
(* Arithmetic.                                                             *)
\* What the constants are.
LEMMA Consts ==
    /\ Align \in Nat /\ Align > 0 /\ Header \in Nat /\ Header > 0 /\ Header % Align = 0
    /\ PageSize \in Nat /\ PageSize > Header /\ PageSize % Align = 0
    /\ LimitPages \in Nat /\ Limit \in Nat /\ Expansion \in Nat /\ Expansion > 0
    /\ Frames \in Nat /\ SizeMax \in Nat /\ NULL \notin Nat /\ NULL \notin Addr
    /\ InitialPages \in Nat /\ InitialPages >= 1 /\ InitialPages <= LimitPages
    /\ Addr \subseteq Nat
<1>1. /\ Align \in Nat /\ Align > 0 /\ Header \in Nat /\ Header > 0 /\ Header % Align = 0
      /\ PageSize \in Nat /\ PageSize > Header /\ PageSize % Align = 0
      /\ LimitPages \in Nat /\ Expansion \in Nat /\ Expansion > 0
      /\ Frames \in Nat /\ SizeMax \in Nat /\ NULL \notin Nat
      /\ InitialPages \in Nat /\ InitialPages >= 1 /\ InitialPages <= LimitPages
  BY HeapAssumption
<1>2. Limit \in Nat
  BY <1>1 DEF Limit
<1>3. Addr \subseteq Nat
  BY <1>2 DEF Addr, Byte
<1> QED BY <1>1, <1>2, <1>3

\* A multiple, and a number that divides without rest.
LEMMA Multiple == ASSUME NEW x \in Int PROVE (x * Align) % Align = 0
BY Consts
LEMMA Divides == ASSUME NEW x \in Int, x % Align = 0 PROVE \E k \in Int : x = k * Align
<1>1. x \div Align \in Int /\ x = (x \div Align) * Align
  BY Consts
<1> QED BY <1>1

\* Sums, differences and products of aligned numbers are aligned.
LEMMA Aligned ==
    ASSUME NEW x \in Int, NEW y \in Int, x % Align = 0
    PROVE  /\ y % Align = 0 => (x + y) % Align = 0 /\ (x - y) % Align = 0
           /\ (y * x) % Align = 0
<1>1. PICK k \in Int : x = k * Align
  BY Divides
<1>2. ASSUME y % Align = 0 PROVE (x + y) % Align = 0 /\ (x - y) % Align = 0
  <2>1. PICK l \in Int : y = l * Align
    BY <1>2, Divides
  <2>2. x + y = (k + l) * Align /\ x - y = (k - l) * Align /\ k + l \in Int /\ k - l \in Int
    BY <1>1, <2>1, Consts
  <2> QED BY <2>2, Multiple
<1>3. y * x = (y * k) * Align /\ y * k \in Int
  BY <1>1, Consts
<1> QED BY <1>2, <1>3, Multiple

\* Rounding up by d.
LEMMA RoundUp ==
    ASSUME NEW d \in Nat, d > 0, NEW x \in Nat
    PROVE  /\ (x + d - 1) \div d \in Nat
           /\ ((x + d - 1) \div d) * d >= x
           /\ x > 0 => (x + d - 1) \div d > 0
OBVIOUS

\* align_up_size gives an aligned size that is large enough, or zero.
LEMMA AlignUp ==
    ASSUME NEW n \in Nat
    PROVE  /\ align_up_size(n) \in Nat /\ align_up_size(n) % Align = 0
           /\ align_up_size(n) # 0 => align_up_size(n) >= n
<1> DEFINE q == (n + Align - 1) \div Align
<1>1. q \in Nat /\ q * Align >= n
  BY Consts, RoundUp
<1>2. (q * Align) % Align = 0 /\ q * Align \in Nat
  BY <1>1, Multiple, Consts
<1>3. align_up_size(n) = 0 \/ align_up_size(n) = q * Align
  BY DEF align_up_size
<1>4. 0 % Align = 0
  BY Consts
<1> QED BY <1>1, <1>2, <1>3, <1>4

-----------------------------------------------------------------------------
(* Blocks of a well-formed heap.                                           *)
LEMMA BlockFacts ==
    ASSUME NEW h, WF(h), NEW b \in BlocksOf(h)
    PROVE  /\ b \in Addr /\ b \in Nat /\ b % Align = 0 /\ b < Limit
           /\ h.blk[b] \in Block /\ h.blk[b].size \in Nat /\ After(h, b) \in Nat
           /\ b < After(h, b) /\ b + Header <= After(h, b)
           /\ After(h, b) <= h.end /\ h.end \in Nat /\ h.end <= Limit /\ h.end % Align = 0
           /\ After(h, b) % Align = 0
           /\ h.blk[b].next = NULL <=> b = h.last
           /\ h.blk[b].next = NULL => After(h, b) = h.end
           /\ h.blk[b].next # NULL => /\ h.blk[b].next = After(h, b) /\ h.blk[b].next \in BlocksOf(h)
                                      /\ h.blk[h.blk[b].next].previous = b
<1>1. /\ h.blk \in [Addr -> Block] /\ h.end \in 0..Limit /\ h.end % Align = 0
      /\ Linked(h, b) /\ b \in Addr
  BY DEF WF, HeapType, BlocksOf
<1>2. h.blk[b] \in Block /\ h.blk[b].size \in Nat
  BY <1>1, Consts DEF Block
<1>3. b \in Nat /\ b % Align = 0 /\ b < Limit
  BY <1>1, Consts DEF Addr, Byte
<1>4. After(h, b) \in Nat /\ b + Header <= After(h, b) /\ b < After(h, b)
  BY <1>2, <1>3, Consts DEF After
<1>5. After(h, b) % Align = 0
  <2>1. CASE h.blk[b].next = NULL
    BY <1>1, <2>1 DEF Linked
  <2>2. CASE h.blk[b].next # NULL
    BY <1>1, <2>2 DEF Linked, BlocksOf, Addr
  <2> QED BY <2>1, <2>2
<1> QED BY <1>1, <1>2, <1>3, <1>4, <1>5, Consts DEF Linked

\* A header with another predecessor.
LEMMA Relinked ==
    ASSUME NEW x \in Block, NEW v \in Addr \cup {NULL}
    PROVE  LET y == [x EXCEPT !.previous = v]
           IN  /\ y \in Block /\ y.size = x.size /\ y.previous = v /\ y.next = x.next
               /\ y.magic = x.magic /\ y.free = x.free
BY DEF Block

-----------------------------------------------------------------------------
(* What splitting, merging and growing do to a well-formed heap.           *)
\* Splitting off a free block nb behind n bytes of b.
LEMMA CutWF ==
    ASSUME NEW h, WF(h), NEW b \in BlocksOf(h), NEW n \in Nat, n % Align = 0,
           h.blk[b].size >= n, h.blk[b].size - n >= Header + Align
    PROVE  LET g == heap_split_block(h, b, n)
           IN  /\ WF(g) /\ b \in BlocksOf(g) /\ g.blk[b].size = n
               /\ g.blk[b].free = h.blk[b].free
               /\ Used(g) = Used(h) /\ \A c \in BlocksOf(h) : c # b => Same(h, g, c)
<1> DEFINE g == heap_split_block(h, b, n)
           rest == h.blk[b].size - n
           nb == b + Header + n
           nx == h.blk[b].next
           e == After(h, b)
           fresh == [size |-> rest - Header, previous |-> b, next |-> nx, magic |-> TRUE, free |-> TRUE]
           cut == [h.blk EXCEPT ![nb] = fresh, ![b].size = n, ![b].next = nb]
           all == IF nx = NULL THEN cut ELSE [cut EXCEPT ![nx].previous = nb]
           top == IF nx = NULL THEN nb ELSE h.last
<1>1. g = [h EXCEPT !.blk = all, !.last = top]
  <2>1. h.blk[b].size \in Nat
    BY BlockFacts
  <2>2. ~(h.blk[b].size < n \/ rest < Header + Align)
    BY <2>1, Consts
  <2> QED BY <2>2 DEF heap_split_block, SplitBody
<1>2. /\ h \in HeapType /\ h.blk \in [Addr -> Block] /\ h.first = 0 /\ h.last \in Addr
      /\ h.end \in 0..Limit /\ h.frames \in 0..Frames
  BY DEF WF, HeapType
<1>3. g.blk = all /\ g.first = h.first /\ g.last = top /\ g.end = h.end /\ g.frames = h.frames
      /\ g = [blk |-> all, first |-> h.first, last |-> top, end |-> h.end, frames |-> h.frames]
  BY <1>1, <1>2 DEF HeapType
<1>0. nb = b + Header + n /\ e = After(h, b) /\ nx = h.blk[b].next /\ rest = h.blk[b].size - n
  OBVIOUS
<1>a. /\ fresh = [size |-> rest - Header, previous |-> b, next |-> nx, magic |-> TRUE, free |-> TRUE]
      /\ cut = [h.blk EXCEPT ![nb] = fresh, ![b].size = n, ![b].next = nb]
      /\ all = (IF nx = NULL THEN cut ELSE [cut EXCEPT ![nx].previous = nb])
      /\ top = (IF nx = NULL THEN nb ELSE h.last) /\ g.last = top
  BY <1>3
<1> HIDE DEF g, rest, nb, nx, e, fresh, cut, all, top
<1>4. /\ b \in Addr /\ b \in Nat /\ b % Align = 0 /\ h.blk[b] \in Block /\ h.blk[b].size \in Nat
      /\ e \in Nat /\ e <= h.end /\ h.end <= Limit /\ h.end \in Nat /\ e = b + Header + h.blk[b].size
      /\ nx = NULL <=> b = h.last
      /\ nx = NULL => e = h.end
      /\ nx # NULL => nx = e /\ nx \in BlocksOf(h) /\ h.blk[nx].previous = b
  BY <1>0, BlockFacts DEF After
<1>5. /\ nb \in Nat /\ b < nb /\ nb + Header + Align <= e /\ nb = b + Header + n
      /\ nb < Limit /\ nb % Align = 0 /\ nb \in Addr
  <2>1. nb \in Nat /\ b < nb /\ nb + Header + Align <= e /\ nb < Limit
    BY <1>0, <1>4, Consts
  <2>2. (b + Header) % Align = 0 /\ b + Header \in Int
    BY <1>4, Consts, Aligned
  <2>3. (b + Header + n) % Align = 0
    BY <2>2, Aligned
  <2> QED BY <1>0, <2>1, <2>3, Consts DEF Addr, Byte
<1>6. nb \notin BlocksOf(h) /\ nb # NULL /\ b # NULL
  <2>1. nb \in BlocksOf(h) => e <= nb
    BY <1>0, <1>a, Consts, <1>5 DEF WF
  <2> QED BY <1>4, <1>5, <2>1, Consts
<1>7. nx # NULL => nx \in Addr /\ nx \in Nat /\ nx > nb /\ nx # b /\ nx # nb
  BY <1>4, <1>5, Consts DEF BlocksOf
<1>8. /\ g.blk[nb] = fresh
      /\ g.blk[b] = [h.blk[b] EXCEPT !.size = n, !.next = nb]
      /\ nx # NULL => g.blk[nx] = [h.blk[nx] EXCEPT !.previous = nb]
      /\ \A a \in Addr : a # nb /\ a # b /\ a # nx => g.blk[a] = h.blk[a]
      /\ DOMAIN g.blk = Addr
  <2>1. nb # b /\ nb \in Addr /\ b \in Addr /\ DOMAIN h.blk = Addr
    BY <1>2, <1>4, <1>5
  <2>2. /\ DOMAIN cut = Addr
        /\ cut[nb] = fresh /\ cut[b] = [h.blk[b] EXCEPT !.size = n, !.next = nb]
        /\ \A a \in Addr : a # nb /\ a # b => cut[a] = h.blk[a]
    BY <1>a, <2>1
  <2>3. CASE nx = NULL
    BY <1>a, <1>3, <2>1, <2>2, <2>3, Consts
  <2>4. CASE nx # NULL
    <3>1. g.blk = [cut EXCEPT ![nx].previous = nb] /\ nx \in Addr /\ nx # b /\ nx # nb
      BY <1>a, <1>3, <1>7, <2>4
    <3> QED BY <2>1, <2>2, <2>4, <3>1
  <2> QED BY <2>3, <2>4
<1>9. /\ g.blk[b].size = n /\ g.blk[b].next = nb /\ g.blk[b].previous = h.blk[b].previous
      /\ g.blk[b].magic /\ g.blk[b].free = h.blk[b].free /\ g.blk[b] \in Block
      /\ g.blk[nb].size = rest - Header /\ g.blk[nb].next = nx /\ g.blk[nb].previous = b
      /\ g.blk[nb].magic /\ g.blk[nb].free /\ g.blk[nb] \in Block
  <2>1. h.blk[b].magic /\ n \in 0..Limit /\ rest - Header \in 0..Limit /\ nx \in Addr \cup {NULL}
    BY <1>0, <1>4, <1>5, Consts DEF BlocksOf, Block
  <2>2. b \in Addr \cup {NULL} /\ nb \in Addr \cup {NULL}
    BY <1>4, <1>5
  <2>3. h.blk[b] = [size |-> h.blk[b].size, previous |-> h.blk[b].previous, next |-> h.blk[b].next,
                    magic |-> h.blk[b].magic, free |-> h.blk[b].free]
        /\ h.blk[b].previous \in Addr \cup {NULL} /\ h.blk[b].free \in BOOLEAN
    BY <1>4 DEF Block
  <2>4. g.blk[b] = [size |-> n, previous |-> h.blk[b].previous, next |-> nb, magic |-> TRUE,
                    free |-> h.blk[b].free]
    BY <1>8, <2>1, <2>3
  <2>5. g.blk[nb] = [size |-> rest - Header, previous |-> b, next |-> nx, magic |-> TRUE, free |-> TRUE]
    BY <1>a, <1>8
  <2> QED BY <2>1, <2>2, <2>3, <2>4, <2>5 DEF Block
<1>10. nx # NULL =>
         /\ g.blk[nx].size = h.blk[nx].size /\ g.blk[nx].next = h.blk[nx].next
         /\ g.blk[nx].previous = nb /\ g.blk[nx].magic = h.blk[nx].magic
         /\ g.blk[nx].free = h.blk[nx].free /\ g.blk[nx] \in Block
  <2> HAVE nx # NULL
  <2>1. g.blk[nx] = [h.blk[nx] EXCEPT !.previous = nb] /\ h.blk[nx] \in Block
    BY <1>2, <1>7, <1>8
  <2> QED BY <1>5, <2>1, Relinked
<1>11. g \in HeapType
  <2>1. g.blk \in [Addr -> Block]
    <3>1. ASSUME NEW a \in Addr PROVE g.blk[a] \in Block
      <4>1. CASE a = nx
        BY <1>10, <4>1, Consts
      <4>2. CASE a = b \/ a = nb
        BY <1>9, <4>2
      <4>3. CASE a # b /\ a # nb /\ a # nx
        BY <1>2, <1>8, <4>3
      <4> QED BY <4>1, <4>2, <4>3
    <3>2. g.blk = [a \in Addr |-> g.blk[a]]
      <4>1. g.blk = [a \in DOMAIN g.blk |-> g.blk[a]]
        BY <1>2, <1>3, <1>a
      <4> QED BY <1>8, <4>1
    <3> QED BY <3>1, <3>2
  <2>2. top \in Addr
    BY <1>2, <1>5, <1>a
  <2> QED BY <1>2, <1>3, <2>1, <2>2 DEF HeapType
<1>12. /\ BlocksOf(g) = BlocksOf(h) \cup {nb}
       /\ \A a \in Addr : a # b /\ a # nb =>
            g.blk[a].size = h.blk[a].size /\ g.blk[a].next = h.blk[a].next /\ g.blk[a].free = h.blk[a].free
       /\ \A a \in Addr : a # nb /\ a # nx => g.blk[a].previous = h.blk[a].previous
  <2>1. \A a \in Addr : a # b /\ a # nb =>
          /\ g.blk[a].size = h.blk[a].size /\ g.blk[a].next = h.blk[a].next
          /\ g.blk[a].free = h.blk[a].free /\ g.blk[a].magic = h.blk[a].magic
    BY <1>8, <1>10, Consts
  <2>2. \A a \in Addr : a # nb /\ a # nx => g.blk[a].previous = h.blk[a].previous
    BY <1>8, <1>9
  <2>3. h.blk[b].magic
    BY DEF BlocksOf
  <2>4. \A a \in Addr : a \in BlocksOf(g) <=> a \in BlocksOf(h) \cup {nb}
    BY <1>9, <2>1, <2>3 DEF BlocksOf
  <2> QED BY <1>5, <2>1, <2>2, <2>4 DEF BlocksOf
<1>13. /\ After(g, b) = nb /\ After(g, nb) = e
       /\ \A a \in BlocksOf(h) : a # b => After(g, a) = After(h, a)
  <2>1. \A a \in BlocksOf(h) : a # b /\ a # nb => After(g, a) = After(h, a)
    BY <1>12 DEF After, BlocksOf
  <2>2. After(g, b) = nb
    BY <1>0, <1>9 DEF After
  <2>3. After(g, nb) = nb + Header + (rest - Header)
    BY <1>9 DEF After
  <2>4. After(g, nb) = e
    BY <1>0, <1>4, <2>3, Consts
  <2> QED BY <1>6, <2>1, <2>2, <2>4
<1>14. \A c, d \in BlocksOf(g) : c < d => After(g, c) <= d
  <2> SUFFICES ASSUME NEW c \in BlocksOf(g), NEW d \in BlocksOf(g), c < d PROVE After(g, c) <= d
    OBVIOUS
  <2>1. CASE c = nb
    <3>1. d \in BlocksOf(h) /\ d \in Nat /\ b < d
      BY <1>4, <1>5, <1>12, <2>1, Consts DEF BlocksOf
    <3> QED BY <1>0, <1>a, Consts, <1>13, <2>1, <3>1 DEF WF
  <2>2. CASE c # nb /\ d = nb
    <3>1. c \in BlocksOf(h) /\ c \in Nat
      BY <1>12, <2>2, Consts DEF BlocksOf
    <3>2. CASE c = b
      BY <1>5, <1>13, <2>2, <3>2
    <3>3. CASE c < b
      BY <1>4, <1>5, <1>13, <2>2, <3>1, <3>3, BlockFacts DEF WF
    <3>4. CASE c > b
      <4>1. e <= c
        BY <1>0, <3>1, <3>4 DEF WF
      <4> QED BY <1>4, <1>5, <2>2, <3>1, <4>1, Consts
    <3> QED BY <1>4, <3>1, <3>2, <3>3, <3>4
  <2>3. CASE c # nb /\ d # nb
    <3>1. c \in BlocksOf(h) /\ d \in BlocksOf(h) /\ c \in Nat /\ d \in Nat /\ After(h, c) <= d
      BY <1>12, <2>3, Consts DEF BlocksOf, WF
    <3>2. CASE c = b
      <4>1. e <= d /\ After(g, c) = nb
        BY <1>0, <1>13, <3>1, <3>2
      <4> QED BY <1>4, <1>5, <3>1, <4>1, Consts
    <3>3. CASE c # b
      BY <1>13, <3>1, <3>3
    <3> QED BY <3>2, <3>3
  <2> QED BY <2>1, <2>2, <2>3
<1>15. ASSUME NEW c \in BlocksOf(g) PROVE Linked(g, c)
  <2>1. CASE c = b
    <3>1. /\ After(g, b) = nb /\ nb <= g.end /\ g.blk[b].next = nb /\ nb # NULL
          /\ nb \in BlocksOf(g) /\ g.blk[nb].previous = b
      BY <1>3, <1>4, <1>5, <1>6, <1>9, <1>12, <1>13, Consts
    <3>2. b # g.last
      BY <1>a, <1>3, <1>4, <1>5
    <3> QED BY <2>1, <3>1, <3>2 DEF Linked
  <2>2. CASE c = nb
    <3>1. After(g, nb) = e /\ e <= g.end /\ g.blk[nb].next = nx
      BY <1>3, <1>4, <1>9, <1>13
    <3>2. nx = NULL => nb = g.last /\ e = g.end
      BY <1>a, <1>3, <1>4
    <3>3. nx # NULL => nb # g.last /\ nx = e /\ e \in BlocksOf(g) /\ g.blk[e].previous = nb
      BY <1>a, <1>3, <1>4, <1>6, <1>10, <1>12 DEF WF
    <3> QED BY <2>2, <3>1, <3>2, <3>3 DEF Linked
  <2>3. CASE c # b /\ c # nb
    <3>1. /\ c \in BlocksOf(h) /\ c \in Addr /\ After(g, c) = After(h, c) /\ g.blk[c].next = h.blk[c].next
          /\ After(h, c) <= h.end
      BY <1>12, <1>13, <2>3, BlockFacts DEF BlocksOf
    <3>2. CASE h.blk[c].next = NULL
      BY <1>0, <1>a, Consts, <1>3, <1>4, <2>3, <3>1, <3>2, BlockFacts DEF Linked
    <3>3. CASE h.blk[c].next # NULL
      <4>1. /\ c # h.last /\ h.blk[c].next = After(h, c) /\ After(h, c) \in BlocksOf(h)
            /\ h.blk[After(h, c)].previous = c
        BY <3>1, <3>3, BlockFacts
      <4>2. After(h, c) # nx \/ nx = NULL
        BY <1>4, <2>3, <4>1
      <4>3. After(h, c) # nb /\ After(h, c) # NULL /\ After(h, c) \in Addr
        BY <1>6, <4>1, Consts DEF BlocksOf
      <4>4. g.blk[After(h, c)].previous = c /\ After(h, c) \in BlocksOf(g)
        BY <1>12, <4>1, <4>2, <4>3, Consts
      <4>5. c # g.last
        BY <1>a, <2>3, <4>1
      <4> QED BY <1>3, <3>1, <3>3, <4>1, <4>4, <4>5 DEF Linked
    <3> QED BY <3>2, <3>3
  <2> QED BY <2>1, <2>2, <2>3
<1>16. \A a \in Addr : a \notin BlocksOf(g) => g.blk[a] = NoBlock
  BY <1>4, <1>8, <1>12, Consts DEF WF
<1>17. 0 \in BlocksOf(g) /\ g.blk[0].previous = NULL /\ g.last \in BlocksOf(g)
  <2>1. 0 \in BlocksOf(h) /\ h.blk[0].previous = NULL /\ h.last \in BlocksOf(h)
    BY DEF WF
  <2>2. 0 # nb /\ (nx # NULL => 0 # nx)
    BY <1>5, <1>7, <1>4
  <2>3. g.blk[0].previous = h.blk[0].previous
    BY <1>12, <2>1, <2>2, Consts DEF BlocksOf
  <2> QED BY <1>0, <1>a, Consts, <1>3, <1>12, <2>1, <2>3
<1>18. WF(g)
  BY <1>2, <1>3, <1>11, <1>14, <1>15, <1>16, <1>17 DEF WF
<1>19. \A c \in BlocksOf(h) : c # b => Same(h, g, c)
  BY <1>6, <1>12 DEF Same, BlocksOf
<1>20. Used(g) = Used(h)
  <2>1. nb \notin Used(g) /\ nb \notin Used(h)
    BY <1>6, <1>9 DEF Used
  <2>2. \A c \in BlocksOf(h) : g.blk[c].free = h.blk[c].free
    BY <1>9, <1>19 DEF Same
  <2> QED BY <1>12, <2>1, <2>2 DEF Used
<1>21. b \in BlocksOf(g)
  BY <1>12
<1> QED BY <1>9, <1>18, <1>19, <1>20, <1>21 DEF g

\* heap_split_block with any size that fits: it may leave the block as it is.
LEMMA SplitWF ==
    ASSUME NEW h, WF(h), NEW b \in BlocksOf(h), NEW n \in Nat, n % Align = 0,
           h.blk[b].size >= n
    PROVE  LET g == heap_split_block(h, b, n)
           IN  /\ WF(g) /\ b \in BlocksOf(g) /\ g.blk[b].size >= n
               /\ g.blk[b].free = h.blk[b].free
               /\ Used(g) = Used(h) /\ \A c \in BlocksOf(h) : c # b => Same(h, g, c)
<1> DEFINE g == heap_split_block(h, b, n)
<1>1. h.blk[b].size \in Nat
  BY BlockFacts
<1>2. CASE h.blk[b].size - n >= Header + Align
  BY <1>1, <1>2, CutWF
<1>3. CASE ~(h.blk[b].size - n >= Header + Align)
  <2>1. h.blk[b].size - n < Header + Align
    BY <1>1, <1>3, Consts
  <2>2. g = h
    BY <2>1 DEF heap_split_block, SplitBody
  <2>3. \A c \in BlocksOf(h) : Same(h, h, c)
    BY DEF Same
  <2> QED BY <2>2, <2>3
<1> QED BY <1>2, <1>3

\* Joining a block with the free block behind it.
LEMMA JoinWF ==
    ASSUME NEW h, WF(h), NEW b \in BlocksOf(h), h.blk[b].next # NULL,
           h.blk[h.blk[b].next].free
    PROVE  LET g == MergeBody(h, b)
           IN  /\ WF(g) /\ b \in BlocksOf(g)
               /\ g.blk[b].size = h.blk[b].size + Header + h.blk[h.blk[b].next].size
               /\ g.blk[b].free = h.blk[b].free
               /\ Used(g) = Used(h) /\ \A c \in Used(h) : c # b => Same(h, g, c)
<1> DEFINE g == MergeBody(h, b)
           nx == h.blk[b].next
           nn == h.blk[nx].next
           e == After(h, nx)
           bytes == h.blk[b].size + Header + h.blk[nx].size
           cut == [h.blk EXCEPT ![b].size = @ + Header + h.blk[nx].size, ![b].next = nn,
                                ![nx] = NoBlock]
           all == IF nn = NULL THEN cut ELSE [cut EXCEPT ![nn].previous = b]
           top == IF nn = NULL THEN b ELSE h.last
<1>1. g = [h EXCEPT !.blk = all, !.last = top]
  BY DEF MergeBody
<1>2. /\ h \in HeapType /\ h.blk \in [Addr -> Block] /\ h.first = 0 /\ h.last \in Addr
      /\ h.end \in 0..Limit /\ h.frames \in 0..Frames
  BY DEF WF, HeapType
<1>3. g.blk = all /\ g.first = h.first /\ g.last = top /\ g.end = h.end /\ g.frames = h.frames
      /\ g = [blk |-> all, first |-> h.first, last |-> top, end |-> h.end, frames |-> h.frames]
  BY <1>1, <1>2 DEF HeapType
<1>0. nx = h.blk[b].next /\ nn = h.blk[nx].next /\ e = After(h, nx)
      /\ bytes = h.blk[b].size + Header + h.blk[nx].size /\ h.blk[nx].free /\ nx # NULL
  OBVIOUS
<1>a. /\ cut = [h.blk EXCEPT ![b].size = @ + Header + h.blk[nx].size, ![b].next = nn,
                             ![nx] = NoBlock]
      /\ all = (IF nn = NULL THEN cut ELSE [cut EXCEPT ![nn].previous = b])
      /\ top = (IF nn = NULL THEN b ELSE h.last) /\ g.last = top
  BY <1>3
<1> HIDE DEF g, nx, nn, e, bytes, cut, all, top
<1>4. /\ b \in Addr /\ b \in Nat /\ h.blk[b] \in Block /\ h.blk[b].size \in Nat
      /\ b < After(h, b) /\ After(h, b) = b + Header + h.blk[b].size /\ b # h.last
      /\ nx = After(h, b) /\ nx \in BlocksOf(h) /\ h.end \in Nat /\ h.end <= Limit
  BY <1>0, BlockFacts DEF After
<1>5. /\ nx \in Addr /\ nx \in Nat /\ h.blk[nx] \in Block /\ h.blk[nx].size \in Nat
      /\ nx < e /\ e = nx + Header + h.blk[nx].size /\ e <= h.end
      /\ nn = NULL <=> nx = h.last
      /\ nn = NULL => e = h.end
      /\ nn # NULL => nn = e /\ nn \in BlocksOf(h) /\ h.blk[nn].previous = nx
  BY <1>0, <1>4, BlockFacts DEF After
<1>6. b # nx /\ b < nx /\ (nn # NULL => nn \in Addr /\ nn # b /\ nn # nx /\ nn > nx)
  BY <1>4, <1>5 DEF BlocksOf
<1>7. bytes \in 0..Limit /\ b + Header + bytes = e
  BY <1>0, <1>4, <1>5, Consts
<1>8. /\ g.blk[b] = [h.blk[b] EXCEPT !.size = bytes, !.next = nn]
      /\ g.blk[nx] = NoBlock
      /\ nn # NULL => g.blk[nn] = [h.blk[nn] EXCEPT !.previous = b]
      /\ \A a \in Addr : a # b /\ a # nx /\ a # nn => g.blk[a] = h.blk[a]
      /\ DOMAIN g.blk = Addr
  <2>1. DOMAIN h.blk = Addr
    BY <1>2
  <2>2. /\ DOMAIN cut = Addr
        /\ cut[nx] = NoBlock
        /\ \A a \in Addr : a # nx /\ a # b => cut[a] = h.blk[a]
    BY <1>a, <1>4, <1>5, <1>6, <2>1
  <2>3. cut[b] = [h.blk[b] EXCEPT !.size = bytes, !.next = nn]
    BY <1>0, <1>a, <1>4, <1>5, <1>6, <2>1
  <2>4. CASE nn = NULL
    BY <1>a, <1>3, <1>6, <2>2, <2>3, <2>4, Consts
  <2>5. CASE nn # NULL
    <3>1. g.blk = [cut EXCEPT ![nn].previous = b] /\ nn \in Addr /\ nn # b /\ nn # nx
      BY <1>a, <1>3, <1>6, <2>5
    <3> QED BY <1>4, <1>5, <1>6, <2>2, <2>3, <3>1
  <2> QED BY <2>4, <2>5
<1>9. /\ g.blk[b].size = bytes /\ g.blk[b].next = nn /\ g.blk[b].previous = h.blk[b].previous
      /\ g.blk[b].magic /\ g.blk[b].free = h.blk[b].free /\ g.blk[b] \in Block
      /\ ~g.blk[nx].magic /\ g.blk[nx] \in Block /\ ~g.blk[nx].free
  <2>1. h.blk[b].magic /\ nn \in Addr \cup {NULL}
    BY <1>0, <1>5 DEF BlocksOf, Block
  <2>2. NoBlock \in Block /\ ~NoBlock.magic /\ ~NoBlock.free
    BY Consts DEF NoBlock, Block
  <2>3. g.blk[b] = [h.blk[b] EXCEPT !.size = bytes, !.next = nn]
    BY <1>8
  <2>4. /\ g.blk[b].size = bytes /\ g.blk[b].next = nn /\ g.blk[b].previous = h.blk[b].previous
        /\ g.blk[b].magic = h.blk[b].magic /\ g.blk[b].free = h.blk[b].free /\ g.blk[b] \in Block
    <3>1. h.blk[b] = [size |-> h.blk[b].size, previous |-> h.blk[b].previous, next |-> h.blk[b].next,
                      magic |-> h.blk[b].magic, free |-> h.blk[b].free]
          /\ h.blk[b].previous \in Addr \cup {NULL} /\ h.blk[b].free \in BOOLEAN
      BY <1>4 DEF Block
    <3>2. g.blk[b] = [size |-> bytes, previous |-> h.blk[b].previous, next |-> nn, magic |-> TRUE,
                      free |-> h.blk[b].free]
      BY <2>1, <2>3, <3>1
    <3> QED BY <1>7, <2>1, <3>1, <3>2 DEF Block
  <2>5. g.blk[nx] = NoBlock
    BY <1>8
  <2>6. ~g.blk[nx].magic /\ g.blk[nx] \in Block /\ ~g.blk[nx].free
    BY <2>2, <2>5
  <2> QED BY <2>1, <2>4, <2>6
<1>10. nn # NULL =>
         /\ g.blk[nn].size = h.blk[nn].size /\ g.blk[nn].next = h.blk[nn].next
         /\ g.blk[nn].previous = b /\ g.blk[nn].magic = h.blk[nn].magic
         /\ g.blk[nn].free = h.blk[nn].free /\ g.blk[nn] \in Block
  <2> HAVE nn # NULL
  <2>1. g.blk[nn] = [h.blk[nn] EXCEPT !.previous = b] /\ h.blk[nn] \in Block
    BY <1>2, <1>6, <1>8
  <2> QED BY <1>4, <2>1, Relinked
<1>11. g \in HeapType
  <2>1. g.blk \in [Addr -> Block]
    <3>1. ASSUME NEW a \in Addr PROVE g.blk[a] \in Block
      <4>1. CASE a = nn
        BY <1>10, <4>1, Consts
      <4>2. CASE a = b \/ a = nx
        BY <1>9, <4>2
      <4>3. CASE a # b /\ a # nn /\ a # nx
        BY <1>2, <1>8, <4>3
      <4> QED BY <4>1, <4>2, <4>3
    <3>2. g.blk = [a \in Addr |-> g.blk[a]]
      <4>1. cut = [a \in DOMAIN cut |-> cut[a]]
        BY <1>2, <1>a
      <4>2. g.blk = [a \in DOMAIN g.blk |-> g.blk[a]]
        BY <1>3, <1>a, <4>1
      <4> QED BY <1>8, <4>2
    <3> QED BY <3>1, <3>2
  <2>2. top \in Addr
    BY <1>2, <1>4, <1>a
  <2> QED BY <1>2, <1>3, <2>1, <2>2 DEF HeapType
<1>12. /\ BlocksOf(g) = BlocksOf(h) \ {nx}
       /\ \A a \in Addr : a # b /\ a # nx =>
            g.blk[a].size = h.blk[a].size /\ g.blk[a].next = h.blk[a].next /\ g.blk[a].free = h.blk[a].free
       /\ \A a \in Addr : a # nx /\ a # nn => g.blk[a].previous = h.blk[a].previous
  <2>1. \A a \in Addr : a # b /\ a # nx =>
          /\ g.blk[a].size = h.blk[a].size /\ g.blk[a].next = h.blk[a].next
          /\ g.blk[a].free = h.blk[a].free /\ g.blk[a].magic = h.blk[a].magic
    BY <1>8, <1>10, Consts
  <2>2. \A a \in Addr : a # nx /\ a # nn => g.blk[a].previous = h.blk[a].previous
    BY <1>8, <1>9
  <2>3. h.blk[b].magic
    BY DEF BlocksOf
  <2>4. \A a \in Addr : a \in BlocksOf(g) <=> a \in BlocksOf(h) \ {nx}
    BY <1>9, <1>6, <2>1, <2>3 DEF BlocksOf
  <2> QED BY <1>5, <2>1, <2>2, <2>4 DEF BlocksOf
<1>13. /\ After(g, b) = e
       /\ \A a \in BlocksOf(g) : a # b => After(g, a) = After(h, a)
  <2>1. \A a \in BlocksOf(h) : a # b /\ a # nx => After(g, a) = After(h, a)
    BY <1>12 DEF After, BlocksOf
  <2>2. After(g, b) = e
    BY <1>7, <1>9 DEF After
  <2> QED BY <1>12, <2>1, <2>2
<1>14. \A c, d \in BlocksOf(g) : c < d => After(g, c) <= d
  <2> SUFFICES ASSUME NEW c \in BlocksOf(g), NEW d \in BlocksOf(g), c < d PROVE After(g, c) <= d
    OBVIOUS
  <2>1. c \in BlocksOf(h) /\ d \in BlocksOf(h) /\ c \in Nat /\ d \in Nat /\ d # nx /\ After(h, c) <= d
    BY <1>12, Consts DEF BlocksOf, WF
  <2>2. CASE c = b
    <3>1. nx < d
      BY <1>4, <1>5, <2>1, <2>2
    <3>2. e <= d
      BY <1>0, <1>4, <2>1, <3>1 DEF WF
    <3> QED BY <1>13, <2>2, <3>2
  <2>3. CASE c # b
    BY <1>13, <2>1, <2>3
  <2> QED BY <2>2, <2>3
<1>15. ASSUME NEW c \in BlocksOf(g) PROVE Linked(g, c)
  <2>1. CASE c = b
    <3>1. After(g, b) = e /\ e <= g.end /\ g.blk[b].next = nn
      BY <1>3, <1>5, <1>9, <1>13
    <3>2. nn = NULL => b = g.last /\ e = g.end
      BY <1>a, <1>3, <1>5
    <3>3. nn # NULL => b # g.last /\ nn = e /\ e \in BlocksOf(g) /\ g.blk[e].previous = b
      BY <1>a, <1>3, <1>4, <1>5, <1>6, <1>10, <1>12
    <3> QED BY <2>1, <3>1, <3>2, <3>3 DEF Linked
  <2>2. CASE c # b
    <3>1. /\ c \in BlocksOf(h) /\ c \in Addr /\ c # nx /\ After(g, c) = After(h, c)
          /\ g.blk[c].next = h.blk[c].next /\ After(h, c) <= h.end
      BY <1>12, <1>13, <2>2, BlockFacts DEF BlocksOf
    <3>2. CASE h.blk[c].next = NULL
      <4>1. c = h.last /\ After(h, c) = h.end
        BY <3>1, <3>2, BlockFacts
      <4>2. c = g.last
        BY <1>a, <1>5, <3>1, <4>1
      <4> QED BY <1>3, <3>1, <3>2, <4>1, <4>2 DEF Linked
    <3>3. CASE h.blk[c].next # NULL
      <4>1. /\ c # h.last /\ h.blk[c].next = After(h, c) /\ After(h, c) \in BlocksOf(h)
            /\ h.blk[After(h, c)].previous = c
        BY <3>1, <3>3, BlockFacts
      <4>2. After(h, c) # nn \/ nn = NULL
        BY <1>5, <3>1, <4>1
      <4>3. After(h, c) # nx
        <5>1. h.blk[nx].previous = b
          BY <1>0, <1>4, BlockFacts
        <5> QED BY <2>2, <4>1, <5>1
      <4>4. g.blk[After(h, c)].previous = c /\ After(h, c) \in BlocksOf(g)
        BY <1>12, <4>1, <4>2, <4>3, Consts DEF BlocksOf
      <4>5. c # g.last
        BY <1>a, <2>2, <4>1
      <4> QED BY <1>3, <3>1, <3>3, <4>1, <4>4, <4>5 DEF Linked
    <3> QED BY <3>2, <3>3
  <2> QED BY <2>1, <2>2
<1>16. \A a \in Addr : a \notin BlocksOf(g) => g.blk[a] = NoBlock
  <2> SUFFICES ASSUME NEW a \in Addr, a \notin BlocksOf(g) PROVE g.blk[a] = NoBlock
    OBVIOUS
  <2>1. CASE a = nx
    BY <1>8, <2>1
  <2>2. CASE a # nx
    <3>1. a \notin BlocksOf(h) /\ a # b /\ (nn # NULL => a # nn) /\ a # NULL
      BY <1>5, <1>12, <2>2, Consts
    <3> QED BY <1>8, <2>2, <3>1 DEF WF
  <2> QED BY <2>1, <2>2
<1>17. 0 \in BlocksOf(g) /\ g.blk[0].previous = NULL /\ g.last \in BlocksOf(g)
  <2>1. 0 \in BlocksOf(h) /\ h.blk[0].previous = NULL /\ h.last \in BlocksOf(h)
    BY DEF WF
  <2>2. 0 # nx /\ (nn # NULL => 0 # nn)
    BY <1>4, <1>5, <1>6
  <2>3. g.blk[0].previous = h.blk[0].previous
    BY <1>12, <2>1, <2>2, Consts DEF BlocksOf
  <2>4. g.last \in BlocksOf(g)
    BY <1>a, <1>3, <1>5, <1>6, <1>12, <2>1
  <2> QED BY <1>3, <1>12, <2>1, <2>2, <2>3, <2>4
<1>18. WF(g)
  BY <1>2, <1>3, <1>11, <1>14, <1>15, <1>16, <1>17 DEF WF
<1>19. \A c \in Used(h) : c # b => Same(h, g, c)
  BY <1>0, <1>12 DEF Same, BlocksOf, Used
<1>20. Used(g) = Used(h)
  <2>1. nx \notin Used(g) /\ nx \notin Used(h)
    BY <1>0, <1>9 DEF Used, BlocksOf
  <2>2. \A c \in BlocksOf(g) : g.blk[c].free = h.blk[c].free
    BY <1>9, <1>12 DEF BlocksOf
  <2> QED BY <1>12, <2>1, <2>2 DEF Used
<1>21. b \in BlocksOf(g)
  BY <1>6, <1>12
<1> QED BY <1>0, <1>9, <1>18, <1>19, <1>20, <1>21 DEF g

\* heap_merge_with_next: it joins, or leaves the heap as it is.
LEMMA MergeWF ==
    ASSUME NEW h, WF(h), NEW b \in BlocksOf(h)
    PROVE  LET g == heap_merge_with_next(h, b)
           IN  /\ WF(g) /\ b \in BlocksOf(g) /\ g.blk[b].size >= h.blk[b].size
               /\ h.blk[b].next # NULL /\ h.blk[h.blk[b].next].free =>
                    g.blk[b].size = h.blk[b].size + Header + h.blk[h.blk[b].next].size
               /\ g.blk[b].free = h.blk[b].free
               /\ Used(g) = Used(h) /\ \A c \in Used(h) : c # b => Same(h, g, c)
<1> DEFINE g == heap_merge_with_next(h, b)
           nx == h.blk[b].next
<1>1. h.blk[b].size \in Nat
  BY BlockFacts
<1>2. CASE nx # NULL /\ h.blk[nx].free
  <2>1. nx = After(h, b) /\ nx \in BlocksOf(h)
    BY <1>2, BlockFacts
  <2>2. h.blk[nx].size \in Nat
    BY <2>1, BlockFacts
  <2>3. g = MergeBody(h, b)
    BY <1>2, <2>1 DEF heap_merge_with_next, Adjacent, After
  <2>4. /\ WF(g) /\ b \in BlocksOf(g) /\ g.blk[b].size = h.blk[b].size + Header + h.blk[nx].size
        /\ g.blk[b].free = h.blk[b].free
        /\ Used(g) = Used(h) /\ \A c \in Used(h) : c # b => Same(h, g, c)
    BY <1>2, <2>3, JoinWF
  <2>5. h.blk[b].size + Header + h.blk[nx].size >= h.blk[b].size
    BY <1>1, <2>2, Consts
  <2> QED BY <2>4, <2>5
<1>3. CASE ~(nx # NULL /\ h.blk[nx].free)
  <2>1. g = h
    BY <1>3 DEF heap_merge_with_next
  <2>2. \A c \in Used(h) : Same(h, h, c)
    BY DEF Same, Used
  <2> QED BY <1>1, <1>3, <2>1, <2>2
<1> QED BY <1>2, <1>3

\* A heap whose links are those of a well-formed one is well formed.
LEMMA SameLinksWF ==
    ASSUME NEW h, WF(h), NEW g \in HeapType,
           g.first = h.first, g.last = h.last, g.end = h.end,
           \A a \in Addr : /\ g.blk[a].size = h.blk[a].size /\ g.blk[a].next = h.blk[a].next
                           /\ g.blk[a].previous = h.blk[a].previous
                           /\ g.blk[a].magic = h.blk[a].magic,
           \A a \in Addr : a \notin BlocksOf(h) => g.blk[a] = h.blk[a]
    PROVE  WF(g) /\ BlocksOf(g) = BlocksOf(h)
<1>1. BlocksOf(g) = BlocksOf(h)
  BY DEF BlocksOf
<1>2. \A a \in BlocksOf(h) : After(g, a) = After(h, a) /\ a \in Addr
  BY DEF After, BlocksOf
<1>3. ASSUME NEW a \in BlocksOf(h) PROVE Linked(g, a)
  <2>1. Linked(h, a) /\ a \in Addr /\ After(g, a) = After(h, a) /\ g.blk[a].next = h.blk[a].next
    BY <1>2 DEF WF
  <2>2. h.blk[a].next # NULL => g.blk[After(h, a)].previous = a
    BY <2>1 DEF Linked, BlocksOf
  <2> QED BY <1>1, <2>1, <2>2 DEF Linked
<1>4. \A a \in Addr : a \notin BlocksOf(g) => g.blk[a] = NoBlock
  BY <1>1 DEF WF
<1>5. \A c, d \in BlocksOf(g) : c < d => After(g, c) <= d
  BY <1>1, <1>2 DEF WF
<1>6. 0 \in BlocksOf(h) /\ 0 \in Addr /\ g.blk[0].previous = NULL
  <2>1. 0 \in BlocksOf(h) /\ h.blk[0].previous = NULL
    BY DEF WF
  <2> QED BY <2>1 DEF BlocksOf
<1> QED BY <1>1, <1>3, <1>4, <1>5, <1>6 DEF WF

\* Marking block b free or used.
LEMMA FlagWF ==
    ASSUME NEW h, WF(h), NEW b \in BlocksOf(h), NEW v \in BOOLEAN
    PROVE  LET g == [h EXCEPT !.blk = [h.blk EXCEPT ![b].free = v]]
           IN  /\ WF(g) /\ BlocksOf(g) = BlocksOf(h) /\ g.blk[b].free = v
               /\ g.blk[b].size = h.blk[b].size /\ g.blk[b].previous = h.blk[b].previous
               /\ Used(g) = IF v THEN Used(h) \ {b} ELSE Used(h) \cup {b}
               /\ \A c \in BlocksOf(h) : c # b => Same(h, g, c)
<1> DEFINE g == [h EXCEPT !.blk = [h.blk EXCEPT ![b].free = v]]
<1>1. /\ h \in HeapType /\ h.blk \in [Addr -> Block] /\ b \in Addr
      /\ h.blk[b] \in Block
  BY DEF WF, HeapType, BlocksOf
<1>2. g.blk = [h.blk EXCEPT ![b].free = v] /\ g.first = h.first /\ g.last = h.last /\ g.end = h.end
      /\ g.frames = h.frames
      /\ g = [blk |-> g.blk, first |-> h.first, last |-> h.last, end |-> h.end, frames |-> h.frames]
  BY <1>1 DEF HeapType
<1> HIDE DEF g
<1>3. /\ g.blk[b] = [h.blk[b] EXCEPT !.free = v]
      /\ \A a \in Addr : a # b => g.blk[a] = h.blk[a]
      /\ DOMAIN g.blk = Addr /\ g.blk = [a \in Addr |-> g.blk[a]]
  BY <1>1, <1>2
<1>4. /\ g.blk[b].size = h.blk[b].size /\ g.blk[b].next = h.blk[b].next
      /\ g.blk[b].previous = h.blk[b].previous /\ g.blk[b].magic = h.blk[b].magic
      /\ g.blk[b].free = v /\ g.blk[b] \in Block
  BY <1>1, <1>3 DEF Block
<1>5. g \in HeapType
  <2>1. \A a \in Addr : g.blk[a] \in Block
    BY <1>1, <1>3, <1>4
  <2>2. g.blk \in [Addr -> Block]
    BY <1>3, <2>1
  <2> QED BY <1>1, <1>2, <2>2 DEF HeapType
<1>6. \A a \in Addr : /\ g.blk[a].size = h.blk[a].size /\ g.blk[a].next = h.blk[a].next
                      /\ g.blk[a].previous = h.blk[a].previous
                      /\ g.blk[a].magic = h.blk[a].magic
  BY <1>3, <1>4
<1>7. \A a \in Addr : a \notin BlocksOf(h) => g.blk[a] = h.blk[a]
  BY <1>3
<1>8. WF(g) /\ BlocksOf(g) = BlocksOf(h)
  BY <1>2, <1>5, <1>6, <1>7, SameLinksWF
<1>9. \A c \in BlocksOf(h) : c # b => Same(h, g, c)
  BY <1>3, <1>8 DEF Same, BlocksOf
<1>10. Used(g) = IF v THEN Used(h) \ {b} ELSE Used(h) \cup {b}
  BY <1>4, <1>8, <1>9 DEF Used, Same
<1> QED BY <1>4, <1>8, <1>9, <1>10 DEF g

\* More pages for a last block that is free, and for one in use.
LEMMA GrowWF ==
    ASSUME NEW h, WF(h), NEW bytes \in Nat, NEW pages \in Nat, bytes % Align = 0,
           bytes <= Limit - h.end, pages <= h.frames, h.blk[h.last].free
    PROVE  LET g == [blk |-> [h.blk EXCEPT ![h.last].size = @ + bytes], first |-> h.first,
                     last |-> h.last, end |-> h.end + bytes, frames |-> h.frames - pages]
           IN  WF(g) /\ Used(g) = Used(h) /\ \A c \in Used(h) : Same(h, g, c)
<1> DEFINE g == [blk |-> [h.blk EXCEPT ![h.last].size = @ + bytes], first |-> h.first,
                 last |-> h.last, end |-> h.end + bytes, frames |-> h.frames - pages]
           b == h.last
<1>1. /\ h \in HeapType /\ h.blk \in [Addr -> Block] /\ h.first = 0 /\ h.last \in Addr
      /\ h.end \in 0..Limit /\ h.frames \in 0..Frames /\ b \in BlocksOf(h) /\ h.end % Align = 0
  BY DEF WF, HeapType
<1>2. /\ g.blk = [h.blk EXCEPT ![b].size = @ + bytes] /\ g.first = h.first /\ g.last = h.last
      /\ g.end = h.end + bytes /\ g.frames = h.frames - pages
      /\ g = [blk |-> g.blk, first |-> h.first, last |-> h.last, end |-> h.end + bytes,
              frames |-> h.frames - pages]
  OBVIOUS
<1>0. b = h.last /\ h.blk[b].free
  OBVIOUS
<1> HIDE DEF g, b
<1>3. /\ h.blk[b] \in Block /\ h.blk[b].size \in Nat /\ b \in Nat /\ After(h, b) = b + Header + h.blk[b].size
      /\ h.blk[b].next = NULL /\ After(h, b) = h.end /\ h.end \in Nat /\ Limit \in Nat
  BY <1>0, <1>1, BlockFacts, Consts DEF After
<1>4. /\ g.blk[b] = [h.blk[b] EXCEPT !.size = h.blk[b].size + bytes]
      /\ \A a \in Addr : a # b => g.blk[a] = h.blk[a]
      /\ DOMAIN g.blk = Addr /\ g.blk = [a \in Addr |-> g.blk[a]]
  BY <1>0, <1>1, <1>2
<1>5. h.blk[b].size + bytes \in 0..Limit /\ h.end + bytes \in 0..Limit /\ h.frames - pages \in 0..Frames
  BY <1>1, <1>3, Consts
<1>6. /\ g.blk[b].size = h.blk[b].size + bytes /\ g.blk[b].next = h.blk[b].next
      /\ g.blk[b].previous = h.blk[b].previous /\ g.blk[b].magic = h.blk[b].magic
      /\ g.blk[b].free = h.blk[b].free /\ g.blk[b] \in Block
  BY <1>3, <1>4, <1>5 DEF Block
<1>7. g \in HeapType
  <2>1. \A a \in Addr : g.blk[a] \in Block
    BY <1>1, <1>4, <1>6
  <2>2. g.blk \in [Addr -> Block]
    BY <1>4, <2>1
  <2> QED BY <1>1, <1>2, <1>5, <2>2 DEF HeapType
<1>8. BlocksOf(g) = BlocksOf(h)
  BY <1>4, <1>6 DEF BlocksOf
<1>9. \A c \in BlocksOf(h) : c # b => Same(h, g, c) /\ After(g, c) = After(h, c)
  BY <1>4, <1>8 DEF Same, BlocksOf, After
<1>10. After(g, b) = g.end
  <2>1. g.blk[b].size = h.blk[b].size + bytes /\ b + Header + h.blk[b].size = h.end
    BY <1>0, <1>3, <1>6
  <2>2. g.end = h.end + bytes
    BY <1>2
  <2>3. b + Header + (h.blk[b].size + bytes) = h.end + bytes
    BY <1>3, <2>1, Consts
  <2> QED BY <2>1, <2>2, <2>3 DEF After
<1>11. ASSUME NEW c \in BlocksOf(g) PROVE Linked(g, c)
  <2>1. CASE c = b
    BY <1>0, <1>2, <1>3, <1>6, <1>7, <1>10, <2>1 DEF Linked, HeapType
  <2>2. CASE c # b
    <3>1. /\ c \in BlocksOf(h) /\ c \in Addr /\ After(g, c) = After(h, c) /\ g.blk[c] = h.blk[c]
          /\ Linked(h, c)
      BY <1>4, <1>8, <1>9, <2>2 DEF WF, BlocksOf
    <3>2. After(g, c) <= g.end
      BY <1>1, <1>2, <3>1, BlockFacts
    <3>3. h.blk[c].next # NULL
      BY <1>0, <2>2, <3>1, BlockFacts
    <3>4. g.blk[After(h, c)].previous = c /\ After(h, c) \in BlocksOf(g)
      <4>1. After(h, c) \in BlocksOf(h) /\ After(h, c) \in Addr /\ h.blk[After(h, c)].previous = c
        BY <3>1, <3>3 DEF Linked, BlocksOf
      <4> QED BY <1>4, <1>6, <1>8, <4>1
    <3> QED BY <1>2, <3>1, <3>2, <3>3, <3>4 DEF Linked
  <2> QED BY <2>1, <2>2
<1>12. \A c, d \in BlocksOf(g) : c < d => After(g, c) <= d
  <2> SUFFICES ASSUME NEW c \in BlocksOf(g), NEW d \in BlocksOf(g), c < d PROVE After(g, c) <= d
    OBVIOUS
  <2>1. c \in BlocksOf(h) /\ d \in BlocksOf(h) /\ d \in Nat /\ After(h, c) <= d /\ d < After(h, d)
        /\ After(h, d) <= h.end /\ After(h, d) \in Nat
    BY <1>8, BlockFacts DEF WF
  <2>2. c # b
    BY <1>3, <2>1
  <2> QED BY <1>9, <2>1, <2>2
<1>13. \A a \in Addr : a \notin BlocksOf(g) => g.blk[a] = NoBlock
  BY <1>1, <1>4, <1>8 DEF WF
<1>14. 0 \in BlocksOf(h) /\ h.blk[0].previous = NULL /\ g.blk[0].previous = NULL
  <2>1. 0 \in BlocksOf(h) /\ h.blk[0].previous = NULL
    BY DEF WF
  <2> QED BY <1>4, <1>6, <2>1 DEF BlocksOf
<1>15. g.end % Align = 0
  BY <1>1, <1>2, <1>3, Aligned
<1>16. WF(g)
  BY <1>1, <1>2, <1>7, <1>8, <1>11, <1>12, <1>13, <1>14, <1>15 DEF WF
<1>17. Used(g) = Used(h) /\ \A c \in Used(h) : Same(h, g, c)
  <2>1. b \notin Used(h) /\ b \notin Used(g)
    BY <1>0, <1>6 DEF Used
  <2> QED BY <1>8, <1>9, <2>1 DEF Used, Same
<1> QED BY <1>16, <1>17 DEF g, b

LEMMA AppendWF ==
    ASSUME NEW h, WF(h), NEW bytes \in Nat, NEW pages \in Nat, bytes % Align = 0, bytes > Header,
           bytes <= Limit - h.end, pages <= h.frames
    PROVE  LET fresh == [size |-> bytes - Header, previous |-> h.last, next |-> NULL,
                         magic |-> TRUE, free |-> TRUE]
               g == [blk |-> [h.blk EXCEPT ![h.end] = fresh, ![h.last].next = h.end],
                     first |-> h.first, last |-> h.end, end |-> h.end + bytes,
                     frames |-> h.frames - pages]
           IN  WF(g) /\ Used(g) = Used(h) /\ \A c \in Used(h) : Same(h, g, c)
<1> DEFINE fresh == [size |-> bytes - Header, previous |-> h.last, next |-> NULL,
                     magic |-> TRUE, free |-> TRUE]
           g == [blk |-> [h.blk EXCEPT ![h.end] = fresh, ![h.last].next = h.end],
                 first |-> h.first, last |-> h.end, end |-> h.end + bytes,
                 frames |-> h.frames - pages]
           b == h.last
           e == h.end
<1>1. /\ h \in HeapType /\ h.blk \in [Addr -> Block] /\ h.first = 0 /\ h.last \in Addr
      /\ h.end \in 0..Limit /\ h.frames \in 0..Frames /\ b \in BlocksOf(h) /\ e % Align = 0
  BY DEF WF, HeapType
<1>2. /\ g.blk = [h.blk EXCEPT ![e] = fresh, ![b].next = e] /\ g.first = h.first /\ g.last = e
      /\ g.end = h.end + bytes /\ g.frames = h.frames - pages
      /\ g = [blk |-> g.blk, first |-> h.first, last |-> e, end |-> h.end + bytes,
              frames |-> h.frames - pages]
  OBVIOUS
<1>0. b = h.last /\ e = h.end
      /\ fresh = [size |-> bytes - Header, previous |-> b, next |-> NULL, magic |-> TRUE, free |-> TRUE]
  OBVIOUS
<1> HIDE DEF g, b, e, fresh
<1>3. /\ h.blk[b] \in Block /\ h.blk[b].size \in Nat /\ b \in Nat /\ After(h, b) = b + Header + h.blk[b].size
      /\ h.blk[b].next = NULL /\ After(h, b) = e /\ e \in Nat /\ Limit \in Nat /\ b < e
  BY <1>0, <1>1, BlockFacts, Consts DEF After
<1>4. e \in Addr /\ b \in Addr /\ e # b /\ e # NULL /\ e < Limit
  BY <1>0, <1>1, <1>3, Consts DEF Addr, Byte
<1>5. e \notin BlocksOf(h)
  <2>1. e \in BlocksOf(h) => e < After(h, e) /\ After(h, e) <= h.end /\ After(h, e) \in Nat
    BY BlockFacts
  <2> QED BY <1>0, <1>3, <2>1
<1>6. /\ g.blk[b] = [h.blk[b] EXCEPT !.next = e] /\ g.blk[e] = fresh
      /\ \A a \in Addr : a # b /\ a # e => g.blk[a] = h.blk[a]
      /\ DOMAIN g.blk = Addr /\ g.blk = [a \in Addr |-> g.blk[a]]
  BY <1>1, <1>2, <1>4
<1>7. h.end + bytes \in 0..Limit /\ h.frames - pages \in 0..Frames /\ bytes - Header \in 0..Limit
  BY <1>0, <1>1, <1>3, Consts
<1>8. /\ g.blk[b].size = h.blk[b].size /\ g.blk[b].next = e
      /\ g.blk[b].previous = h.blk[b].previous /\ g.blk[b].magic = h.blk[b].magic
      /\ g.blk[b].free = h.blk[b].free /\ g.blk[b] \in Block
  BY <1>3, <1>4, <1>6 DEF Block
<1>9. /\ g.blk[e].size = bytes - Header /\ g.blk[e].next = NULL /\ g.blk[e].previous = b
      /\ g.blk[e].magic /\ g.blk[e].free /\ g.blk[e] \in Block
  BY <1>0, <1>4, <1>6, <1>7 DEF Block
<1>10. g \in HeapType
  <2>1. \A a \in Addr : g.blk[a] \in Block
    BY <1>1, <1>6, <1>8, <1>9
  <2>2. g.blk \in [Addr -> Block]
    BY <1>6, <2>1
  <2> QED BY <1>1, <1>2, <1>4, <1>7, <2>2 DEF HeapType
<1>11. BlocksOf(g) = BlocksOf(h) \cup {e}
  BY <1>4, <1>6, <1>8, <1>9 DEF BlocksOf
<1>12. \A c \in BlocksOf(h) : Same(h, g, c) /\ After(g, c) = After(h, c)
  BY <1>5, <1>6, <1>8, <1>11 DEF Same, BlocksOf, After
<1>13. After(g, e) = g.end
  BY <1>0, <1>2, <1>3, <1>9, Consts DEF After
<1>14. ASSUME NEW c \in BlocksOf(g) PROVE Linked(g, c)
  <2>1. CASE c = e
    BY <1>2, <1>9, <1>10, <1>13, <2>1 DEF Linked, HeapType
  <2>2. CASE c = b
    <3>1. After(g, b) = e /\ e <= g.end
      BY <1>0, <1>1, <1>2, <1>3, <1>12
    <3> QED BY <1>2, <1>4, <1>8, <1>9, <1>11, <2>2, <3>1 DEF Linked
  <2>3. CASE c # b /\ c # e
    <3>1. /\ c \in BlocksOf(h) /\ c \in Addr /\ After(g, c) = After(h, c) /\ g.blk[c] = h.blk[c]
          /\ Linked(h, c)
      BY <1>6, <1>11, <1>12, <2>3 DEF WF, BlocksOf
    <3>2. After(g, c) <= g.end
      BY <1>1, <1>2, <3>1, BlockFacts
    <3>3. h.blk[c].next # NULL
      BY <1>0, <2>3, <3>1, BlockFacts
    <3>4. g.blk[After(h, c)].previous = c /\ After(h, c) \in BlocksOf(g)
      <4>1. After(h, c) \in BlocksOf(h) /\ After(h, c) \in Addr /\ h.blk[After(h, c)].previous = c
        BY <3>1, <3>3 DEF Linked, BlocksOf
      <4> QED BY <1>5, <1>6, <1>8, <1>11, <4>1
    <3> QED BY <1>2, <2>3, <3>1, <3>2, <3>3, <3>4 DEF Linked
  <2> QED BY <2>1, <2>2, <2>3
<1>15. \A c, d \in BlocksOf(g) : c < d => After(g, c) <= d
  <2> SUFFICES ASSUME NEW c \in BlocksOf(g), NEW d \in BlocksOf(g), c < d PROVE After(g, c) <= d
    OBVIOUS
  <2>1. CASE c = e
    <3>1. d \in BlocksOf(h)
      BY <1>3, <1>11, <2>1
    <3>2. d \in Nat /\ d < After(h, d) /\ After(h, d) <= h.end /\ After(h, d) \in Nat
      BY <3>1, BlockFacts
    <3> QED BY <1>0, <1>3, <2>1, <3>2
  <2>2. CASE c # e
    <3>1. c \in BlocksOf(h) /\ After(g, c) = After(h, c) /\ After(h, c) <= h.end
      BY <1>11, <1>12, <2>2, BlockFacts
    <3> QED BY <1>0, <1>11, <3>1 DEF WF
  <2> QED BY <2>1, <2>2
<1>16. \A a \in Addr : a \notin BlocksOf(g) => g.blk[a] = NoBlock
  BY <1>1, <1>6, <1>11 DEF WF
<1>17. 0 \in BlocksOf(g) /\ g.blk[0].previous = NULL
  <2>1. 0 \in BlocksOf(h) /\ h.blk[0].previous = NULL
    BY DEF WF
  <2> QED BY <1>5, <1>6, <1>8, <1>11, <2>1 DEF BlocksOf
<1>18. g.end % Align = 0
  BY <1>0, <1>1, <1>2, <1>3, Aligned
<1>19. WF(g)
  BY <1>1, <1>2, <1>10, <1>11, <1>14, <1>15, <1>16, <1>17, <1>18 DEF WF
<1>20. Used(g) = Used(h) /\ \A c \in Used(h) : Same(h, g, c)
  BY <1>5, <1>9, <1>11, <1>12 DEF Used, Same
<1> QED BY <1>19, <1>20 DEF g, b, e, fresh

\* A heap with another end and another number of frames.
LEMMA Widened ==
    ASSUME NEW h \in HeapType, NEW e, NEW f, NEW g, g = [h EXCEPT !.end = e, !.frames = f]
    PROVE  g = [blk |-> h.blk, first |-> h.first, last |-> h.last, end |-> e, frames |-> f]
BY DEF HeapType

\* heap_expand: a bigger heap, or the same one.
LEMMA ExpandWF ==
    ASSUME NEW h, WF(h), NEW n \in Nat
    PROVE  LET g == heap_expand(h, n)
           IN  WF(g) /\ Used(g) = Used(h) /\ \A c \in Used(h) : Same(h, g, c)
<1> DEFINE need == pages_for_size(Header + n)
           pages == IF need < Expansion THEN Expansion ELSE need
           bytes == pages * PageSize
           g == heap_expand(h, n)
<1>1. need \in Nat
  <2>1. Header + n \in Nat /\ PageSize \in Nat /\ PageSize > 0
    BY Consts
  <2> QED BY <2>1, RoundUp DEF pages_for_size
<1>2. pages \in Nat /\ pages >= 1
  <2> HIDE DEF need
  <2> QED BY <1>1, Consts
<1>3. bytes \in Nat /\ bytes % Align = 0 /\ bytes > Header
  <2> HIDE DEF pages
  <2>1. bytes \in Nat /\ bytes >= PageSize
    BY <1>2, Consts
  <2>2. bytes % Align = 0
    BY <1>2, Consts, Aligned
  <2> QED BY <2>1, <2>2, Consts
<1>4. CASE n > SizeMax - Header \/ bytes > Limit - h.end \/ pages > h.frames
  <2>1. g = h
    BY <1>4 DEF heap_expand
  <2> QED BY <2>1 DEF Same, Used
<1>5. CASE ~(n > SizeMax - Header \/ bytes > Limit - h.end \/ pages > h.frames)
  <2>1. h.end \in Nat /\ h.frames \in Nat /\ Limit \in Nat
    BY Consts DEF WF, HeapType
  <2>2. bytes <= Limit - h.end /\ pages <= h.frames
    <3> HIDE DEF bytes, pages
    <3> QED BY <1>2, <1>3, <1>5, <2>1
  <2> DEFINE grown == [h EXCEPT !.end = @ + bytes, !.frames = @ - pages]
  <2>a. grown = [blk |-> h.blk, first |-> h.first, last |-> h.last, end |-> h.end + bytes,
                 frames |-> h.frames - pages]
    <3> HIDE DEF bytes, pages
    <3>1. h \in HeapType
      BY DEF WF
    <3> QED BY <3>1, Widened
  <2>3. CASE h.blk[h.last].free
    <3> DEFINE new == [h.blk EXCEPT ![h.last].size = @ + bytes]
    <3>0. g = [grown EXCEPT !.blk = new]
      BY <1>5, <2>3 DEF heap_expand
    <3> DEFINE x == [blk |-> new, first |-> h.first,
                     last |-> h.last, end |-> h.end + bytes, frames |-> h.frames - pages]
    <3>1. g = x
      <4> HIDE DEF bytes, pages, g, grown, new
      <4> QED BY <2>a, <3>0
    <3> HIDE DEF bytes, pages, g
    <3>2. WF(x) /\ Used(x) = Used(h) /\ \A c \in Used(h) : Same(h, x, c)
      <4>1. h.blk[h.last].free /\ pages \in Nat /\ bytes \in Nat /\ bytes % Align = 0
            /\ bytes <= Limit - h.end /\ pages <= h.frames
        BY <1>2, <1>3, <2>2, <2>3
      <4> QED BY ONLY <4>1, GrowWF, WF(h)
    <3> HIDE DEF x
    <3> QED BY <3>1, <3>2 DEF g
  <2>4. CASE ~h.blk[h.last].free
    <3> DEFINE fresh == [size |-> bytes - Header, previous |-> h.last, next |-> NULL,
                         magic |-> TRUE, free |-> TRUE]
               new == [h.blk EXCEPT ![h.end] = fresh, ![h.last].next = h.end]
    <3>0. g = [grown EXCEPT !.blk = new, !.last = h.end]
      BY <1>5, <2>4 DEF heap_expand
    <3> DEFINE x == [blk |-> new, first |-> h.first,
                     last |-> h.end, end |-> h.end + bytes, frames |-> h.frames - pages]
    <3>1. g = x
      <4> HIDE DEF bytes, pages, g, grown, new
      <4> QED BY <2>a, <3>0
    <3> HIDE DEF bytes, pages, g
    <3>2. WF(x) /\ Used(x) = Used(h) /\ \A c \in Used(h) : Same(h, x, c)
      BY <1>2, <1>3, <2>2, AppendWF
    <3> HIDE DEF x
    <3> QED BY <3>1, <3>2 DEF g
  <2> QED BY <2>3, <2>4
<1> QED BY <1>4, <1>5

-----------------------------------------------------------------------------
(* Finding a block.                                                        *)
\* A set of natural numbers has a least member, and one with a bound a greatest.
LEMMA Least == ASSUME NEW X \in SUBSET Nat, X # {} PROVE \E x \in X : \A y \in X : x <= y
<1> DEFINE R == OpToRel(<, Nat)
<1>1. IsWellFoundedOn(R, Nat)
  BY NatLessThanWellFounded
<1>2. \A i, j \in Nat : i < j => <<i, j>> \in R
  BY DEF OpToRel
<1> HIDE DEF R
<1>3. PICK x \in X : \A y \in X : ~(<<y, x>> \in R)
  BY <1>1, WFMin
<1>4. ASSUME NEW y \in X PROVE x <= y
  <2>1. x \in Nat /\ y \in Nat /\ ~(y < x)
    BY <1>2, <1>3
  <2> QED BY <2>1
<1> QED BY <1>4
LEMMA Greatest ==
    ASSUME NEW m \in Nat, NEW X \in SUBSET Nat, X # {}, \A x \in X : x <= m
    PROVE  \E x \in X : \A y \in X : y <= x
<1> DEFINE Z == {z \in Nat : m - z \in X}
<1>1. Z # {}
  <2>1. PICK x \in X : TRUE
    OBVIOUS
  <2>2. m - x \in Nat /\ m - (m - x) = x
    BY <2>1
  <2> QED BY <2>1, <2>2
<1>2. PICK z \in Z : \A y \in Z : z <= y
  <2> HIDE DEF Z
  <2>1. Z \in SUBSET Nat
    BY DEF Z
  <2> QED BY <1>1, <2>1, Least
<1>3. ASSUME NEW y \in X PROVE y <= m - z
  <2>1. m - y \in Nat /\ m - (m - y) = y
    OBVIOUS
  <2>2. z <= m - y
    BY <1>2, <2>1
  <2> QED BY <2>2
<1> QED BY <1>2, <1>3

\* The block after b is the next one upward.
LEMMA NextBlock ==
    ASSUME NEW h, WF(h), NEW b \in BlocksOf(h), NEW c \in BlocksOf(h), c > b
    PROVE  h.blk[b].next # NULL /\ c >= h.blk[b].next
<1>1. After(h, b) <= c /\ c < After(h, c) /\ After(h, c) <= h.end /\ After(h, c) \in Nat
      /\ c \in Nat /\ h.end \in Nat /\ After(h, b) \in Nat
  BY BlockFacts DEF WF
<1>2. h.blk[b].next = NULL => After(h, b) = h.end
  BY BlockFacts
<1>3. h.blk[b].next # NULL => h.blk[b].next = After(h, b)
  BY BlockFacts
<1> QED BY <1>1, <1>2, <1>3

\* heap_find_free_block: a free block that is large enough, if it finds one.
LEMMA FindWF ==
    ASSUME NEW h, WF(h), NEW n \in Nat
    PROVE  LET b == heap_find_free_block(h, n)
           IN  b = NULL \/ (b \in BlocksOf(h) /\ h.blk[b].free /\ h.blk[b].size >= n)
<1> DEFINE Fit == {b \in BlocksOf(h) : h.blk[b].free /\ h.blk[b].size >= n}
           From(b) == {c \in Fit : c >= b}
           Lowest(b) == CHOOSE c \in From(b) : \A d \in From(b) : c <= d
           g == [b \in Addr \cup {NULL} |->
                   IF b \notin BlocksOf(h) \/ From(b) = {} THEN NULL ELSE Lowest(b)]
           Rec(f) == f = [b \in Addr \cup {NULL} |->
                            IF b = NULL \/ (h.blk[b].free /\ h.blk[b].size >= n) THEN b
                            ELSE f[h.blk[b].next]]
<1>1. ASSUME NEW b \in BlocksOf(h), From(b) # {}
      PROVE  Lowest(b) \in From(b) /\ \A d \in From(b) : Lowest(b) <= d
  <2>1. From(b) \in SUBSET Nat
    BY BlockFacts
  <2>2. \E c \in From(b) : \A d \in From(b) : c <= d
    <3> HIDE DEF From
    <3> QED BY <1>1, <2>1, Least
  <2> HIDE DEF From
  <2> QED BY <2>2
<1>2. NULL \notin BlocksOf(h) /\ BlocksOf(h) \subseteq Addr
      /\ \A a \in Addr : a \notin BlocksOf(h) => ~h.blk[a].free /\ h.blk[a].next = NULL
  BY Consts DEF BlocksOf, WF, NoBlock
<1>3. ASSUME NEW b \in Addr \cup {NULL}
      PROVE  g[b] = IF b = NULL \/ (h.blk[b].free /\ h.blk[b].size >= n) THEN b
                    ELSE g[h.blk[b].next]
  <2>1. CASE b = NULL
    BY <1>2, <2>1
  <2>2. CASE b # NULL /\ b \notin BlocksOf(h)
    BY <1>2, <2>2
  <2>3. CASE b \in Fit
    <3>1. b \in From(b) /\ b \in BlocksOf(h) /\ b \in Nat
      BY <2>3, BlockFacts
    <3>2. Lowest(b) = b
      <4>1. Lowest(b) \in From(b) /\ Lowest(b) <= b
        BY <1>1, <3>1
      <4>2. Lowest(b) \in Nat /\ Lowest(b) >= b
        BY <4>1, BlockFacts
      <4> QED BY <3>1, <4>1, <4>2
    <3> QED BY <1>2, <2>3, <3>1, <3>2
  <2>4. CASE b \in BlocksOf(h) /\ b \notin Fit
    <3> DEFINE nx == h.blk[b].next
    <3>1. b \in Nat /\ (nx # NULL => nx \in BlocksOf(h) /\ nx \in Nat /\ nx > b)
      BY <2>4, BlockFacts
    <3>2. \A c \in From(b) : nx # NULL /\ c >= nx
      <4> SUFFICES ASSUME NEW c \in From(b) PROVE nx # NULL /\ c >= nx
        OBVIOUS
      <4>1. c \in BlocksOf(h) /\ c \in Fit /\ c >= b
        OBVIOUS
      <4>2. c \in Nat /\ c # b
        BY <2>4, <4>1, BlockFacts
      <4>3. c > b
        BY <3>1, <4>1, <4>2
      <4> QED BY <2>4, <4>1, <4>3, NextBlock
    <3>3. CASE nx = NULL
      <4>1. From(b) = {}
        BY <3>2, <3>3
      <4> QED BY <1>2, <2>4, <3>3, <4>1
    <3>4. CASE nx # NULL
      <4>1. From(b) = From(nx)
        <5>1. \A c \in Fit : c \in Nat
          BY BlockFacts
        <5> QED BY <3>1, <3>2, <3>4, <5>1
      <4> HIDE DEF From
      <4> QED BY <1>2, <2>4, <3>1, <3>4, <4>1
    <3> QED BY <3>3, <3>4
  <2> QED BY <1>2, <2>1, <2>2, <2>3, <2>4
<1>4. Rec(g)
  <2>1. g = [b \in Addr \cup {NULL} |-> g[b]]
    OBVIOUS
  <2> HIDE DEF g, Fit
  <2> QED BY <1>3, <2>1
<1> HIDE DEF g
<1>5. PICK f : heap_find_free_block(h, n) = f[h.first] /\ Rec(f)
  BY <1>4 DEF heap_find_free_block
<1>6. \A b \in BlocksOf(h) : f[b] = NULL \/ f[b] \in Fit
  <2> DEFINE X == {b \in BlocksOf(h) : ~(f[b] = NULL \/ f[b] \in Fit)}
  <2> SUFFICES ASSUME X # {} PROVE FALSE
    OBVIOUS
  <2>1. X \in SUBSET Nat /\ Limit \in Nat /\ \A x \in X : x <= Limit
    BY BlockFacts, Consts
  <2>2. PICK x \in X : \A y \in X : y <= x
    <3> HIDE DEF X
    <3> QED BY <2>1, Greatest
  <2>3. x \in BlocksOf(h) /\ x \in Nat /\ x \in Addr
    BY <2>2, BlockFacts
  <2>4. x \notin Fit
    BY <1>2, <1>5, <2>2, <2>3
  <2>5. f[x] = f[h.blk[x].next]
    BY <1>2, <1>5, <2>3, <2>4
  <2>6. CASE h.blk[x].next = NULL
    BY <1>5, <2>2, <2>5, <2>6
  <2>7. CASE h.blk[x].next # NULL
    <3>1. h.blk[x].next \in BlocksOf(h) /\ h.blk[x].next \in Nat /\ h.blk[x].next > x
      BY <2>3, <2>7, BlockFacts
    <3>2. h.blk[x].next \notin X
      BY <2>2, <2>3, <3>1
    <3> QED BY <2>2, <2>5, <3>1, <3>2
  <2> QED BY <2>6, <2>7
<1>7. h.first \in BlocksOf(h)
  BY DEF WF
<1> QED BY <1>5, <1>6, <1>7

-----------------------------------------------------------------------------
(* Allocating and freeing.                                                 *)
LEMMA SameTrans ==
    ASSUME NEW h, NEW g, NEW k, NEW c, Same(h, g, c), Same(g, k, c)
    PROVE  Same(h, k, c)
BY DEF Same

\* heap_allocate_unlocked: a new block in use, large enough, and the others as they were.
LEMMA AllocWF ==
    ASSUME NEW h, WF(h), NEW n \in Nat
    PROVE  LET r == heap_allocate_unlocked(h, n)
           IN  /\ WF(r.h) /\ \A c \in Used(h) : Same(h, r.h, c)
               /\ r.b = NULL => Used(r.h) = Used(h)
               /\ r.b # NULL => /\ Used(r.h) = Used(h) \cup {r.b} /\ r.b \notin Used(h)
                                /\ r.h.blk[r.b].size >= n /\ n > 0
<1> DEFINE want == align_up_size(n)
           b0 == heap_find_free_block(h, want)
           h1 == IF b0 = NULL THEN heap_expand(h, want) ELSE h
           b  == IF b0 = NULL THEN heap_find_free_block(h1, want) ELSE b0
           h2 == heap_split_block(h1, b, want)
           g  == [h2 EXCEPT !.blk = [h2.blk EXCEPT ![b].free = FALSE]]
           r  == heap_allocate_unlocked(h, n)
<1>1. want \in Nat /\ want % Align = 0 /\ (want # 0 => want >= n)
  BY AlignUp
<1>2. r = IF n = 0 \/ want = 0 THEN [h |-> h, b |-> NULL]
          ELSE IF b = NULL THEN [h |-> h1, b |-> NULL] ELSE [h |-> g, b |-> b]
  BY DEF heap_allocate_unlocked
<1>3. \A c \in Used(h) : Same(h, h, c)
  BY DEF Same, Used
<1>4. WF(h1) /\ Used(h1) = Used(h) /\ \A c \in Used(h) : Same(h, h1, c)
  <2> HIDE DEF want, b0
  <2> QED BY <1>1, <1>3, ExpandWF
<1>5. b # NULL => b \in BlocksOf(h1) /\ h1.blk[b].free /\ h1.blk[b].size >= want
  <2>1. CASE b0 = NULL
    <3>1. b = heap_find_free_block(h1, want)
      BY <2>1
    <3> HIDE DEF want, b0, h1, b
    <3> QED BY <1>1, <1>4, <3>1, FindWF
  <2>2. CASE b0 # NULL
    <3>1. b = b0 /\ h1 = h
      BY <2>2
    <3>2. b0 = heap_find_free_block(h, want)
      OBVIOUS
    <3> HIDE DEF want, b0, h1, b
    <3> QED BY <1>1, <3>1, <3>2, <2>2, FindWF
  <2> QED BY <2>1, <2>2
<1> HIDE DEF want, b0, h1, b
<1>6. ASSUME b # NULL
      PROVE  /\ WF(g) /\ Used(g) = Used(h) \cup {b} /\ b \notin Used(h) /\ g.blk[b].size >= want
             /\ \A c \in Used(h) : Same(h, g, c)
  <2>1. /\ WF(h2) /\ b \in BlocksOf(h2) /\ h2.blk[b].size >= want /\ h2.blk[b].free
        /\ Used(h2) = Used(h1) /\ \A c \in BlocksOf(h1) : c # b => Same(h1, h2, c)
    BY <1>1, <1>4, <1>5, <1>6, SplitWF
  <2> HIDE DEF h2
  <2>2. /\ WF(g) /\ g.blk[b].size = h2.blk[b].size /\ Used(g) = Used(h2) \cup {b}
        /\ \A c \in BlocksOf(h2) : c # b => Same(h2, g, c)
    BY <2>1, FlagWF
  <2> HIDE DEF g
  <2>3. b \notin Used(h1)
    BY <1>5, <1>6 DEF Used
  <2>4. \A c \in Used(h) : Same(h, g, c)
    <3> SUFFICES ASSUME NEW c \in Used(h) PROVE Same(h, g, c)
      OBVIOUS
    <3>1. c # b /\ c \in Used(h1) /\ c \in BlocksOf(h1) /\ c \in BlocksOf(h2)
      BY <1>4, <2>1, <2>3 DEF Used
    <3>2. Same(h, h1, c) /\ Same(h1, h2, c) /\ Same(h2, g, c)
      BY <1>4, <2>1, <2>2, <3>1
    <3> QED BY <3>2, SameTrans
  <2> QED BY <1>4, <2>1, <2>2, <2>3, <2>4
<1> HIDE DEF h2, g
<1>7. CASE n = 0 \/ want = 0
  <2>1. r.h = h /\ r.b = NULL
    BY <1>2, <1>7
  <2> QED BY <1>3, <2>1
<1>8. CASE ~(n = 0 \/ want = 0) /\ b = NULL
  <2>1. r.h = h1 /\ r.b = NULL
    BY <1>2, <1>8
  <2> QED BY <1>4, <2>1
<1>9. CASE ~(n = 0 \/ want = 0) /\ b # NULL
  <2>1. r.h = g /\ r.b = b
    BY <1>2, <1>9
  <2>2. g.blk[b].size >= n /\ n > 0
    <3>1. b \in BlocksOf(g)
      BY <1>6, <1>9 DEF Used
    <3>2. g.blk[b].size \in Nat
      BY <1>6, <1>9, <3>1, BlockFacts
    <3> QED BY <1>1, <1>6, <1>9, <3>2
  <2> QED BY <1>6, <1>9, <2>1, <2>2
<1> QED BY <1>7, <1>8, <1>9

\* heap_block_from_pointer finds a block in use that holds something.
LEMMA PointerWF ==
    ASSUME NEW h, WF(h), NEW b \in BlocksOf(h), h.blk[b].size > 0
    PROVE  heap_block_from_pointer(h, b + Header) = b
<1>1. b \in Nat /\ h.end \in Nat /\ h.blk[b].size \in Nat /\ b + Header + h.blk[b].size <= h.end
  BY BlockFacts DEF After
<1>2. b + Header >= Header /\ b + Header < h.end /\ (b + Header) - Header = b
  BY <1>1, Consts
<1> QED BY <1>2 DEF heap_block_from_pointer, BlocksOf

\* The previous block of a block is a block.
LEMMA PreviousBlock ==
    ASSUME NEW h, WF(h), NEW b \in BlocksOf(h), h.blk[b].previous # NULL
    PROVE  h.blk[b].previous \in BlocksOf(h) /\ h.blk[b].previous # b
<1> DEFINE X == {x \in BlocksOf(h) : x < b}
<1>1. 0 \in X
  BY BlockFacts DEF WF
<1>2. X \in SUBSET Nat /\ b \in Nat /\ \A x \in X : x <= b
  BY BlockFacts
<1>3. PICK x \in X : \A y \in X : y <= x
  <2> HIDE DEF X
  <2> QED BY <1>1, <1>2, Greatest
<1>4. x \in BlocksOf(h) /\ x < b /\ x \in Nat
  BY <1>2, <1>3
<1>5. /\ h.blk[x].next # NULL /\ b >= h.blk[x].next /\ h.blk[x].next \in BlocksOf(h)
      /\ h.blk[x].next > x /\ h.blk[x].next \in Nat /\ h.blk[h.blk[x].next].previous = x
  <2>1. h.blk[x].next # NULL /\ b >= h.blk[x].next
    BY <1>2, <1>4, NextBlock
  <2>2. After(h, x) > x /\ After(h, x) \in Nat /\ h.blk[x].next = After(h, x)
    BY <1>4, <2>1, BlockFacts
  <2> QED BY <1>4, <2>1, <2>2, BlockFacts
<1>6. h.blk[x].next = b
  BY <1>2, <1>3, <1>4, <1>5
<1> QED BY <1>4, <1>5, <1>6

\* heap_free_unlocked of a block in use: that block and no other is given back.
LEMMA FreeWF ==
    ASSUME NEW h, WF(h), NEW b \in Used(h), h.blk[b].size > 0
    PROVE  LET g == heap_free_unlocked(h, b + Header)
           IN  WF(g) /\ Used(g) = Used(h) \ {b} /\ \A c \in Used(g) : Same(h, g, c)
<1> DEFINE h0 == [h EXCEPT !.blk = [h.blk EXCEPT ![b].free = TRUE]]
           h1 == heap_merge_with_next(h0, b)
           pr == h1.blk[b].previous
           g  == heap_free_unlocked(h, b + Header)
<1>1. b \in BlocksOf(h) /\ ~h.blk[b].free /\ b # NULL /\ heap_block_from_pointer(h, b + Header) = b
  BY PointerWF, Consts DEF Used, BlocksOf
<1>2. g = IF pr = NULL THEN h1 ELSE IF h1.blk[pr].free THEN heap_merge_with_next(h1, pr) ELSE h1
  BY <1>1 DEF heap_free_unlocked, merge_forward
<1>3. /\ WF(h0) /\ BlocksOf(h0) = BlocksOf(h) /\ h0.blk[b].free /\ Used(h0) = Used(h) \ {b}
      /\ \A c \in BlocksOf(h) : c # b => Same(h, h0, c)
  BY <1>1, FlagWF
<1> HIDE DEF h0
<1>4. /\ WF(h1) /\ b \in BlocksOf(h1) /\ Used(h1) = Used(h0)
      /\ \A c \in Used(h0) : c # b => Same(h0, h1, c)
  BY <1>1, <1>3, MergeWF
<1> HIDE DEF h1
<1>5. \A c \in Used(h) \ {b} : Same(h, h1, c)
  <2> SUFFICES ASSUME NEW c \in Used(h), c # b PROVE Same(h, h1, c)
    OBVIOUS
  <2>1. Same(h, h0, c) /\ Same(h0, h1, c)
    BY <1>3, <1>4 DEF Used
  <2> QED BY <2>1, SameTrans
<1>6. CASE g = h1
  BY <1>3, <1>4, <1>5, <1>6
<1>7. CASE pr # NULL /\ h1.blk[pr].free /\ g = heap_merge_with_next(h1, pr)
  <2>1. pr \in BlocksOf(h1)
    BY <1>4, <1>7, PreviousBlock
  <2> HIDE DEF pr
  <2>2. WF(g) /\ Used(g) = Used(h1) /\ \A c \in Used(h1) : c # pr => Same(h1, g, c)
    BY <1>4, <1>7, <2>1, MergeWF
  <2> HIDE DEF g
  <2>3. pr \notin Used(h1)
    BY <1>7 DEF Used
  <2>4. ASSUME NEW c \in Used(g) PROVE Same(h, g, c)
    <3>1. Same(h, h1, c) /\ Same(h1, g, c)
      BY <1>3, <1>4, <1>5, <2>2, <2>3
    <3> QED BY <3>1, SameTrans
  <2> QED BY <1>3, <1>4, <2>2, <2>4 DEF g
<1> QED BY <1>2, <1>6, <1>7

-----------------------------------------------------------------------------
(* The memory of the clients.                                              *)
\* Client c has n bytes at p, in a block of its own, and finds in them what it wrote.
Keeps(h, m, c, p, n) ==
    /\ p \in Nat /\ n \in Nat /\ n > 0
    /\ p - Header \in Used(h) /\ h.blk[p - Header].size >= n
    /\ \A a \in Bytes(p, n) : m[a] = c

\* Every client keeps what it has; a block in use is the block of one client.
Kept(h, m, o) ==
    /\ m \in [Byte -> Client \cup {NULL}]
    /\ o \in [Client -> {<<>>} \cup (Nat \X Nat)]
    /\ \A c \in Client : o[c] # <<>> => Keeps(h, m, c, o[c][1], o[c][2])
    /\ \A c, d \in Client : o[c] # <<>> /\ o[d] # <<>> /\ o[c][1] = o[d][1] => c = d
    /\ \A b \in Used(h) : \E c \in Client : o[c] # <<>> /\ o[c][1] - Header = b

IInv == WF(heap) /\ Kept(heap, mem, own)

\* The bytes of a block: in memory, and in no other block's header or bytes.
LEMMA Payload ==
    ASSUME NEW h, WF(h), NEW u \in BlocksOf(h), NEW n \in Nat, n <= h.blk[u].size,
           NEW a \in Bytes(u + Header, n)
    PROVE  /\ a \in Byte /\ a \in Nat /\ u \in Nat
           /\ \A b \in BlocksOf(h) : a \notin Bytes(b, Header)
           /\ \A b \in BlocksOf(h), k \in Nat :
                b # u /\ k <= h.blk[b].size => a \notin Bytes(b + Header, k)
<1>1. /\ u \in Nat /\ h.blk[u].size \in Nat /\ u + Header + h.blk[u].size <= h.end /\ h.end <= Limit
      /\ h.end \in Nat /\ Limit \in Nat /\ Header \in Nat /\ Header > 0
  BY BlockFacts, Consts DEF After
<1>2. a \in Int /\ u + Header <= a /\ a < u + Header + n
  BY <1>1 DEF Bytes
<1>3. a \in Byte /\ a \in Nat /\ a < u + Header + h.blk[u].size
  BY <1>1, <1>2 DEF Byte
<1>4. ASSUME NEW b \in BlocksOf(h)
      PROVE  /\ a \notin Bytes(b, Header)
             /\ \A k \in Nat : b # u /\ k <= h.blk[b].size => a \notin Bytes(b + Header, k)
  <2>1. b \in Nat /\ h.blk[b].size \in Nat
    BY BlockFacts
  <2>2. CASE b = u
    BY <1>1, <1>2, <2>2 DEF Bytes
  <2>3. CASE b < u
    <3>1. b + Header + h.blk[b].size <= u
      BY <2>3 DEF WF, After
    <3> QED BY <1>1, <1>2, <2>1, <3>1 DEF Bytes
  <2>4. CASE b > u
    <3>1. u + Header + h.blk[u].size <= b
      BY <2>4 DEF WF, After
    <3> QED BY <1>1, <1>2, <1>3, <2>1, <3>1 DEF Bytes
  <2> QED BY <1>1, <2>1, <2>2, <2>3, <2>4
<1> QED BY <1>1, <1>3, <1>4

\* The headers a step writes leave the bytes of every block alone.
LEMMA UnderPayload ==
    ASSUME NEW h, WF(h), NEW m \in [Byte -> Client \cup {NULL}]
    PROVE  /\ Under(h, m) \in [Byte -> Client \cup {NULL}]
           /\ \A u \in BlocksOf(h), n \in Nat : n <= h.blk[u].size =>
                 \A a \in Bytes(u + Header, n) : Under(h, m)[a] = m[a]
<1>1. Under(h, m) \in [Byte -> Client \cup {NULL}]
  BY DEF Under
<1>2. ASSUME NEW u \in BlocksOf(h), NEW n \in Nat, n <= h.blk[u].size,
             NEW a \in Bytes(u + Header, n)
      PROVE  Under(h, m)[a] = m[a]
  <2>1. a \in Byte /\ \A b \in BlocksOf(h) : a \notin Bytes(b, Header)
    BY <1>2, Payload
  <2>2. a \notin UNION {Bytes(b, Header) : b \in {x \in Addr : h.blk[x].magic /\ h.blk[x] # blk[x]}}
    BY <2>1 DEF BlocksOf
  <2> QED BY <2>1, <2>2 DEF Under
<1> QED BY <1>1, <1>2

\* A pointer and a size are something.
LEMMA Something == ASSUME NEW p, NEW n PROVE <<p, n>> # <<>>
OBVIOUS

\* Client c gets v; the others keep their blocks and their bytes.
LEMMA Renew ==
    ASSUME NEW h, WF(h), NEW m, NEW o, Kept(h, m, o), NEW g, WF(g), NEW c \in Client,
           NEW k \in [Byte -> Client \cup {NULL}], NEW v \in {<<>>} \cup (Nat \X Nat),
           \A d \in Client \ {c} : o[d] # <<>> =>
              /\ Same(h, g, o[d][1] - Header)
              /\ \A a \in Bytes(o[d][1], o[d][2]) : k[a] = m[a]
              /\ v # <<>> => o[d][1] # v[1],
           v # <<>> => Keeps(g, k, c, v[1], v[2]),
           \A b \in Used(g) : \/ v # <<>> /\ b = v[1] - Header
                              \/ b \in Used(h) /\ ~(o[c] # <<>> /\ b = o[c][1] - Header)
    PROVE  Kept(g, k, [o EXCEPT ![c] = v])
<1> DEFINE q == [o EXCEPT ![c] = v]
<1>1. /\ q \in [Client -> {<<>>} \cup (Nat \X Nat)]
      /\ q[c] = v /\ \A d \in Client \ {c} : q[d] = o[d]
  BY DEF Kept
<1> HIDE DEF q
<1>2. ASSUME NEW d \in Client, q[d] # <<>> PROVE Keeps(g, k, d, q[d][1], q[d][2])
  <2>1. CASE d = c
    BY <1>1, <1>2, <2>1
  <2>2. CASE d # c
    <3>1. q[d] = o[d] /\ o[d] # <<>> /\ Keeps(h, m, d, o[d][1], o[d][2])
          /\ Same(h, g, o[d][1] - Header)
          /\ \A a \in Bytes(o[d][1], o[d][2]) : k[a] = m[a]
      BY <1>1, <1>2, <2>2 DEF Kept
    <3>2. o[d][1] - Header \in Used(g) /\ g.blk[o[d][1] - Header].size >= o[d][2]
      BY <3>1 DEF Keeps, Same, Used
    <3> QED BY <3>1, <3>2 DEF Keeps
  <2> QED BY <2>1, <2>2
<1>3. ASSUME NEW d \in Client, NEW e \in Client, q[d] # <<>>, q[e] # <<>>, q[d][1] = q[e][1]
      PROVE  d = e
  BY <1>1, <1>3 DEF Kept
<1>4. ASSUME NEW b \in Used(g) PROVE \E d \in Client : q[d] # <<>> /\ q[d][1] - Header = b
  <2>1. CASE v # <<>> /\ b = v[1] - Header
    BY <1>1, <2>1
  <2>2. CASE b \in Used(h) /\ ~(o[c] # <<>> /\ b = o[c][1] - Header)
    <3>1. PICK d \in Client : o[d] # <<>> /\ o[d][1] - Header = b
      BY <2>2 DEF Kept
    <3>2. d # c
      BY <2>2, <3>1
    <3> QED BY <1>1, <3>1, <3>2
  <2> QED BY <2>1, <2>2
<1>5. Kept(g, k, q)
  BY <1>1, <1>2, <1>3, <1>4 DEF Kept
<1> QED BY <1>5 DEF q

-----------------------------------------------------------------------------
(* The steps.                                                              *)
\* A client's block, and its bytes under a new heap that has that block.
LEMMA Owned ==
    ASSUME NEW h, WF(h), NEW m, NEW o, Kept(h, m, o), NEW d \in Client, o[d] # <<>>
    PROVE  /\ o[d][1] \in Nat /\ o[d][2] \in Nat /\ o[d][2] > 0 /\ o[d][1] - Header \in Used(h)
           /\ o[d][1] - Header \in BlocksOf(h) /\ o[d][1] - Header \in Nat
           /\ o[d][1] = (o[d][1] - Header) + Header
           /\ h.blk[o[d][1] - Header].size >= o[d][2] /\ h.blk[o[d][1] - Header].size > 0
           /\ \A a \in Bytes(o[d][1], o[d][2]) : m[a] = d
<1>1. /\ o[d][1] \in Nat /\ o[d][2] \in Nat /\ o[d][2] > 0 /\ o[d][1] - Header \in Used(h)
      /\ h.blk[o[d][1] - Header].size >= o[d][2]
      /\ \A a \in Bytes(o[d][1], o[d][2]) : m[a] = d
  BY DEF Kept, Keeps
<1>2. o[d][1] - Header \in BlocksOf(h)
  BY <1>1 DEF Used
<1>3. o[d][1] - Header \in Nat /\ h.blk[o[d][1] - Header].size \in Nat
  BY <1>2, BlockFacts
<1>4. Header \in Nat
  BY Consts
<1>5. o[d][1] = (o[d][1] - Header) + Header
  BY <1>1, <1>4
<1>6. h.blk[o[d][1] - Header].size > 0
  BY <1>1, <1>3
<1> QED BY <1>1, <1>2, <1>3, <1>5, <1>6

\* A client's bytes are in none of the blocks of a new heap but its own.
LEMMA Others ==
    ASSUME NEW h, WF(h), NEW m, NEW o, Kept(h, m, o), NEW g, WF(g), NEW d \in Client,
           o[d] # <<>>, Same(h, g, o[d][1] - Header), NEW a \in Bytes(o[d][1], o[d][2]),
           NEW b \in BlocksOf(g), NEW k \in Nat, k <= g.blk[b].size
    PROVE  /\ a \in Byte /\ m[a] = d /\ Under(g, m)[a] = d
           /\ b # o[d][1] - Header => a \notin Bytes(b + Header, k)
<1> DEFINE u == o[d][1] - Header
           n == o[d][2]
<1>1. /\ u \in Used(h) /\ o[d][1] = u + Header /\ n \in Nat /\ n <= h.blk[u].size
      /\ h.blk[u].size \in Nat /\ m[a] = d
  BY Owned, BlockFacts
<1>2. u \in BlocksOf(g) /\ n <= g.blk[u].size
  BY <1>1 DEF Same
<1>3. m \in [Byte -> Client \cup {NULL}]
  BY DEF Kept
<1>4. a \in Bytes(u + Header, n)
  BY <1>1
<1> HIDE DEF u, n
<1>5. Under(g, m)[a] = m[a]
  BY <1>1, <1>2, <1>3, <1>4, UnderPayload
<1>6. a \in Byte /\ (b # u => a \notin Bytes(b + Header, k))
  BY <1>1, <1>2, <1>4, Payload
<1> QED BY <1>1, <1>5, <1>6 DEF u

\* A heap of a well-formed type is taken over as it is.
LEMMA Becomes == ASSUME NEW h, WF(h), Become(h) PROVE heap' = h
<1>1. h \in HeapType
  BY DEF WF
<1>2. heap' = [blk |-> h.blk, first |-> h.first, last |-> h.last, end |-> h.end, frames |-> h.frames]
  BY DEF Become, heap
<1> QED BY <1>1, <1>2 DEF HeapType

LEMMA FreeStep == ASSUME IInv, NEW c \in Client, kfree(c) PROVE IInv'
<1> DEFINE p == own[c][1]
           u == p - Header
           g == heap_free_unlocked(heap, p)
           k == Live(Under(g, mem), c, 0, 0)
<1>1. WF(heap) /\ Kept(heap, mem, own) /\ own[c] # <<>> /\ Become(g)
      /\ own' = [own EXCEPT ![c] = <<>>] /\ mem' = k
  BY DEF IInv, kfree
<1> HIDE DEF g, k
<1>2. u \in Used(heap) /\ p = u + Header /\ heap.blk[u].size > 0
  BY <1>1, Owned
<1>3. WF(g) /\ Used(g) = Used(heap) \ {u} /\ \A b \in Used(g) : Same(heap, g, b)
  <2> HIDE DEF p, u
  <2> QED BY <1>1, <1>2, FreeWF DEF g
<1>4. ASSUME NEW d \in Client \ {c}, own[d] # <<>>
      PROVE  /\ Same(heap, g, own[d][1] - Header)
             /\ \A a \in Bytes(own[d][1], own[d][2]) : k[a] = mem[a]
  <2>1. own[d][1] - Header \in Used(heap) /\ own[d][1] \in Nat /\ p \in Nat
    BY <1>1, <1>4, Owned
  <2>2. own[d][1] # p
    BY <1>1, <1>4 DEF Kept
  <2>3. own[d][1] - Header # u
    BY <2>1, <2>2, Consts
  <2>4. Same(heap, g, own[d][1] - Header)
    BY <1>3, <2>1, <2>3
  <2>5. ASSUME NEW a \in Bytes(own[d][1], own[d][2]) PROVE k[a] = mem[a]
    <3>0. 0 \in BlocksOf(g) /\ g.blk[0].size \in Nat /\ 0 \in Nat
      BY <1>3, BlockFacts DEF WF
    <3>1. a \in Byte /\ mem[a] = d /\ Under(g, mem)[a] = d
      BY <1>1, <1>3, <1>4, <2>4, <3>0, Others
    <3>2. Under(g, mem) \in [Byte -> Client \cup {NULL}]
      BY <1>1, <1>3, UnderPayload DEF Kept
    <3> HIDE DEF p, u
    <3>3. k[a] = Under(g, mem)[a]
      BY <1>4, <3>1 DEF k, Live
    <3> QED BY <3>1, <3>3
  <2> QED BY <2>4, <2>5
<1>5. k \in [Byte -> Client \cup {NULL}]
  BY <1>1, <1>3, UnderPayload DEF Kept, k, Live
<1>6. \A b \in Used(g) : b \in Used(heap) /\ ~(own[c] # <<>> /\ b = own[c][1] - Header)
  BY <1>3
<1> DEFINE v == <<>>
<1>7. Kept(g, k, [own EXCEPT ![c] = v])
  <2>1. v \in {<<>>} \cup (Nat \X Nat) /\ ~(v # <<>>)
    OBVIOUS
  <2>2. WF(heap) /\ Kept(heap, mem, own) /\ WF(g) /\ c \in Client /\ k \in [Byte -> Client \cup {NULL}]
    BY <1>1, <1>3, <1>5
  <2> HIDE DEF v, p, u
  <2>3. \A d \in Client \ {c} : own[d] # <<>> =>
           /\ Same(heap, g, own[d][1] - Header)
           /\ \A a \in Bytes(own[d][1], own[d][2]) : k[a] = mem[a]
           /\ v # <<>> => own[d][1] # v[1]
    BY <1>4, <2>1
  <2>4. \A b \in Used(g) : \/ v # <<>> /\ b = v[1] - Header
                           \/ b \in Used(heap) /\ ~(own[c] # <<>> /\ b = own[c][1] - Header)
    BY <1>6
  <2>5. v # <<>> => Keeps(g, k, c, v[1], v[2])
    BY <2>1
  <2> QED BY ONLY <2>1, <2>2, <2>3, <2>4, <2>5, Renew
<1>8. heap' = g
  BY <1>1, <1>3, Becomes
<1> QED BY <1>1, <1>3, <1>7, <1>8 DEF IInv

LEMMA MallocStep ==
    ASSUME IInv, NEW c \in Client, NEW n \in Nat, kmalloc(c, n) PROVE IInv'
<1> DEFINE r == heap_allocate_unlocked(heap, n)
           p == r.b + Header
           g == r.h
           under == Under(g, mem)
           k == Given(under, c, Bytes(p, n))
           v == <<p, n>>
<1>1. /\ WF(heap) /\ Kept(heap, mem, own) /\ own[c] = <<>> /\ Become(g)
      /\ r.b = NULL => own' = own /\ mem' = mem
      /\ r.b # NULL => own' = [own EXCEPT ![c] = v] /\ mem' = k
  BY DEF IInv, kmalloc
<1>2. /\ WF(g) /\ \A b \in Used(heap) : Same(heap, g, b)
      /\ r.b = NULL => Used(g) = Used(heap)
      /\ r.b # NULL => /\ Used(g) = Used(heap) \cup {r.b} /\ r.b \notin Used(heap)
                       /\ g.blk[r.b].size >= n /\ n > 0
  BY <1>1, AllocWF
<1> HIDE DEF r, g
<1>3. heap' = g
  BY <1>1, <1>2, Becomes
<1>4. CASE r.b = NULL
  <2>1. Kept(g, mem, own)
    <3>1. ASSUME NEW d \in Client, own[d] # <<>> PROVE Keeps(g, mem, d, own[d][1], own[d][2])
      <4>1. Keeps(heap, mem, d, own[d][1], own[d][2]) /\ own[d][1] - Header \in Used(heap)
        BY <1>1, <3>1 DEF Kept, Keeps
      <4>2. Same(heap, g, own[d][1] - Header)
        BY <1>2, <4>1
      <4> QED BY <1>2, <1>4, <4>1, <4>2 DEF Keeps, Same
    <3> QED BY <1>1, <1>2, <1>4, <3>1 DEF Kept
  <2> QED BY <1>1, <1>2, <1>3, <1>4, <2>1 DEF IInv
<1>5. CASE r.b # NULL
  <2>1. /\ r.b \in BlocksOf(g) /\ r.b \in Nat /\ n \in Nat /\ n <= g.blk[r.b].size
        /\ g.blk[r.b].size \in Nat /\ p \in Nat /\ p - Header = r.b
    <3>1. r.b \in BlocksOf(g) /\ r.b \in Nat /\ g.blk[r.b].size \in Nat
      BY <1>2, <1>5, BlockFacts DEF Used
    <3> QED BY <1>2, <1>5, <3>1, Consts
  <2>2. under \in [Byte -> Client \cup {NULL}]
    BY <1>1, <1>2, UnderPayload DEF Kept
  <2> HIDE DEF under
  <2>3. k \in [Byte -> Client \cup {NULL}]
    BY <2>2 DEF k, Given
  <2>4. ASSUME NEW d \in Client \ {c}, own[d] # <<>>
        PROVE  /\ Same(heap, g, own[d][1] - Header)
               /\ \A a \in Bytes(own[d][1], own[d][2]) : k[a] = mem[a]
               /\ own[d][1] # p
    <3>1. own[d][1] - Header \in Used(heap) /\ own[d][1] \in Nat
      BY <1>1, <2>4, Owned
    <3>2. own[d][1] - Header # r.b /\ own[d][1] # p
      BY <1>2, <1>5, <2>1, <3>1
    <3>3. Same(heap, g, own[d][1] - Header)
      BY <1>2, <3>1
    <3>4. ASSUME NEW a \in Bytes(own[d][1], own[d][2]) PROVE k[a] = mem[a]
      <4>1. a \in Byte /\ mem[a] = d /\ Under(g, mem)[a] = d /\ a \notin Bytes(p, n)
        <5>1. WF(heap) /\ Kept(heap, mem, own) /\ WF(g) /\ d \in Client /\ own[d] # <<>>
              /\ Same(heap, g, own[d][1] - Header) /\ a \in Bytes(own[d][1], own[d][2])
          BY <1>1, <1>2, <2>4, <3>3
        <5> QED BY <2>1, <3>2, <5>1, Others
      <4> HIDE DEF p
      <4> QED BY <4>1 DEF k, Given, under
    <3> QED BY <3>2, <3>3, <3>4
  <2>5. Keeps(g, k, c, p, n)
    <3>1. ASSUME NEW a \in Bytes(p, n) PROVE k[a] = c
      <4>1. a \in Byte
        BY <1>2, <2>1, Payload
      <4> HIDE DEF p
      <4> QED BY <4>1 DEF k, Given
    <3>2. p - Header \in Used(g) /\ g.blk[p - Header].size >= n
      BY <1>2, <1>5, <2>1
    <3> QED BY <1>2, <1>5, <2>1, <3>1, <3>2 DEF Keeps
  <2> HIDE DEF p, k
  <2>6. v[1] = p /\ v[2] = n /\ v \in Nat \X Nat /\ v # <<>>
    BY <2>1, Something
  <2>7. \A b \in Used(g) : b = v[1] - Header \/ (b \in Used(heap) /\ ~(own[c] # <<>>))
    BY <1>1, <1>2, <1>5, <2>1, <2>6
  <2> HIDE DEF v
  <2>8. Kept(g, k, [own EXCEPT ![c] = v])
    BY <1>1, <1>2, <2>3, <2>4, <2>5, <2>6, <2>7, Renew
  <2> QED BY <1>1, <1>2, <1>3, <1>5, <2>8 DEF IInv
<1> QED BY <1>4, <1>5

\* Byte a of n bytes at q is, as far from p, one of n bytes at p.
LEMMA Shifted ==
    ASSUME NEW p \in Int, NEW q \in Int, NEW a \in Int, NEW n \in Int, q <= a, a < q + n
    PROVE  p + (a - q) \in Bytes(p, n)
BY DEF Bytes

\* krealloc in place: the block of c is another size, and c fills what is new.
LEMMA InPlace ==
    ASSUME IInv, NEW c \in Client, own[c] # <<>>, NEW n \in Nat, n > 0, NEW g, WF(g),
           Used(g) = Used(heap), g.blk[own[c][1] - Header].size >= n,
           \A b \in Used(heap) : b # own[c][1] - Header => Same(heap, g, b)
    PROVE  Kept(g, Live(Given(Under(g, mem), c, (own[c][1] + own[c][2])..(own[c][1] + n - 1)),
                        c, own[c][1], n),
                [own EXCEPT ![c] = <<own[c][1], n>>])
<1> DEFINE p == own[c][1]
           u == p - Header
           under == Under(g, mem)
           given == Given(under, c, (p + own[c][2])..(p + n - 1))
           k == Live(given, c, p, n)
           v == <<p, n>>
<1>1. /\ WF(heap) /\ Kept(heap, mem, own) /\ p \in Nat /\ own[c][2] \in Nat /\ u \in Used(heap)
      /\ u \in BlocksOf(heap) /\ u \in Nat /\ p = u + Header
      /\ \A a \in Bytes(p, own[c][2]) : mem[a] = c
  BY Owned DEF IInv
<1>2. u \in Used(g) /\ u \in BlocksOf(g) /\ g.blk[u].size \in Nat /\ n <= g.blk[u].size
  BY <1>1, BlockFacts DEF Used
<1>3. mem \in [Byte -> Client \cup {NULL}] /\ under \in [Byte -> Client \cup {NULL}]
  BY <1>1, UnderPayload DEF Kept
<1> HIDE DEF p, u
<1>4. ASSUME NEW a \in Bytes(p, n) PROVE a \in Byte /\ a \in Nat /\ under[a] = mem[a]
  BY <1>1, <1>2, <1>3, Payload, UnderPayload
<1> HIDE DEF under
<1>5. given \in [Byte -> Client \cup {NULL}]
  BY <1>3 DEF Given
<1>6. \A a \in Byte : given[a] = IF a \in (p + own[c][2])..(p + n - 1) THEN c ELSE under[a]
  BY DEF Given
<1> HIDE DEF given
<1>7. k \in [Byte -> Client \cup {NULL}]
  BY <1>5 DEF Live
<1>8. \A a \in Byte : given[a] # c \/ a \in Bytes(p, n) => k[a] = given[a]
  BY DEF Live
<1> HIDE DEF k
<1>9. ASSUME NEW d \in Client \ {c}, own[d] # <<>>
      PROVE  /\ Same(heap, g, own[d][1] - Header)
             /\ \A a \in Bytes(own[d][1], own[d][2]) : k[a] = mem[a]
             /\ own[d][1] # p
  <2>1. own[d][1] - Header \in Used(heap) /\ own[d][1] \in Nat
    BY <1>1, <1>9, Owned
  <2>2. own[d][1] # p
    BY <1>1, <1>9 DEF Kept, p
  <2>3. own[d][1] - Header # u
    BY <1>1, <2>1, <2>2, Consts
  <2>4. Same(heap, g, own[d][1] - Header)
    BY <2>1, <2>3 DEF u, p
  <2>5. ASSUME NEW a \in Bytes(own[d][1], own[d][2]) PROVE k[a] = mem[a]
    <3>1. a \in Byte /\ mem[a] = d /\ under[a] = d /\ a \notin Bytes(p, n)
      <4>1. WF(heap) /\ Kept(heap, mem, own) /\ WF(g) /\ d \in Client /\ own[d] # <<>>
            /\ Same(heap, g, own[d][1] - Header) /\ a \in Bytes(own[d][1], own[d][2])
        BY <1>1, <1>9, <2>4
      <4>2. /\ a \in Byte /\ mem[a] = d /\ Under(g, mem)[a] = d
            /\ u # own[d][1] - Header => a \notin Bytes(u + Header, n)
        BY <1>2, <4>1, Others
      <4> QED BY <1>1, <2>3, <4>2 DEF under
    <3>2. a \notin (p + own[c][2])..(p + n - 1)
      BY <1>1, <3>1 DEF Bytes
    <3>3. given[a] = d /\ d # c
      BY <1>6, <1>9, <3>1, <3>2
    <3> QED BY <1>8, <3>1, <3>3
  <2> QED BY <2>2, <2>4, <2>5
<1>10. Keeps(g, k, c, p, n)
  <2>1. ASSUME NEW a \in Bytes(p, n) PROVE k[a] = c
    <3>1. a \in Byte /\ a \in Nat /\ under[a] = mem[a] /\ k[a] = given[a]
      BY <1>4, <1>8
    <3>2. CASE a \in (p + own[c][2])..(p + n - 1)
      BY <1>6, <3>1, <3>2
    <3>3. CASE a \notin (p + own[c][2])..(p + n - 1)
      <4>1. a \in Bytes(p, own[c][2])
        BY <1>1, <3>1, <3>3 DEF Bytes
      <4> QED BY <1>1, <1>6, <3>1, <3>3, <4>1
    <3> QED BY <3>2, <3>3
  <2>2. p - Header \in Used(g) /\ g.blk[p - Header].size >= n
    BY <1>2 DEF u
  <2> QED BY <1>1, <2>1, <2>2 DEF Keeps
<1>11. v[1] = p /\ v[2] = n /\ v \in Nat \X Nat /\ v # <<>>
  BY <1>1, Something
<1>12. \A b \in Used(g) : \/ v # <<>> /\ b = v[1] - Header
                          \/ b \in Used(heap) /\ ~(own[c] # <<>> /\ b = own[c][1] - Header)
  BY <1>11 DEF p
<1> HIDE DEF v
<1>13. Kept(g, k, [own EXCEPT ![c] = v])
  <2>1. \A d \in Client \ {c} : own[d] # <<>> =>
           /\ Same(heap, g, own[d][1] - Header)
           /\ \A a \in Bytes(own[d][1], own[d][2]) : k[a] = mem[a]
           /\ v # <<>> => own[d][1] # v[1]
    BY <1>9, <1>11
  <2> QED BY <1>1, <1>7, <1>10, <1>11, <1>12, <2>1, Renew
<1> QED BY <1>13 DEF v, k, given, under, p

\* krealloc by moving: block w of n bytes is new, the one c had is gone, the bytes are copied.
LEMMA Moved ==
    ASSUME IInv, NEW c \in Client, own[c] # <<>>, NEW n \in Nat, n > 0, NEW g, WF(g),
           NEW w \in Nat, w \notin Used(heap), NEW l \in Nat, NEW m,
           Used(g) = (Used(heap) \cup {w}) \ {own[c][1] - Header}, g.blk[w].size >= n,
           \A b \in Used(heap) : b # own[c][1] - Header => Same(heap, g, b),
           l <= n, own[c][2] < n => own[c][2] <= l, n <= own[c][2] => l = n,
           \A i \in 0..(l - 1) : own[c][1] + i \in Byte,
           m = [a \in Byte |-> IF a \in Bytes(w + Header, l) THEN mem[own[c][1] + (a - (w + Header))]
                               ELSE Under(g, mem)[a]]
    PROVE  Kept(g, Live(Given(m, c, (w + Header + own[c][2])..(w + Header + n - 1)),
                        c, w + Header, n),
                [own EXCEPT ![c] = <<w + Header, n>>])
<1> DEFINE p == own[c][1]
           u == p - Header
           q == w + Header
           under == Under(g, mem)
           given == Given(m, c, (q + own[c][2])..(q + n - 1))
           k == Live(given, c, q, n)
           v == <<q, n>>
<1>1. /\ WF(heap) /\ Kept(heap, mem, own) /\ p \in Nat /\ own[c][2] \in Nat /\ u \in Used(heap)
      /\ u \in Nat /\ p = u + Header /\ \A a \in Bytes(p, own[c][2]) : mem[a] = c
  BY Owned DEF IInv
<1>2. w \in Used(g) /\ w \in BlocksOf(g) /\ g.blk[w].size \in Nat /\ n <= g.blk[w].size /\ w # u
      /\ q \in Nat /\ q - Header = w
  <2>1. u \in Used(heap)
    BY <1>1
  <2> HIDE DEF u
  <2>2. w # u /\ w \in Used(g)
    BY <2>1 DEF u, p
  <2>3. w \in BlocksOf(g)
    BY <2>2 DEF Used
  <2>4. g.blk[w].size \in Nat
    BY <2>3, BlockFacts
  <2> QED BY <2>2, <2>3, <2>4, Consts
<1>3. mem \in [Byte -> Client \cup {NULL}] /\ under \in [Byte -> Client \cup {NULL}]
  BY <1>1, UnderPayload DEF Kept
<1>0. q = w + Header /\ p = own[c][1] /\ u = own[c][1] - Header
  OBVIOUS
<1> HIDE DEF p, u, q
<1>4. ASSUME NEW a \in Bytes(q, n) PROVE a \in Byte /\ a \in Nat
  BY <1>0, <1>2, Payload
<1> HIDE DEF under
<1>5. /\ \A a \in Byte : m[a] = IF a \in Bytes(q, l) THEN mem[p + (a - q)] ELSE under[a]
      /\ m \in [Byte -> Client \cup {NULL}]
  <2>1. m = [a \in Byte |-> IF a \in Bytes(q, l) THEN mem[p + (a - q)] ELSE under[a]]
    BY <1>0 DEF under
  <2>2. ASSUME NEW a \in Byte, a \in Bytes(q, l) PROVE mem[p + (a - q)] \in Client \cup {NULL}
    <3>1. a - q \in 0..(l - 1)
      BY <1>2, <2>2 DEF Bytes
    <3> QED BY <1>0, <1>3, <3>1
  <2> QED BY <1>3, <2>1, <2>2
<1>6. /\ given \in [Byte -> Client \cup {NULL}]
      /\ \A a \in Byte : given[a] = IF a \in (q + own[c][2])..(q + n - 1) THEN c ELSE m[a]
  BY <1>5 DEF Given
<1> HIDE DEF given
<1>7. k \in [Byte -> Client \cup {NULL}]
  BY <1>6 DEF Live
<1>8. \A a \in Byte : given[a] # c \/ a \in Bytes(q, n) => k[a] = given[a]
  BY DEF Live
<1> HIDE DEF k
<1>9. ASSUME NEW d \in Client \ {c}, own[d] # <<>>
      PROVE  /\ Same(heap, g, own[d][1] - Header)
             /\ \A a \in Bytes(own[d][1], own[d][2]) : k[a] = mem[a]
             /\ own[d][1] # q
  <2>1. own[d][1] - Header \in Used(heap) /\ own[d][1] \in Nat
    BY <1>1, <1>9, Owned
  <2>2. own[d][1] # p
    BY <1>1, <1>9 DEF Kept, p
  <2>3. own[d][1] - Header # u /\ own[d][1] - Header # w /\ own[d][1] # q
    <3>1. own[d][1] - Header # w
      BY <2>1
    <3>2. own[d][1] # q
      BY <1>2, <3>1
    <3>3. own[d][1] - Header # u
      BY <1>1, <2>1, <2>2, Consts
    <3> QED BY <3>1, <3>2, <3>3
  <2>4. Same(heap, g, own[d][1] - Header)
    BY <1>0, <2>1, <2>3
  <2>5. ASSUME NEW a \in Bytes(own[d][1], own[d][2]) PROVE k[a] = mem[a]
    <3>1. a \in Byte /\ mem[a] = d /\ under[a] = d /\ a \notin Bytes(q, n)
      <4>1. WF(heap) /\ Kept(heap, mem, own) /\ WF(g) /\ d \in Client /\ own[d] # <<>>
            /\ Same(heap, g, own[d][1] - Header) /\ a \in Bytes(own[d][1], own[d][2])
        BY <1>1, <1>9, <2>4
      <4>2. /\ a \in Byte /\ mem[a] = d /\ Under(g, mem)[a] = d
            /\ w # own[d][1] - Header => a \notin Bytes(w + Header, n)
        BY <1>2, <4>1, Others
      <4> QED BY <1>0, <2>3, <4>2 DEF under
    <3>2. a \notin (q + own[c][2])..(q + n - 1) /\ a \notin Bytes(q, l)
      BY <1>1, <1>2, <3>1 DEF Bytes
    <3>3. given[a] = d /\ d # c
      BY <1>5, <1>6, <1>9, <3>1, <3>2
    <3> QED BY <1>8, <3>1, <3>3
  <2> QED BY <2>3, <2>4, <2>5
<1>10. Keeps(g, k, c, q, n)
  <2>1. ASSUME NEW a \in Bytes(q, n) PROVE k[a] = c
    <3>1. a \in Byte /\ a \in Nat /\ k[a] = given[a]
      BY <1>4, <1>8
    <3>2. CASE a \in (q + own[c][2])..(q + n - 1)
      BY <1>6, <3>1, <3>2
    <3>3. CASE a \notin (q + own[c][2])..(q + n - 1)
      <4>1. a \in Bytes(q, l) /\ p + (a - q) \in Bytes(p, own[c][2])
        <5>1. q <= a /\ a < q + n /\ a < q + own[c][2]
          BY <1>1, <1>2, <3>1, <3>3 DEF Bytes
        <5>2. a < q + l
          <6>1. CASE own[c][2] < n
            <7>1. own[c][2] <= l
              BY <6>1
            <7> QED BY <1>1, <1>2, <3>1, <5>1, <7>1
          <6>2. CASE n <= own[c][2]
            <7>1. l = n
              BY <6>2
            <7> QED BY <5>1, <7>1
          <6> QED BY <1>1, <6>1, <6>2
        <5>3. a \in Bytes(q, l)
          BY <1>2, <3>1, <5>1, <5>2 DEF Bytes
        <5>4. /\ p \in Int /\ q \in Int /\ a \in Int /\ own[c][2] \in Int
          BY <1>1, <1>2, <3>1
        <5>5. p + (a - q) \in Bytes(p, own[c][2])
          BY <5>1, <5>4, Shifted
        <5> QED BY <5>3, <5>5
      <4> QED BY <1>1, <1>5, <1>6, <3>1, <3>3, <4>1
    <3> QED BY <3>2, <3>3
  <2> QED BY <1>2, <2>1 DEF Keeps
<1>11. v[1] = q /\ v[2] = n /\ v \in Nat \X Nat /\ v # <<>>
  BY <1>2, Something
<1>12. \A b \in Used(g) : \/ v # <<>> /\ b = v[1] - Header
                          \/ b \in Used(heap) /\ ~(own[c] # <<>> /\ b = own[c][1] - Header)
  BY <1>2, <1>11
<1> HIDE DEF v
<1>13. Kept(g, k, [own EXCEPT ![c] = v])
  <2>1. \A d \in Client \ {c} : own[d] # <<>> =>
           /\ Same(heap, g, own[d][1] - Header)
           /\ \A a \in Bytes(own[d][1], own[d][2]) : k[a] = mem[a]
           /\ v # <<>> => own[d][1] # v[1]
    BY <1>9, <1>11
  <2> QED BY <1>1, <1>7, <1>10, <1>11, <1>12, <2>1, Renew
<1> QED BY <1>13 DEF v, k, given, q

LEMMA ReallocStep ==
    ASSUME IInv, NEW c \in Client, NEW n \in Nat, krealloc(c, n) PROVE IInv'
<1> DEFINE p == own[c][1]
           b == heap_block_from_pointer(heap, p)
           want == align_up_size(n)
           nx == blk[b].next
           joins == nx # NULL /\ blk[nx].free /\ blk[b].size + Header + blk[nx].size >= want
           stay == heap_split_block(heap, b, want)
           merged == heap_merge_with_next(heap, b)
           join == heap_split_block(merged, b, want)
           r == heap_allocate_unlocked(heap, n)
           q == r.b + Header
           l == copy_size(r.h, b, n)
           moved == heap_free_unlocked(r.h, p)
           Filled(m, at) == Live(Given(m, c, (at + own[c][2])..(at + n - 1)), c, at, n)
           under == Under(moved, mem)
           Copied == [a \in Byte |-> IF a \in Bytes(q, l) THEN mem[p + (a - q)] ELSE under[a]]
<1>1. /\ own[c] # <<>> /\ n # 0 /\ want # 0 /\ b # NULL /\ ~blk[b].free
      /\ blk[b].size >= want => /\ Become(stay) /\ own' = [own EXCEPT ![c] = <<p, n>>]
                                /\ mem' = Filled(Under(stay, mem), p)
      /\ ~(blk[b].size >= want) /\ joins => /\ Become(join) /\ own' = [own EXCEPT ![c] = <<p, n>>]
                                            /\ mem' = Filled(Under(join, mem), p)
      /\ ~(blk[b].size >= want) /\ ~joins /\ r.b = NULL => Become(r.h) /\ own' = own /\ mem' = mem
      /\ ~(blk[b].size >= want) /\ ~joins /\ r.b # NULL =>
            /\ Become(moved) /\ own' = [own EXCEPT ![c] = <<q, n>>]
            /\ mem' = Filled(Copied, q)
  BY DEF krealloc
<1>2. WF(heap) /\ Kept(heap, mem, own) /\ heap.blk = blk
  BY DEF IInv, heap
<1>3. /\ p - Header \in Used(heap) /\ p = (p - Header) + Header /\ p \in Nat
      /\ blk[p - Header].size > 0 /\ p - Header \in Nat
  BY <1>1, <1>2, Owned
<1> HIDE DEF p
<1>4. b = p - Header
  <2>1. p - Header \in BlocksOf(heap)
    BY <1>3 DEF Used
  <2>2. heap_block_from_pointer(heap, (p - Header) + Header) = p - Header
    BY <1>2, <1>3, <2>1, PointerWF
  <2> QED BY <1>3, <2>2
<1> HIDE DEF b
<1>5. b \in Used(heap) /\ b \in BlocksOf(heap) /\ blk[b].size \in Nat /\ b \in Nat /\ p = b + Header
  BY <1>2, <1>3, <1>4, BlockFacts DEF Used
<1>6. want \in Nat /\ want % Align = 0 /\ want >= n /\ n > 0
  BY <1>1, AlignUp
<1>7. ASSUME NEW g, WF(g), Used(g) = Used(heap), b \in BlocksOf(g), g.blk[b].size >= want,
             \A d \in Used(heap) : d # b => Same(heap, g, d),
             Become(g), own' = [own EXCEPT ![c] = <<p, n>>], mem' = Filled(Under(g, mem), p)
      PROVE  IInv'
  <2>1. g.blk[b].size \in Nat
    BY <1>7, BlockFacts
  <2> HIDE DEF want
  <2>2. g.blk[own[c][1] - Header].size >= n
    <3>1. g.blk[b].size >= n
      BY <1>6, <1>7, <2>1
    <3> QED BY <1>4, <3>1 DEF p
  <2>3. \A d \in Used(heap) : d # own[c][1] - Header => Same(heap, g, d)
    BY <1>4, <1>7 DEF p
  <2>4. Kept(g, Filled(Under(g, mem), p), [own EXCEPT ![c] = <<p, n>>])
    BY <1>1, <1>6, <1>7, <2>2, <2>3, InPlace DEF p
  <2>5. heap' = g
    BY <1>7, Becomes
  <2> HIDE DEF Filled
  <2> QED BY <1>7, <2>4, <2>5 DEF IInv
<1>8. CASE blk[b].size >= want
  <2>1. /\ WF(stay) /\ b \in BlocksOf(stay) /\ stay.blk[b].size >= want
        /\ Used(stay) = Used(heap) /\ \A d \in BlocksOf(heap) : d # b => Same(heap, stay, d)
    BY <1>2, <1>5, <1>6, <1>8, SplitWF
  <2>2. \A d \in Used(heap) : d # b => Same(heap, stay, d)
    BY <2>1 DEF Used
  <2> HIDE DEF stay, Filled, want
  <2> QED BY <1>1, <1>7, <1>8, <2>1, <2>2
<1>9. CASE ~(blk[b].size >= want) /\ joins
  <2>1. /\ WF(merged) /\ b \in BlocksOf(merged) /\ Used(merged) = Used(heap)
        /\ merged.blk[b].size = blk[b].size + Header + blk[nx].size
        /\ \A d \in Used(heap) : d # b => Same(heap, merged, d)
    BY <1>2, <1>5, <1>9, MergeWF
  <2>2. merged.blk[b].size >= want
    BY <1>9, <2>1
  <2> HIDE DEF merged, want
  <2>3. /\ WF(join) /\ b \in BlocksOf(join) /\ join.blk[b].size >= want
        /\ Used(join) = Used(merged) /\ \A d \in BlocksOf(merged) : d # b => Same(merged, join, d)
    BY <1>6, <2>1, <2>2, SplitWF
  <2> HIDE DEF join
  <2>4. ASSUME NEW d \in Used(heap), d # b PROVE Same(heap, join, d)
    <3>1. Same(heap, merged, d) /\ d \in BlocksOf(merged)
      BY <2>1, <2>4 DEF Used
    <3>2. Same(merged, join, d)
      BY <2>3, <2>4, <3>1
    <3> QED BY <3>1, <3>2, SameTrans
  <2> HIDE DEF Filled, joins
  <2> QED BY <1>1, <1>7, <1>9, <2>1, <2>3, <2>4
<1>10. /\ WF(r.h) /\ \A d \in Used(heap) : Same(heap, r.h, d)
       /\ r.b = NULL => Used(r.h) = Used(heap)
       /\ r.b # NULL => /\ Used(r.h) = Used(heap) \cup {r.b} /\ r.b \notin Used(heap)
                        /\ r.h.blk[r.b].size >= n /\ n > 0
  BY <1>2, AllocWF
<1> HIDE DEF r
<1>11. CASE ~(blk[b].size >= want) /\ ~joins /\ r.b = NULL
  <2>1. Kept(r.h, mem, own)
    <3>1. ASSUME NEW d \in Client, own[d] # <<>> PROVE Keeps(r.h, mem, d, own[d][1], own[d][2])
      <4>1. Keeps(heap, mem, d, own[d][1], own[d][2]) /\ own[d][1] - Header \in Used(heap)
        BY <1>2, <3>1 DEF Kept, Keeps
      <4>2. Same(heap, r.h, own[d][1] - Header)
        BY <1>10, <4>1
      <4> QED BY <1>10, <1>11, <4>1, <4>2 DEF Keeps, Same
    <3> QED BY <1>2, <1>10, <1>11, <3>1 DEF Kept
  <2> HIDE DEF joins, want
  <2>2. heap' = r.h /\ own' = own /\ mem' = mem
    BY <1>1, <1>10, <1>11, Becomes
  <2> QED BY <1>10, <2>1, <2>2 DEF IInv
<1>12. CASE ~(blk[b].size >= want) /\ ~joins /\ r.b # NULL
  <2>1. /\ b \in Used(r.h) /\ r.h.blk[b].size = blk[b].size /\ r.h.blk[b].size > 0 /\ b # r.b
        /\ r.b \in BlocksOf(r.h) /\ r.b \in Used(r.h)
    BY <1>2, <1>3, <1>4, <1>5, <1>10, <1>12 DEF Same, Used
  <2>2. WF(moved) /\ Used(moved) = Used(r.h) \ {b} /\ \A d \in Used(moved) : Same(r.h, moved, d)
    BY <1>5, <1>10, <2>1, FreeWF
  <2> HIDE DEF moved
  <2>3. /\ r.b \in Nat /\ Used(moved) = (Used(heap) \cup {r.b}) \ {own[c][1] - Header}
        /\ moved.blk[r.b].size >= n /\ r.b \notin Used(heap)
    <3>1. r.b \in Nat
      BY <1>10, <2>1, BlockFacts
    <3>2. moved.blk[r.b].size = r.h.blk[r.b].size
      BY <2>1, <2>2 DEF Same
    <3> QED BY <1>4, <1>10, <1>12, <2>2, <3>1, <3>2 DEF p
  <2>4. ASSUME NEW d \in Used(heap), d # own[c][1] - Header PROVE Same(heap, moved, d)
    <3>1. d \in Used(moved)
      BY <2>3, <2>4
    <3>2. Same(heap, r.h, d) /\ Same(r.h, moved, d)
      BY <1>10, <2>2, <3>1
    <3> QED BY <3>2, SameTrans
  <2>5. /\ l \in Nat /\ l <= n /\ l <= blk[b].size
        /\ own[c][2] \in Nat /\ own[c][2] <= blk[b].size
        /\ own[c][2] < n => own[c][2] <= l
        /\ n <= own[c][2] => l = n
    <3>1. own[c][2] \in Nat /\ own[c][2] <= blk[b].size
      BY <1>1, <1>2, <1>4, <1>5, Owned DEF p
    <3>2. l = IF blk[b].size < n THEN blk[b].size ELSE n
      BY <2>1 DEF copy_size
    <3> HIDE DEF l
    <3> QED BY <1>5, <3>1, <3>2
  <2> HIDE DEF l
  <2>6. \A i \in 0..(l - 1) : own[c][1] + i \in Byte
    <3> SUFFICES ASSUME NEW i \in 0..(l - 1) PROVE p + i \in Byte
      BY DEF p
    <3>1. p + i \in Bytes(b + Header, l)
      BY <1>5, <2>5 DEF Bytes
    <3> QED BY <1>2, <1>5, <2>5, <3>1, Payload
  <2>7. Copied = [a \in Byte |-> IF a \in Bytes(r.b + Header, l)
                                 THEN mem[own[c][1] + (a - (r.b + Header))] ELSE Under(moved, mem)[a]]
    BY DEF p
  <2> HIDE DEF Copied
  <2>8. Kept(moved, Filled(Copied, q), [own EXCEPT ![c] = <<q, n>>])
    BY <1>1, <1>6, <2>2, <2>3, <2>4, <2>5, <2>6, <2>7, Moved
  <2> HIDE DEF joins, want, q, Filled
  <2>9. heap' = moved /\ own' = [own EXCEPT ![c] = <<q, n>>] /\ mem' = Filled(Copied, q)
    BY <1>1, <1>12, <2>2, Becomes
  <2> QED BY <2>2, <2>8, <2>9 DEF IInv
<1> QED BY <1>8, <1>9, <1>11, <1>12

LEMMA InitHolds == ASSUME Init PROVE IInv
<1> DEFINE s == InitialPages * PageSize
<1>1. /\ s \in Nat /\ s >= PageSize /\ s > Header /\ s <= Limit /\ s % Align = 0 /\ Limit \in Nat
  <2>1. s \in Nat /\ s >= PageSize
    BY Consts
  <2>2. s <= LimitPages * PageSize
    BY Consts
  <2>3. s % Align = 0
    BY Consts, Aligned
  <2> QED BY <2>1, <2>2, <2>3, Consts DEF Limit
<1>2. 0 \in Addr /\ 0 \in Byte /\ 0 % Align = 0
  BY <1>1, Consts DEF Addr, Byte
<1> DEFINE top == [size |-> s - Header, previous |-> NULL, next |-> NULL, magic |-> TRUE, free |-> TRUE]
<1>3. /\ blk = [a \in Addr |-> IF a = 0 THEN top ELSE NoBlock]
      /\ first = 0 /\ last = 0 /\ mapped_end = s /\ frames = Frames
      /\ mem = [a \in Byte |-> NULL] /\ own = [c \in Client |-> <<>>]
  BY DEF Init
<1> HIDE DEF s
<1>4. top \in Block /\ NoBlock \in Block /\ ~NoBlock.magic /\ top.magic
  BY <1>1, Consts DEF Block, NoBlock
<1>5. /\ heap.blk = blk /\ heap.first = 0 /\ heap.last = 0 /\ heap.end = s /\ heap.frames = Frames
      /\ heap = [blk |-> blk, first |-> 0, last |-> 0, end |-> s, frames |-> Frames]
  BY <1>3 DEF heap
<1>6. blk[0] = top /\ \A a \in Addr : a # 0 => blk[a] = NoBlock
  BY <1>2, <1>3
<1>7. heap \in HeapType
  <2>1. blk \in [Addr -> Block]
    BY <1>3, <1>4
  <2> QED BY <1>1, <1>2, <1>5, <2>1, Consts DEF HeapType
<1>8. BlocksOf(heap) = {0}
  BY <1>2, <1>4, <1>5, <1>6 DEF BlocksOf
<1>9. After(heap, 0) = s
  BY <1>1, <1>5, <1>6, Consts DEF After
<1>10. Linked(heap, 0)
  BY <1>1, <1>5, <1>6, <1>9 DEF Linked
<1>11. WF(heap)
  BY <1>1, <1>5, <1>6, <1>7, <1>8, <1>10 DEF WF
<1>12. Used(heap) = {}
  BY <1>5, <1>6, <1>8 DEF Used
<1>13. Kept(heap, mem, own)
  BY <1>3, <1>12 DEF Kept
<1> QED BY <1>11, <1>13 DEF IInv

LEMMA NextHolds == ASSUME IInv, [Next]_vars PROVE IInv'
<1>1. CASE Next
  <2>1. PICK c \in Client : \/ kfree(c)
                            \/ \E n \in Sizes : kmalloc(c, n) \/ krealloc(c, n)
    BY <1>1 DEF Next
  <2>2. Sizes \subseteq Nat
    BY HeapAssumption
  <2> QED BY <2>1, <2>2, FreeStep, MallocStep, ReallocStep
<1>2. CASE UNCHANGED vars
  BY <1>2 DEF IInv, Kept, Keeps, heap, vars
<1> QED BY <1>1, <1>2

LEMMA Invariance == Spec => []IInv
<1>1. Init => IInv
  BY InitHolds
<1>2. IInv /\ [Next]_vars => IInv'
  BY NextHolds
<1> QED BY <1>1, <1>2, PTL DEF Spec

\* The invariant gives ListWellFormed.
LEMMA ListFollows == ASSUME IInv PROVE ListWellFormed
<1>1. /\ WF(heap) /\ Kept(heap, mem, own) /\ heap.blk = blk /\ heap.first = first /\ heap.last = last
      /\ heap.end = mapped_end /\ heap.frames = frames
  BY DEF IInv, heap
<1>2. Blocks = BlocksOf(heap)
  BY <1>1 DEF Blocks, BlocksOf
<1>3. ASSUME NEW c \in Client, own[c] # <<>> PROVE own[c][1] \in Addr
  <2> DEFINE b == own[c][1] - Header
  <2>1. b \in BlocksOf(heap) /\ b \in Nat /\ own[c][1] = b + Header /\ heap.blk[b].size > 0
    BY <1>1, <1>3, Owned
  <2> HIDE DEF b
  <2>2. /\ b % Align = 0 /\ heap.blk[b].size \in Nat /\ b + Header + heap.blk[b].size <= heap.end
        /\ heap.end <= Limit /\ heap.end \in Nat
    BY <1>1, <2>1, BlockFacts DEF After
  <2>3. (b + Header) % Align = 0
    BY <2>1, <2>2, Consts, Aligned
  <2>4. b + Header \in 0..(Limit - 1)
    BY <2>1, <2>2, Consts
  <2> QED BY <2>1, <2>3, <2>4 DEF Addr, Byte
<1>4. TypeOK
  <2>1. heap \in HeapType
    BY <1>1 DEF WF
  <2>2. /\ blk \in [Addr -> Block] /\ first \in Addr /\ last \in Addr
        /\ mapped_end \in 0..Limit /\ frames \in 0..Frames
    BY <1>1, <2>1 DEF HeapType
  <2>3. mem \in [Byte -> Client \cup {NULL}]
    BY <1>1 DEF Kept
  <2> QED BY <1>3, <2>2, <2>3 DEF TypeOK
<1>5. first = 0 /\ first \in Blocks /\ blk[first].previous = NULL /\ last \in Blocks
  BY <1>1, <1>2 DEF WF
<1>6. ASSUME NEW b \in Blocks
      PROVE  LET end == b + Header + blk[b].size
                 nx  == blk[b].next
             IN  /\ nx = NULL <=> b = last
                 /\ nx = NULL => end = mapped_end
                 /\ nx # NULL => nx = end /\ nx \in Blocks /\ blk[nx].previous = b
  BY <1>1, <1>2, BlockFacts DEF After
<1> QED BY <1>4, <1>5, <1>6 DEF ListWellFormed

\* As many clients own a block as blocks are in use.
LEMMA AsMany ==
    ASSUME NEW h, WF(h), NEW m, NEW o, Kept(h, m, o)
    PROVE  Cardinality(Used(h)) = Cardinality({c \in Client : o[c] # <<>>})
<1> DEFINE T == {c \in Client : o[c] # <<>>}
           Owner(b) == CHOOSE c \in T : o[c][1] - Header = b
           f == [b \in Used(h) |-> Owner(b)]
<1>1. IsFiniteSet(Used(h))
  <2>1. Used(h) \in SUBSET Nat /\ Limit \in Nat /\ \A b \in Used(h) : b <= Limit
    BY BlockFacts, Consts DEF Used
  <2> QED BY <2>1, FS_BoundedSetOfNaturals
<1>2. ASSUME NEW b \in Used(h) PROVE Owner(b) \in T /\ o[Owner(b)][1] - Header = b
  <2>1. \E c \in T : o[c][1] - Header = b
    BY DEF Kept
  <2> HIDE DEF T
  <2> QED BY <2>1
<1>3. ASSUME NEW c \in T PROVE o[c][1] - Header \in Used(h) /\ Owner(o[c][1] - Header) = c
  <2>1. o[c][1] - Header \in Used(h) /\ o[c][1] \in Nat /\ c \in Client
    BY Owned
  <2> DEFINE d == Owner(o[c][1] - Header)
  <2>2. d \in T /\ o[d][1] - Header = o[c][1] - Header
    BY <1>2, <2>1
  <2> HIDE DEF d
  <2>3. o[d][1] \in Nat
    BY <2>2, Owned
  <2>4. o[d][1] = o[c][1]
    BY <2>1, <2>2, <2>3, Consts
  <2>5. d = c
    BY <2>1, <2>2, <2>4 DEF Kept
  <2> QED BY <2>1, <2>5 DEF d
<1> HIDE DEF T, Owner
<1>4. f \in [Used(h) -> T]
  BY <1>2
<1>5. \A a, b \in Used(h) : f[a] = f[b] => a = b
  BY <1>2
<1>6. \A c \in T : \E b \in Used(h) : f[b] = c
  BY <1>3
<1>7. f \in Bijection(Used(h), T)
  BY <1>4, <1>5, <1>6 DEF Bijection, Injection, Surjection, IsInjective
<1>8. ExistsBijection(Used(h), T)
  BY <1>7 DEF ExistsBijection
<1> QED BY <1>1, <1>8, FS_Bijection DEF T

\* The invariant gives PayloadIntact.
LEMMA PayloadFollows == ASSUME IInv PROVE PayloadIntact
<1>1. WF(heap) /\ Kept(heap, mem, own) /\ heap.blk = blk
  BY DEF IInv, heap
<1>2. Blocks = BlocksOf(heap) /\ Used(heap) = {b \in Blocks : ~blk[b].free}
  BY <1>1 DEF Blocks, BlocksOf, Used
<1>3. ASSUME NEW c \in Client, own[c] # <<>>
      PROVE  /\ \A a \in Bytes(own[c][1], own[c][2]) : mem[a] = c
             /\ LET b == own[c][1] - Header
                IN  b \in Blocks /\ ~blk[b].free /\ blk[b].size >= own[c][2]
  <2>1. /\ own[c][1] - Header \in Used(heap) /\ heap.blk[own[c][1] - Header].size >= own[c][2]
        /\ \A a \in Bytes(own[c][1], own[c][2]) : mem[a] = c
    BY <1>1, <1>3, Owned
  <2> QED BY <1>1, <1>2, <2>1
<1>4. Cardinality({b \in Blocks : ~blk[b].free}) = Cardinality({c \in Client : own[c] # <<>>})
  <2>1. Cardinality(Used(heap)) = Cardinality({c \in Client : own[c] # <<>>})
    BY <1>1, AsMany
  <2> QED BY <1>2, <2>1
<1> QED BY <1>3, <1>4 DEF PayloadIntact

\* Whatever is allocated, freed and resized, in whatever order, the block list starts at 0,
\* is linked both ways and tiles the mapped heap without a gap (heap.c:350-439).
THEOREM ListIsWellFormed == Spec => []ListWellFormed
<1>1. IInv => ListWellFormed
  BY ListFollows
<1> QED BY <1>1, Invariance, PTL

\* No client finds its bytes changed by another one's kmalloc, kfree or krealloc, or by its own
\* krealloc; every block in use is the large enough block of exactly one client (heap.c:441-861).
THEOREM PayloadIsIntact == Spec => []PayloadIntact
<1>1. IInv => PayloadIntact
  BY PayloadFollows
<1> QED BY <1>1, Invariance, PTL

=============================================================================
