---------------------------- MODULE PagingProofs ----------------------------
(***************************************************************************)
(* Proofs about Paging for any number of frames, loaders, system calls,    *)
(* programs, directory entries and stack slots.                            *)
(***************************************************************************)
EXTENDS Paging, FiniteSetTheorems, WellFoundedInduction, TLAPS

-----------------------------------------------------------------------------
(* The invariant of a memory m, in which D are the directories that have   *)
(* been written and S the frames that are in use and that no directory or  *)
(* table leads to: the directories themselves, and what an actor has in    *)
(* its hand.                                                               *)

PDE  == [table : Frame, user : BOOLEAN]
PTE  == [frame : Frame, user : BOOLEAN]
Kind == {"junk", "dir", "table", "page", "heap"}
MemTypes(m) ==
    m \in [used : SUBSET Frame, pde : [Dir -> [Index -> PDE \cup {NULL}]],
           pte : [Frame -> [Page -> PTE \cup {NULL}]], data : [Frame -> Kind]]

\* What leads to frame f: an entry of the kernel's directory, a user entry of a
\* directory, a page of the heap, a page of a program.
KTab(m, i, f) == m.pde[KDIR][i] # NULL /\ m.pde[KDIR][i].table = f
UTab(m, d, i, f) == m.pde[d][i] # NULL /\ m.pde[d][i].user /\ m.pde[d][i].table = f
HPage(m, j, f) == Mapped(m, KDIR, Heap, j) # NULL /\ Mapped(m, KDIR, Heap, j).frame = f
UPage(m, d, i, j, f) == Mapped(m, d, i, j) # NULL /\ Mapped(m, d, i, j).frame = f
Leads(m, D, r, f) ==
    \/ \E i \in Index : r = <<"ktab", i>> /\ KTab(m, i, f)
    \/ \E d \in D : \E i \in Index : r = <<"utab", d, i>> /\ UTab(m, d, i, f)
    \/ \E j \in Page : r = <<"heap", j>> /\ HPage(m, j, f)
    \/ \E d \in D : \E i \in UserIndex : \E j \in Page :
          r = <<"upage", d, i, j>> /\ UPage(m, d, i, j, f)

\* The kernel's directory has its heap and nothing for programs.
KernelOK(m) ==
    /\ m.pde[KDIR][Heap] # NULL
    /\ \A i \in Index : m.pde[KDIR][i] # NULL => i \notin UserIndex /\ ~m.pde[KDIR][i].user
SharedOK(m, D) ==
    \A d \in D :
        /\ m.pde[d][Heap] = m.pde[KDIR][Heap] /\ m.pde[d][Scratch] = NULL
        /\ \A i \in Index \ UserIndex : m.pde[d][i] # NULL => m.pde[d][i] = m.pde[KDIR][i]
        /\ \A i \in UserIndex : m.pde[d][i] # NULL => m.pde[d][i].user
CleanOK(m, D) ==
    /\ \A i \in Index : m.pde[KDIR][i] # NULL => m.data[m.pde[KDIR][i].table] = "table"
    /\ \A d \in D :
        /\ m.data[d] = "dir"
        /\ \A i \in UserIndex : m.pde[d][i] # NULL => m.data[m.pde[d][i].table] = "table"
        /\ \A i \in UserIndex : \A j \in Page :
             Mapped(m, d, i, j) # NULL => m.data[Mapped(m, d, i, j).frame] = "page"

\* A frame is in use exactly if it is in S or something leads to it, and then one
\* thing only.
Sound(m, D, S) ==
    /\ \A f \in Frame : \A r, s : Leads(m, D, r, f) /\ Leads(m, D, s, f) => r = s
    /\ \A f \in S : \A r : ~Leads(m, D, r, f)
    /\ \A f \in Frame : f \in m.used <=> f \in S \/ \E r : Leads(m, D, r, f)

World(m, D, S) ==
    /\ MemTypes(m) /\ D \subseteq S /\ S \subseteq Frame
    /\ KernelOK(m) /\ SharedOK(m, D) /\ CleanOK(m, D) /\ Sound(m, D, S)

\* From m to n the scratch page keeps its mapping and the frames of X their contents.
Quiet(m, n, X) ==
    /\ Mapped(n, KDIR, Scratch, 0) = Mapped(m, KDIR, Scratch, 0)
    /\ \A f \in X : n.data[f] = m.data[f]

-----------------------------------------------------------------------------
(* Facts about the constants and about one memory.                         *)

LEMMA Consts ==
    /\ KDIR \in Dir /\ KDIR \notin Frame /\ Frame \subseteq Dir /\ 0 \in Page /\ 0 \notin Frame
    /\ Heap \in Index /\ Scratch \in Index /\ StackScratch \in Index /\ Stack \in UserIndex
    /\ UserIndex \subseteq Index /\ Heap \notin UserIndex /\ Scratch \notin UserIndex
    /\ StackScratch \notin UserIndex /\ Heap # Scratch /\ Heap # StackScratch
    /\ Scratch # StackScratch /\ NULL \notin PDE /\ NULL \notin PTE /\ Frame \subseteq Nat
BY PagingAssumption DEF Dir, Frame, Page, Index, PDE, PTE

\* pmm_allocate_frame returns a free frame or 0.
LEMMA Allocates ==
    ASSUME NEW m, pmm_allocate_frame(m) # 0
    PROVE  pmm_allocate_frame(m) \in Frame \ m.used
<1> DEFINE X == Frame \ m.used
           R == OpToRel(<, Nat)
<1>1. X # {} /\ X \in SUBSET Nat /\ pmm_allocate_frame(m) = Min(X)
  BY Consts DEF pmm_allocate_frame
<1>2. IsWellFoundedOn(R, Nat)
  BY NatLessThanWellFounded
<1>3. \A x, y \in Nat : x < y => <<x, y>> \in R
  BY DEF OpToRel
<1> HIDE DEF R, X
<1>4. PICK i \in X : \A j \in X : ~(<<j, i>> \in R)
  BY <1>1, <1>2, WFMin
<1>5. ASSUME NEW j \in X PROVE i <= j
  <2>1. i \in Nat /\ j \in Nat /\ ~(<<j, i>> \in R)
    BY <1>1, <1>4
  <2> QED BY <1>3, <2>1
<1>6. Min(X) \in X
  BY <1>5 DEF Min
<1> QED BY <1>1, <1>6 DEF X

\* The types of the entries.
LEMMA Entries ==
    ASSUME NEW m, MemTypes(m), NEW d \in Dir, NEW i \in Index
    PROVE  /\ m.pde[d][i] # NULL => /\ m.pde[d][i] \in PDE /\ m.pde[d][i].table \in Frame
                                    /\ m.pde[d][i].user \in BOOLEAN
           /\ \A j \in Page : Mapped(m, d, i, j) # NULL =>
                 /\ m.pde[d][i] # NULL /\ Mapped(m, d, i, j) = m.pte[m.pde[d][i].table][j]
                 /\ Mapped(m, d, i, j) \in PTE /\ Mapped(m, d, i, j).frame \in Frame
<1>1. /\ m.pde \in [Dir -> [Index -> PDE \cup {NULL}]]
      /\ m.pte \in [Frame -> [Page -> PTE \cup {NULL}]]
  BY DEF MemTypes
<1>2. m.pde[d][i] \in PDE \cup {NULL}
  BY <1>1
<1>3. m.pde[d][i] # NULL =>
        m.pde[d][i] \in PDE /\ m.pde[d][i].table \in Frame /\ m.pde[d][i].user \in BOOLEAN
  BY <1>2 DEF PDE
<1>4. ASSUME NEW j \in Page, Mapped(m, d, i, j) # NULL
      PROVE  /\ m.pde[d][i] # NULL /\ Mapped(m, d, i, j) = m.pte[m.pde[d][i].table][j]
             /\ Mapped(m, d, i, j) \in PTE /\ Mapped(m, d, i, j).frame \in Frame
  <2>1. m.pde[d][i] # NULL /\ Mapped(m, d, i, j) = m.pte[m.pde[d][i].table][j]
    BY <1>4 DEF Mapped
  <2>2. Mapped(m, d, i, j) \in PTE \cup {NULL}
    <3>1. m.pte[m.pde[d][i].table] \in [Page -> PTE \cup {NULL}]
      BY <1>1, <1>3, <2>1
    <3> QED BY <2>1, <3>1
  <2>3. Mapped(m, d, i, j).frame \in Frame
    BY <1>4, <2>2 DEF PTE
  <2> QED BY <1>4, <2>1, <2>2, <2>3
<1> QED BY <1>3, <1>4

\* One thing leads to a frame, written out.
LEMMA Roles ==
    ASSUME NEW m, NEW D, NEW f
    PROVE  /\ \A i \in Index : KTab(m, i, f) => Leads(m, D, <<"ktab", i>>, f)
           /\ \A d \in D : \A i \in Index : UTab(m, d, i, f) => Leads(m, D, <<"utab", d, i>>, f)
           /\ \A j \in Page : HPage(m, j, f) => Leads(m, D, <<"heap", j>>, f)
           /\ \A d \in D : \A i \in UserIndex : \A j \in Page :
                 UPage(m, d, i, j, f) => Leads(m, D, <<"upage", d, i, j>>, f)
BY DEF Leads

\* Names of different things differ.
LEMMA Names ==
    /\ \A i, k : <<"ktab", i>> = <<"ktab", k>> => i = k
    /\ \A d, i, e, k : <<"utab", d, i>> = <<"utab", e, k>> => d = e /\ i = k
    /\ \A i, k : <<"heap", i>> = <<"heap", k>> => i = k
    /\ \A d, i, j, e, k, l : <<"upage", d, i, j>> = <<"upage", e, k, l>> => d = e /\ i = k /\ j = l
    /\ \A i, d, k : <<"ktab", i>> # <<"utab", d, k>>
    /\ \A i, j : <<"ktab", i>> # <<"heap", j>>
    /\ \A i, d, k, j : <<"ktab", i>> # <<"upage", d, k, j>>
    /\ \A d, i, j : <<"utab", d, i>> # <<"heap", j>>
    /\ \A d, i, e, k, j : <<"utab", d, i>> # <<"upage", e, k, j>>
    /\ \A j, d, i, k : <<"heap", j>> # <<"upage", d, i, k>>
OBVIOUS

-----------------------------------------------------------------------------
(* What Sound says of the tables and pages.                                *)

Distinct(m, D, S) ==
    /\ \A i, k \in Index : m.pde[KDIR][i] # NULL /\ m.pde[KDIR][k] # NULL
                           /\ m.pde[KDIR][i].table = m.pde[KDIR][k].table => i = k
    /\ \A d, e \in D : \A i, k \in UserIndex :
          m.pde[d][i] # NULL /\ m.pde[e][k] # NULL /\ m.pde[d][i].table = m.pde[e][k].table
              => d = e /\ i = k
    /\ \A i \in Index : \A d \in D : \A k \in UserIndex :
          m.pde[KDIR][i] # NULL /\ m.pde[d][k] # NULL => m.pde[KDIR][i].table # m.pde[d][k].table
    /\ \A i \in Index : m.pde[KDIR][i] # NULL =>
          m.pde[KDIR][i].table \in m.used /\ m.pde[KDIR][i].table \notin S
    /\ \A d \in D : \A i \in UserIndex : m.pde[d][i] # NULL =>
          m.pde[d][i].table \in m.used /\ m.pde[d][i].table \notin S
Pages(m, D, S) ==
    \A d \in D : \A i \in UserIndex : \A j \in Page : Mapped(m, d, i, j) # NULL =>
        LET f == Mapped(m, d, i, j).frame
        IN  /\ f \in m.used /\ f \notin S
            /\ \A k \in Index : m.pde[KDIR][k] # NULL => m.pde[KDIR][k].table # f
            /\ \A e \in D : \A k \in UserIndex : m.pde[e][k] # NULL => m.pde[e][k].table # f
            /\ \A e \in D : \A k \in UserIndex : \A l \in Page :
                  UPage(m, e, k, l, f) => d = e /\ i = k /\ j = l
            /\ \A l \in Page : ~HPage(m, l, f)

LEMMA TablesDistinct ==
    ASSUME NEW m, NEW D, NEW S, World(m, D, S)
    PROVE  Distinct(m, D, S)
<1>1. MemTypes(m) /\ D \subseteq Frame /\ Sound(m, D, S) /\ SharedOK(m, D) /\ S \subseteq Frame
  BY DEF World
<1>2. /\ \A f \in Frame : \A r, s : Leads(m, D, r, f) /\ Leads(m, D, s, f) => r = s
      /\ \A f \in Frame : \A r : Leads(m, D, r, f) => f \in m.used /\ f \notin S
  BY <1>1 DEF Sound
<1>3. ASSUME NEW i \in Index, m.pde[KDIR][i] # NULL
      PROVE  m.pde[KDIR][i].table \in Frame /\ Leads(m, D, <<"ktab", i>>, m.pde[KDIR][i].table)
  BY <1>1, <1>3, Consts, Entries, Roles DEF KTab
<1>4. ASSUME NEW d \in D, NEW i \in UserIndex, m.pde[d][i] # NULL
      PROVE  m.pde[d][i].table \in Frame /\ Leads(m, D, <<"utab", d, i>>, m.pde[d][i].table)
  <2>1. d \in Dir /\ i \in Index /\ m.pde[d][i].user
    BY <1>1, <1>4, Consts DEF SharedOK
  <2> QED BY <1>1, <1>4, <2>1, Entries, Roles DEF UTab
<1>5. \A i, k \in Index : m.pde[KDIR][i] # NULL /\ m.pde[KDIR][k] # NULL
                          /\ m.pde[KDIR][i].table = m.pde[KDIR][k].table => i = k
  <2> SUFFICES ASSUME NEW i \in Index, NEW k \in Index, m.pde[KDIR][i] # NULL, m.pde[KDIR][k] # NULL,
                      m.pde[KDIR][i].table = m.pde[KDIR][k].table
               PROVE  i = k
    OBVIOUS
  <2>1. <<"ktab", i>> = <<"ktab", k>>
    BY <1>2, <1>3
  <2> QED BY <2>1, Names
<1>6. \A d, e \in D : \A i, k \in UserIndex :
          m.pde[d][i] # NULL /\ m.pde[e][k] # NULL /\ m.pde[d][i].table = m.pde[e][k].table
              => d = e /\ i = k
  BY <1>2, <1>4, Names
<1>7. \A i \in Index : \A d \in D : \A k \in UserIndex :
          m.pde[KDIR][i] # NULL /\ m.pde[d][k] # NULL => m.pde[KDIR][i].table # m.pde[d][k].table
  BY <1>2, <1>3, <1>4, Names
<1>8. \A i \in Index : m.pde[KDIR][i] # NULL =>
          m.pde[KDIR][i].table \in m.used /\ m.pde[KDIR][i].table \notin S
  BY <1>2, <1>3
<1>9. \A d \in D : \A i \in UserIndex : m.pde[d][i] # NULL =>
          m.pde[d][i].table \in m.used /\ m.pde[d][i].table \notin S
  BY <1>2, <1>4
<1> QED BY <1>5, <1>6, <1>7, <1>8, <1>9 DEF Distinct

LEMMA PagesDistinct ==
    ASSUME NEW m, NEW D, NEW S, World(m, D, S)
    PROVE  Pages(m, D, S)
<1>1. MemTypes(m) /\ D \subseteq Frame /\ Sound(m, D, S) /\ SharedOK(m, D) /\ S \subseteq Frame
  BY DEF World
<1>2. /\ \A f \in Frame : \A r, s : Leads(m, D, r, f) /\ Leads(m, D, s, f) => r = s
      /\ \A f \in Frame : \A r : Leads(m, D, r, f) => f \in m.used /\ f \notin S
  BY <1>1 DEF Sound
<1> SUFFICES ASSUME NEW d \in D, NEW i \in UserIndex, NEW j \in Page, Mapped(m, d, i, j) # NULL,
                    NEW f, f = Mapped(m, d, i, j).frame
             PROVE  /\ f \in m.used /\ f \notin S
                    /\ \A k \in Index : m.pde[KDIR][k] # NULL => m.pde[KDIR][k].table # f
                    /\ \A e \in D : \A k \in UserIndex : m.pde[e][k] # NULL => m.pde[e][k].table # f
                    /\ \A e \in D : \A k \in UserIndex : \A l \in Page :
                          UPage(m, e, k, l, f) => d = e /\ i = k /\ j = l
                    /\ \A l \in Page : ~HPage(m, l, f)
  BY DEF Pages
<1>3. f \in Frame /\ Leads(m, D, <<"upage", d, i, j>>, f)
  <2>1. d \in Dir /\ i \in Index
    BY <1>1, Consts
  <2>2. f \in Frame
    BY <1>1, <2>1, Entries
  <2> QED BY <2>2, Roles DEF UPage
<1>4. \A k \in Index : m.pde[KDIR][k] # NULL => m.pde[KDIR][k].table # f
  <2> SUFFICES ASSUME NEW k \in Index, m.pde[KDIR][k] # NULL, m.pde[KDIR][k].table = f PROVE FALSE
    OBVIOUS
  <2>1. Leads(m, D, <<"ktab", k>>, f)
    BY Roles DEF KTab
  <2> QED BY <1>2, <1>3, <2>1, Names
<1>5. \A e \in D : \A k \in UserIndex : m.pde[e][k] # NULL => m.pde[e][k].table # f
  <2> SUFFICES ASSUME NEW e \in D, NEW k \in UserIndex, m.pde[e][k] # NULL, m.pde[e][k].table = f
               PROVE  FALSE
    OBVIOUS
  <2>1. Leads(m, D, <<"utab", e, k>>, f)
    BY <1>1, Consts, Roles DEF UTab, SharedOK
  <2> QED BY <1>2, <1>3, <2>1, Names
<1>6. \A e \in D : \A k \in UserIndex : \A l \in Page :
          UPage(m, e, k, l, f) => d = e /\ i = k /\ j = l
  <2> SUFFICES ASSUME NEW e \in D, NEW k \in UserIndex, NEW l \in Page, UPage(m, e, k, l, f)
               PROVE  d = e /\ i = k /\ j = l
    OBVIOUS
  <2>1. Leads(m, D, <<"upage", e, k, l>>, f)
    BY Roles
  <2>2. <<"upage", d, i, j>> = <<"upage", e, k, l>>
    BY <1>2, <1>3, <2>1
  <2> QED BY <2>2, Names
<1>7. \A l \in Page : ~HPage(m, l, f)
  <2> SUFFICES ASSUME NEW l \in Page, HPage(m, l, f) PROVE FALSE
    OBVIOUS
  <2>1. Leads(m, D, <<"heap", l>>, f)
    BY Roles
  <2> QED BY <1>2, <1>3, <2>1, Names
<1> QED BY <1>2, <1>3, <1>4, <1>5, <1>6, <1>7

-----------------------------------------------------------------------------
(* What the paging operations do to a memory.                              *)

NewTable(m, n, d, i, t, user) ==
    /\ t \in Frame \ m.used /\ m.pde[d][i] = NULL
    /\ n = [used |-> m.used \cup {t},
            pde  |-> [m.pde EXCEPT ![d][i] = [table |-> t, user |-> user]],
            pte  |-> [m.pte EXCEPT ![t] = NoPage],
            data |-> [m.data EXCEPT ![t] = "table"]]
Entered(m, n, d, i, j, e) ==
    /\ m.pde[d][i] # NULL
    /\ n = [used |-> m.used, pde |-> m.pde,
            pte |-> [m.pte EXCEPT ![m.pde[d][i].table][j] = e], data |-> m.data]

\* The table of an entry: it is there, or it is new, or there is no frame for it.
LEMMA TableCases ==
    ASSUME NEW m, MemTypes(m), NEW d \in Dir, NEW i \in Index, NEW user \in BOOLEAN,
           m.pde[d][i] # NULL /\ user => m.pde[d][i].user
    PROVE  Table(m, d, i, user) = m \/ \E t : NewTable(m, Table(m, d, i, user), d, i, t, user)
<1>1. CASE m.pde[d][i] # NULL
  <2>1. Table(m, d, i, user) = [m EXCEPT !.pde[d][i].user = m.pde[d][i].user \/ user]
    BY <1>1 DEF Table
  <2>2. m.pde[d][i] \in PDE /\ (m.pde[d][i].user \/ user) = m.pde[d][i].user
    BY <1>1, Entries
  <2>3. [m.pde[d][i] EXCEPT !.user = m.pde[d][i].user] = m.pde[d][i]
    BY <2>2 DEF PDE
  <2>4. [m EXCEPT !.pde[d][i].user = m.pde[d][i].user] = m
    BY <2>3 DEF MemTypes
  <2> QED BY <2>1, <2>2, <2>4
<1>2. CASE m.pde[d][i] = NULL /\ pmm_allocate_frame(m) = 0
  BY <1>2 DEF Table
<1>3. CASE m.pde[d][i] = NULL /\ pmm_allocate_frame(m) # 0
  <2>1. PICK t : t = pmm_allocate_frame(m)
    OBVIOUS
  <2>2. t \in Frame \ m.used /\ t # 0
    BY <1>3, <2>1, Allocates
  <2>3. Table(m, d, i, user) =
            [Take(m, t) EXCEPT !.pde[d][i] = [table |-> t, user |-> user],
                               !.pte[t] = [j \in Page |-> NULL], !.data[t] = "table"]
    BY <1>3, <2>1, <2>2 DEF Table
  <2>4. NewTable(m, Table(m, d, i, user), d, i, t, user)
    BY <1>3, <2>2, <2>3 DEF NewTable, MemTypes, Take, NoPage
  <2> QED BY <2>4
<1> QED BY <1>1, <1>2, <1>3

\* The same, entry by entry.
IsNew(m, n, d, i, t, user) ==
    /\ MemTypes(n) /\ n.used = m.used \cup {t} /\ t \in Frame /\ t \notin m.used
    /\ n.pde[d][i] = [table |-> t, user |-> user] /\ m.pde[d][i] = NULL
    /\ n.pde[d][i] # NULL /\ n.pde[d][i].table = t /\ n.pde[d][i].user = user
    /\ \A e \in Dir : \A k \in Index : e # d \/ k # i => n.pde[e][k] = m.pde[e][k]
    /\ \A u \in Frame : u # t => n.pte[u] = m.pte[u] /\ n.data[u] = m.data[u]
    /\ \A j \in Page : n.pte[t][j] = NULL
    /\ n.data[t] = "table"
IsEntered(m, n, d, i, j, e) ==
    /\ MemTypes(n) /\ n.used = m.used /\ n.pde = m.pde /\ n.data = m.data
    /\ m.pde[d][i] # NULL /\ m.pde[d][i].table \in Frame /\ n.pte[m.pde[d][i].table][j] = e
    /\ \A u \in Frame : \A l \in Page : u # m.pde[d][i].table \/ l # j => n.pte[u][l] = m.pte[u][l]

LEMMA NewTypes ==
    ASSUME NEW m, MemTypes(m), NEW d \in Dir, NEW i \in Index, NEW user \in BOOLEAN,
           NEW n, NEW t, NewTable(m, n, d, i, t, user)
    PROVE  IsNew(m, n, d, i, t, user)
<1>1. [table |-> t, user |-> user] \in PDE /\ [table |-> t, user |-> user] # NULL
  BY Consts DEF NewTable, PDE
<1>2. NoPage \in [Page -> PTE \cup {NULL}] /\ \A j \in Page : NoPage[j] = NULL
  BY DEF NoPage
<1>3. MemTypes(n)
  BY <1>1, <1>2 DEF NewTable, MemTypes, Kind
<1> QED BY <1>1, <1>2, <1>3 DEF NewTable, MemTypes, IsNew

LEMMA EnteredTypes ==
    ASSUME NEW m, MemTypes(m), NEW d \in Dir, NEW i \in Index, NEW j \in Page,
           NEW e \in PTE \cup {NULL}, NEW n, Entered(m, n, d, i, j, e)
    PROVE  IsEntered(m, n, d, i, j, e)
<1>1. m.pde[d][i].table \in Frame
  BY Entries DEF Entered
<1> QED BY <1>1 DEF Entered, MemTypes, IsEntered

\* A mapping that fails changes nothing.
MapResult(m, d, i, j, f, user, r) ==
    /\ r.ok \in BOOLEAN /\ (~r.ok => r.m = m)
    /\ r.ok => \E n : /\ n = m \/ \E t : NewTable(m, n, d, i, t, user)
                      /\ n.pde[d][i] # NULL /\ Mapped(n, d, i, j) = NULL
                      /\ Entered(n, r.m, d, i, j, [frame |-> f, user |-> user])
LEMMA MapCases ==
    ASSUME NEW m, MemTypes(m), NEW d \in Dir, NEW i \in Index, NEW j \in Page, NEW f \in Frame,
           NEW user \in BOOLEAN, m.pde[d][i] # NULL /\ user => m.pde[d][i].user
    PROVE  MapResult(m, d, i, j, f, user, paging_map_page(m, d, i, j, f, user))
<1> DEFINE r == paging_map_page(m, d, i, j, f, user)
<1>1. PICK n : n = Table(m, d, i, user)
  OBVIOUS
<1>2. n = m \/ \E t : NewTable(m, n, d, i, t, user)
  BY <1>1, TableCases
<1>3. r = IF n.pde[d][i] = NULL THEN [m |-> n, ok |-> FALSE]
          ELSE IF n.pte[n.pde[d][i].table][j] # NULL THEN [m |-> n, ok |-> FALSE]
          ELSE [m |-> Enter(n, d, i, j, [frame |-> f, user |-> user]), ok |-> TRUE]
  BY <1>1 DEF paging_map_page
<1> SUFFICES MapResult(m, d, i, j, f, user, r)
  OBVIOUS
<1> HIDE DEF r
<1>4. MemTypes(n)
  <2>1. CASE n = m
    BY <2>1
  <2>2. ASSUME NEW t, NewTable(m, n, d, i, t, user) PROVE MemTypes(n)
    <3>1. IsNew(m, n, d, i, t, user)
      BY <2>2, NewTypes, Zenon
    <3> QED BY <3>1 DEF IsNew
  <2> QED BY <1>2, <2>1, <2>2
<1>5. ASSUME n # m PROVE n.pde[d][i] # NULL /\ n.pte[n.pde[d][i].table][j] = NULL
  <2>1. PICK t : NewTable(m, n, d, i, t, user)
    BY <1>2, <1>5
  <2>2. n.pde[d][i] # NULL /\ n.pde[d][i].table = t /\ \A l \in Page : n.pte[t][l] = NULL
    <3>1. IsNew(m, n, d, i, t, user)
      BY <2>1, NewTypes, Zenon
    <3> QED BY <3>1 DEF IsNew
  <2> QED BY <2>2
<1>6. CASE n.pde[d][i] = NULL \/ n.pte[n.pde[d][i].table][j] # NULL
  BY <1>3, <1>5, <1>6 DEF MapResult
<1>7. CASE n.pde[d][i] # NULL /\ n.pte[n.pde[d][i].table][j] = NULL
  <2>1. r.ok = TRUE /\ r.m = Enter(n, d, i, j, [frame |-> f, user |-> user])
    BY <1>3, <1>7
  <2>2. Mapped(n, d, i, j) = NULL
    BY <1>7 DEF Mapped
  <2>3. Entered(n, r.m, d, i, j, [frame |-> f, user |-> user])
    BY <1>4, <1>7, <2>1 DEF Enter, Entered, MemTypes
  <2> QED BY <1>2, <1>7, <2>1, <2>2, <2>3 DEF MapResult
<1> QED BY <1>6, <1>7 DEF MapResult

-----------------------------------------------------------------------------
(* Which changes of a memory keep it sound.                                *)

\* In n the thing r0 leads to t, and otherwise it is as in m.
Gains(m, n, D, r0, t) ==
    \A f \in Frame : \A r : Leads(n, D, r, f) <=> Leads(m, D, r, f) \/ (r = r0 /\ f = t)
SameLeads(m, n, D) == \A f \in Frame : \A r : Leads(n, D, r, f) <=> Leads(m, D, r, f)

LEMMA SoundGain ==
    ASSUME NEW m, NEW n, NEW D, NEW S, NEW T, Sound(m, D, S), NEW r0, NEW t \in Frame,
           Gains(m, n, D, r0, t), S \subseteq Frame,
           \/ T = S /\ t \notin m.used /\ n.used = m.used \cup {t}
           \/ t \in S /\ T = S \ {t} /\ n.used = m.used
    PROVE  Sound(n, D, T)
<1>1. \A f \in Frame : f \in m.used <=> f \in S \/ \E r : Leads(m, D, r, f)
  BY DEF Sound
<1>2. \A r : ~Leads(m, D, r, t)
  BY <1>1 DEF Sound
<1>3. \A f \in Frame : \A r, s : Leads(n, D, r, f) /\ Leads(n, D, s, f) => r = s
  BY <1>2 DEF Sound, Gains
<1>4. \A f \in T : \A r : ~Leads(n, D, r, f)
  <2>1. \A f \in T : f \in Frame /\ f \in S /\ f # t
    BY <1>1
  <2> QED BY <2>1 DEF Sound, Gains
<1>5. Leads(n, D, r0, t)
  BY DEF Gains
<1>6. ASSUME NEW f \in Frame PROVE f \in n.used <=> f \in T \/ \E r : Leads(n, D, r, f)
  <2>1. CASE f = t
    BY <1>1, <1>5, <2>1
  <2>2. CASE f # t
    <3>1. \A r : Leads(n, D, r, f) <=> Leads(m, D, r, f)
      BY <2>2 DEF Gains
    <3> QED BY <1>1, <2>2, <3>1
  <2> QED BY <2>1, <2>2
<1> QED BY <1>3, <1>4, <1>6 DEF Sound

LEMMA SoundSame ==
    ASSUME NEW m, NEW n, NEW D, NEW S, Sound(m, D, S), SameLeads(m, n, D), n.used = m.used,
           S \subseteq Frame
    PROVE  Sound(n, D, S)
BY DEF Sound, SameLeads

\* The four kinds of leads, compared one by one.
LEMMA LeadsFrom ==
    ASSUME NEW m, NEW n, NEW D,
           \A f \in Frame : \A i \in Index : KTab(n, i, f) <=> KTab(m, i, f),
           \A f \in Frame : \A d \in D : \A i \in Index : UTab(n, d, i, f) <=> UTab(m, d, i, f),
           \A f \in Frame : \A j \in Page : HPage(n, j, f) <=> HPage(m, j, f),
           \A f \in Frame : \A d \in D : \A i \in UserIndex : \A j \in Page :
              UPage(n, d, i, j, f) <=> UPage(m, d, i, j, f)
    PROVE  SameLeads(m, n, D)
BY Zenon DEF SameLeads, Leads

\* The directories a table can be entered in: the kernel's, for its own addresses, and
\* those of D, for a program's.
Place(D, e, i, user) ==
    \/ e = KDIR /\ i \in Index \ UserIndex /\ i # Heap /\ user = FALSE
    \/ e \in D /\ i \in UserIndex /\ user = TRUE

\* No table and no page of a sound memory is free.
LEMMA TablesUsed ==
    ASSUME NEW m, NEW D, NEW S, World(m, D, S), NEW e \in D \cup {KDIR}, NEW k \in Index,
           m.pde[e][k] # NULL
    PROVE  /\ m.pde[e][k].table \in Frame /\ m.pde[e][k].table \in m.used
           /\ m.pde[e][k].table \notin S
<1>1. MemTypes(m) /\ D \subseteq Frame /\ SharedOK(m, D) /\ Distinct(m, D, S)
  BY TablesDistinct DEF World
<1>2. e \in Dir
  BY <1>1, Consts
<1>3. m.pde[e][k].table \in Frame
  BY <1>1, <1>2, Entries
<1>4. CASE e = KDIR
  BY <1>1, <1>3, <1>4 DEF Distinct
<1>5. CASE e \in D /\ k \in UserIndex
  BY <1>1, <1>3, <1>5 DEF Distinct
<1>6. CASE e \in D /\ k \notin UserIndex
  <2>1. m.pde[e][k] = m.pde[KDIR][k]
    BY <1>1, <1>6 DEF SharedOK
  <2> QED BY <1>1, <1>3, <2>1 DEF Distinct
<1> QED BY <1>4, <1>5, <1>6

LEMMA TableWorld ==
    ASSUME NEW m, NEW D, NEW S, World(m, D, S), NEW e, NEW i, NEW user, Place(D, e, i, user),
           NEW n, NEW t, NewTable(m, n, e, i, t, user)
    PROVE  World(n, D, S) /\ Quiet(m, n, S)
<1>1. MemTypes(m) /\ D \subseteq Frame /\ D \subseteq S /\ S \subseteq Frame /\ KernelOK(m)
      /\ SharedOK(m, D) /\ CleanOK(m, D) /\ Sound(m, D, S)
  BY DEF World
<1>2. e \in D \cup {KDIR} /\ e \in Dir /\ i \in Index /\ user \in BOOLEAN /\ D \cup {KDIR} \subseteq Dir
      /\ i # Heap
  BY <1>1, Consts DEF Place
<1>3. IsNew(m, n, e, i, t, user)
  BY <1>1, <1>2, NewTypes, Zenon
<1>4. /\ MemTypes(n) /\ n.used = m.used \cup {t} /\ t \in Frame /\ t \notin m.used
      /\ m.pde[e][i] = NULL
      /\ n.pde[e][i] # NULL /\ n.pde[e][i].table = t /\ n.pde[e][i].user = user
      /\ \A x \in Dir : \A k \in Index : x # e \/ k # i => n.pde[x][k] = m.pde[x][k]
      /\ \A u \in Frame : u # t => n.pte[u] = m.pte[u] /\ n.data[u] = m.data[u]
      /\ \A j \in Page : n.pte[t][j] = NULL
      /\ n.data[t] = "table"
  BY <1>3 DEF IsNew
<1>5. ASSUME NEW x \in D \cup {KDIR}, NEW k \in Index, m.pde[x][k] # NULL
      PROVE  /\ m.pde[x][k].table \in Frame /\ m.pde[x][k].table # t /\ n.pde[x][k] = m.pde[x][k]
             /\ n.pte[m.pde[x][k].table] = m.pte[m.pde[x][k].table]
  <2>1. m.pde[x][k].table \in Frame /\ m.pde[x][k].table \in m.used
    BY <1>5, TablesUsed
  <2>2. x # e \/ k # i
    BY <1>4, <1>5
  <2> QED BY <1>2, <1>4, <2>1, <2>2
<1>6. ASSUME NEW x \in D \cup {KDIR}, NEW k \in Index, NEW j \in Page
      PROVE  Mapped(n, x, k, j) = Mapped(m, x, k, j)
  <2>1. CASE m.pde[x][k] # NULL
    BY <1>5, <2>1 DEF Mapped
  <2>2. CASE x = e /\ k = i
    BY <1>4, <2>2 DEF Mapped
  <2>3. CASE m.pde[x][k] = NULL /\ (x # e \/ k # i)
    BY <1>2, <1>4, <2>3 DEF Mapped
  <2> QED BY <2>1, <2>2, <2>3
<1>7. S \subseteq m.used /\ t \notin S
  BY <1>1, <1>4 DEF Sound
<1>8. KernelOK(n)
  <2>1. n.pde[KDIR][Heap] # NULL
    BY <1>1, <1>5, Consts DEF KernelOK
  <2>2. ASSUME NEW k \in Index, n.pde[KDIR][k] # NULL PROVE k \notin UserIndex /\ ~n.pde[KDIR][k].user
    <3>1. CASE e = KDIR /\ k = i
      BY <1>1, <1>4, <3>1, Consts DEF Place
    <3>2. CASE e # KDIR \/ k # i
      <4>1. n.pde[KDIR][k] = m.pde[KDIR][k]
        BY <1>4, <3>2, Consts
      <4> QED BY <1>1, <2>2, <4>1 DEF KernelOK
    <3> QED BY <3>1, <3>2
  <2> QED BY <2>1, <2>2 DEF KernelOK
<1>9. SharedOK(n, D)
  <2> SUFFICES ASSUME NEW d \in D
               PROVE  /\ n.pde[d][Heap] = n.pde[KDIR][Heap] /\ n.pde[d][Scratch] = NULL
                      /\ \A k \in Index \ UserIndex : n.pde[d][k] # NULL => n.pde[d][k] = n.pde[KDIR][k]
                      /\ \A k \in UserIndex : n.pde[d][k] # NULL => n.pde[d][k].user
    BY DEF SharedOK
  <2>1. d # KDIR /\ d \in Dir
    BY <1>1, <1>2, Consts
  <2>2. \A k \in Index \ UserIndex : n.pde[d][k] = m.pde[d][k]
    BY <1>4, <2>1 DEF Place
  <2>3. n.pde[d][Heap] = n.pde[KDIR][Heap] /\ n.pde[d][Scratch] = NULL
    <3>1. n.pde[KDIR][Heap] = m.pde[KDIR][Heap]
      BY <1>2, <1>4, Consts
    <3> QED BY <1>1, <2>2, <3>1, Consts DEF SharedOK
  <2>4. ASSUME NEW k \in Index \ UserIndex, n.pde[d][k] # NULL PROVE n.pde[d][k] = n.pde[KDIR][k]
    <3>1. m.pde[d][k] # NULL /\ m.pde[d][k] = m.pde[KDIR][k]
      BY <1>1, <2>2, <2>4 DEF SharedOK
    <3> QED BY <1>5, <2>2, <3>1
  <2>5. ASSUME NEW k \in UserIndex, n.pde[d][k] # NULL PROVE n.pde[d][k].user
    <3>1. CASE d = e /\ k = i
      BY <1>4, <2>1, <3>1 DEF Place
    <3>2. CASE d # e \/ k # i
      <4>1. n.pde[d][k] = m.pde[d][k]
        BY <1>4, <2>1, <3>2, Consts
      <4> QED BY <1>1, <2>5, <4>1 DEF SharedOK
    <3> QED BY <3>1, <3>2
  <2> QED BY <2>3, <2>4, <2>5
<1>10. CleanOK(n, D)
  <2>1. ASSUME NEW x \in D \cup {KDIR}, NEW k \in Index, n.pde[x][k] # NULL,
               m.pde[x][k] # NULL => m.data[m.pde[x][k].table] = "table"
        PROVE  n.data[n.pde[x][k].table] = "table"
    <3>1. CASE m.pde[x][k] # NULL
      BY <1>4, <1>5, <2>1, <3>1
    <3>2. CASE m.pde[x][k] = NULL
      <4>1. x = e /\ k = i
        BY <1>2, <1>4, <2>1, <3>2
      <4> QED BY <1>4, <4>1
    <3> QED BY <3>1, <3>2
  <2>2. \A k \in Index : n.pde[KDIR][k] # NULL => n.data[n.pde[KDIR][k].table] = "table"
    BY <1>1, <2>1 DEF CleanOK
  <2>3. ASSUME NEW d \in D PROVE n.data[d] = "dir"
    BY <1>1, <1>4, <1>7 DEF CleanOK
  <2>4. ASSUME NEW d \in D, NEW k \in UserIndex, n.pde[d][k] # NULL
        PROVE  n.data[n.pde[d][k].table] = "table"
    <3>1. k \in Index
      BY Consts
    <3> QED BY <1>1, <2>1, <2>4, <3>1 DEF CleanOK
  <2>5. ASSUME NEW d \in D, NEW k \in UserIndex, NEW j \in Page, Mapped(n, d, k, j) # NULL
        PROVE  n.data[Mapped(n, d, k, j).frame] = "page"
    <3>1. Mapped(n, d, k, j) = Mapped(m, d, k, j) /\ k \in Index /\ d \in Dir
      BY <1>2, <1>6, Consts
    <3>2. Mapped(m, d, k, j).frame \in Frame /\ m.data[Mapped(m, d, k, j).frame] = "page"
      BY <1>1, <2>5, <3>1, Entries DEF CleanOK
    <3>3. Mapped(m, d, k, j).frame # t
      BY <1>4, <2>5, <3>1, PagesDistinct DEF Pages
    <3> QED BY <1>4, <3>1, <3>2, <3>3
  <2> QED BY <2>2, <2>3, <2>4, <2>5 DEF CleanOK
<1>11. Sound(n, D, S)
  <2>1. \A f \in Frame : \A k \in Index : KTab(n, k, f) <=> KTab(m, k, f) \/ (e = KDIR /\ k = i /\ f = t)
    BY <1>4, <1>5, Consts DEF KTab
  <2>2. \A f \in Frame : \A d \in D : \A k \in Index :
           UTab(n, d, k, f) <=> UTab(m, d, k, f) \/ (e = d /\ k = i /\ f = t)
    <3> SUFFICES ASSUME NEW f \in Frame, NEW d \in D, NEW k \in Index
                 PROVE  UTab(n, d, k, f) <=> UTab(m, d, k, f) \/ (e = d /\ k = i /\ f = t)
      OBVIOUS
    <3>1. d # KDIR /\ d \in Dir
      BY <1>1, <1>2, Consts
    <3>2. CASE e = d /\ k = i
      BY <1>4, <3>1, <3>2 DEF UTab, Place
    <3>3. CASE e # d \/ k # i
      BY <1>4, <3>1, <3>3 DEF UTab
    <3> QED BY <3>2, <3>3
  <2>3. /\ \A f \in Frame : \A j \in Page : HPage(n, j, f) <=> HPage(m, j, f)
        /\ \A f \in Frame : \A d \in D : \A k \in UserIndex : \A j \in Page :
              UPage(n, d, k, j, f) <=> UPage(m, d, k, j, f)
    BY <1>6, Consts DEF HPage, UPage
  <2>4. CASE e = KDIR
    <3>1. e \notin D
      BY <1>1, <2>4, Consts
    <3>2. Gains(m, n, D, <<"ktab", i>>, t)
      BY <1>2, <2>1, <2>2, <2>3, <2>4, <3>1, ZenonT(90) DEF Gains, Leads
    <3> QED BY <1>1, <1>4, <1>7, <3>2, SoundGain
  <2>5. CASE e # KDIR
    <3>1. e \in D
      BY <1>2, <2>5
    <3>2. Gains(m, n, D, <<"utab", e, i>>, t)
      BY <1>2, <2>1, <2>2, <2>3, <2>5, <3>1, ZenonT(90) DEF Gains, Leads
    <3> QED BY <1>1, <1>4, <1>7, <3>2, SoundGain
  <2> QED BY <2>4, <2>5
<1>12. Quiet(m, n, S)
  BY <1>1, <1>4, <1>6, <1>7, Consts DEF Quiet
<1> QED BY <1>1, <1>4, <1>8, <1>9, <1>10, <1>11, <1>12 DEF World

\* An entry in one of the kernel's tables other than the heap's.
LEMMA KernelEnter ==
    ASSUME NEW m, NEW D, NEW S, World(m, D, S), NEW i \in Index \ UserIndex, i # Heap, NEW j \in Page,
           NEW e \in PTE \cup {NULL}, NEW n, Entered(m, n, KDIR, i, j, e)
    PROVE  /\ World(n, D, S) /\ n.data = m.data /\ Mapped(n, KDIR, i, j) = e
           /\ i # Scratch => Quiet(m, n, S)
<1>1. MemTypes(m) /\ D \subseteq Frame /\ D \subseteq S /\ S \subseteq Frame /\ KernelOK(m)
      /\ SharedOK(m, D) /\ CleanOK(m, D) /\ Sound(m, D, S) /\ Distinct(m, D, S)
  BY TablesDistinct DEF World
<1>2. IsEntered(m, n, KDIR, i, j, e)
  BY <1>1, Consts, EnteredTypes, Zenon
<1>3. /\ MemTypes(n) /\ n.used = m.used /\ n.pde = m.pde /\ n.data = m.data
      /\ m.pde[KDIR][i] # NULL /\ n.pte[m.pde[KDIR][i].table][j] = e
      /\ \A u \in Frame : \A l \in Page : u # m.pde[KDIR][i].table \/ l # j => n.pte[u][l] = m.pte[u][l]
  BY <1>2 DEF IsEntered
<1>4. ASSUME NEW k \in Index, k # i, NEW l \in Page PROVE Mapped(n, KDIR, k, l) = Mapped(m, KDIR, k, l)
  <2>1. CASE m.pde[KDIR][k] = NULL
    BY <1>3, <2>1 DEF Mapped
  <2>2. CASE m.pde[KDIR][k] # NULL
    <3>1. m.pde[KDIR][k].table # m.pde[KDIR][i].table /\ m.pde[KDIR][k].table \in Frame
      BY <1>1, <1>3, <1>4, <2>2, TablesUsed DEF Distinct
    <3> QED BY <1>3, <2>2, <3>1 DEF Mapped
  <2> QED BY <2>1, <2>2
<1>5. ASSUME NEW d \in D, NEW k \in UserIndex, NEW l \in Page PROVE Mapped(n, d, k, l) = Mapped(m, d, k, l)
  <2>1. CASE m.pde[d][k] = NULL
    BY <1>3, <2>1 DEF Mapped
  <2>2. CASE m.pde[d][k] # NULL
    <3>1. m.pde[d][k].table # m.pde[KDIR][i].table /\ m.pde[d][k].table \in Frame
      BY <1>1, <1>3, <2>2, TablesUsed, Consts DEF Distinct
    <3> QED BY <1>3, <2>2, <3>1 DEF Mapped
  <2> QED BY <2>1, <2>2
<1>6. KernelOK(n) /\ SharedOK(n, D)
  BY <1>1, <1>3 DEF KernelOK, SharedOK
<1>7. CleanOK(n, D)
  BY <1>1, <1>3, <1>5 DEF CleanOK
<1>8. SameLeads(m, n, D)
  <2>1. \A f \in Frame : \A k \in Index : KTab(n, k, f) <=> KTab(m, k, f)
    BY <1>3 DEF KTab
  <2>2. \A f \in Frame : \A d \in D : \A k \in Index : UTab(n, d, k, f) <=> UTab(m, d, k, f)
    BY <1>3 DEF UTab
  <2>3. \A f \in Frame : \A l \in Page : HPage(n, l, f) <=> HPage(m, l, f)
    BY <1>4, Consts DEF HPage
  <2>4. \A f \in Frame : \A d \in D : \A k \in UserIndex : \A l \in Page :
           UPage(n, d, k, l, f) <=> UPage(m, d, k, l, f)
    BY <1>5 DEF UPage
  <2> QED BY <2>1, <2>2, <2>3, <2>4, LeadsFrom
<1>9. Sound(n, D, S)
  BY <1>1, <1>3, <1>8, SoundSame
<1>10. i # Scratch => Quiet(m, n, S)
  BY <1>3, <1>4, Consts DEF Quiet
<1>11. Mapped(n, KDIR, i, j) = e
  BY <1>3 DEF Mapped
<1> QED BY <1>1, <1>3, <1>6, <1>7, <1>9, <1>10, <1>11 DEF World

\* A page that is filled goes from somebody's hand into a program.
LEMMA UserEnter ==
    ASSUME NEW m, NEW D, NEW S, World(m, D, S), NEW d \in D, NEW i \in UserIndex, NEW j \in Page,
           NEW f \in S \ D, m.data[f] = "page", Mapped(m, d, i, j) = NULL,
           NEW e \in PTE, e.frame = f, NEW n, Entered(m, n, d, i, j, e)
    PROVE  World(n, D, S \ {f}) /\ Quiet(m, n, S)
<1>1. MemTypes(m) /\ D \subseteq Frame /\ D \subseteq S /\ S \subseteq Frame /\ KernelOK(m)
      /\ SharedOK(m, D) /\ CleanOK(m, D) /\ Sound(m, D, S) /\ Distinct(m, D, S)
      /\ d \in Dir /\ i \in Index /\ f \in Frame
  BY TablesDistinct, Consts DEF World
<1>2. IsEntered(m, n, d, i, j, e)
  <2>1. e \in PTE \cup {NULL}
    OBVIOUS
  <2> QED BY <1>1, <2>1, EnteredTypes, Zenon
<1>3. /\ MemTypes(n) /\ n.used = m.used /\ n.pde = m.pde /\ n.data = m.data
      /\ m.pde[d][i] # NULL /\ n.pte[m.pde[d][i].table][j] = e
      /\ \A u \in Frame : \A l \in Page : u # m.pde[d][i].table \/ l # j => n.pte[u][l] = m.pte[u][l]
  BY <1>2 DEF IsEntered
<1>4. ASSUME NEW k \in Index, NEW l \in Page PROVE Mapped(n, KDIR, k, l) = Mapped(m, KDIR, k, l)
  <2>1. CASE m.pde[KDIR][k] = NULL
    BY <1>3, <2>1 DEF Mapped
  <2>2. CASE m.pde[KDIR][k] # NULL
    <3>1. m.pde[KDIR][k].table # m.pde[d][i].table /\ m.pde[KDIR][k].table \in Frame
      BY <1>1, <1>3, <2>2, TablesUsed DEF Distinct
    <3> QED BY <1>3, <2>2, <3>1 DEF Mapped
  <2> QED BY <2>1, <2>2
<1>5. ASSUME NEW x \in D, NEW k \in UserIndex, NEW l \in Page, x # d \/ k # i \/ l # j
      PROVE  Mapped(n, x, k, l) = Mapped(m, x, k, l)
  <2>1. CASE m.pde[x][k] = NULL
    BY <1>3, <2>1 DEF Mapped
  <2>2. CASE m.pde[x][k] # NULL
    <3>1. (m.pde[x][k].table # m.pde[d][i].table \/ l # j) /\ m.pde[x][k].table \in Frame
      BY <1>1, <1>3, <1>5, <2>2, TablesUsed, Consts DEF Distinct
    <3> QED BY <1>3, <2>2, <3>1 DEF Mapped
  <2> QED BY <2>1, <2>2
<1>6. Mapped(n, d, i, j) = e /\ e # NULL
  BY <1>3, Consts DEF Mapped
<1>7. KernelOK(n) /\ SharedOK(n, D)
  BY <1>1, <1>3 DEF KernelOK, SharedOK
<1>8. CleanOK(n, D)
  <2>1. ASSUME NEW x \in D, NEW k \in UserIndex, NEW l \in Page, Mapped(n, x, k, l) # NULL
        PROVE  n.data[Mapped(n, x, k, l).frame] = "page"
    <3>1. CASE x = d /\ k = i /\ l = j
      BY <1>3, <1>6, <3>1
    <3>2. CASE x # d \/ k # i \/ l # j
      BY <1>1, <1>3, <1>5, <2>1, <3>2 DEF CleanOK
    <3> QED BY <3>1, <3>2
  <2> QED BY <1>1, <1>3, <2>1 DEF CleanOK
<1>9. Gains(m, n, D, <<"upage", d, i, j>>, f)
  <2>1. \A g \in Frame : \A k \in Index : KTab(n, k, g) <=> KTab(m, k, g)
    BY <1>3 DEF KTab
  <2>2. \A g \in Frame : \A x \in D : \A k \in Index : UTab(n, x, k, g) <=> UTab(m, x, k, g)
    BY <1>3 DEF UTab
  <2>3. \A g \in Frame : \A l \in Page : HPage(n, l, g) <=> HPage(m, l, g)
    BY <1>4, Consts DEF HPage
  <2>4. \A g \in Frame : \A x \in D : \A k \in UserIndex : \A l \in Page :
           UPage(n, x, k, l, g) <=> UPage(m, x, k, l, g) \/ (x = d /\ k = i /\ l = j /\ g = f)
    <3> SUFFICES ASSUME NEW g \in Frame, NEW x \in D, NEW k \in UserIndex, NEW l \in Page
                 PROVE  UPage(n, x, k, l, g) <=> UPage(m, x, k, l, g)
                                                 \/ (x = d /\ k = i /\ l = j /\ g = f)
      OBVIOUS
    <3>1. CASE x = d /\ k = i /\ l = j
      BY <1>6, <3>1 DEF UPage
    <3>2. CASE x # d \/ k # i \/ l # j
      BY <1>5, <3>2 DEF UPage
    <3> QED BY <3>1, <3>2
  <2>5. \A g \in Frame : \A r : Leads(n, D, r, g) => Leads(m, D, r, g) \/ (r = <<"upage", d, i, j>> /\ g = f)
    BY <2>1, <2>2, <2>3, <2>4, ZenonT(90) DEF Leads
  <2>6. \A g \in Frame : \A r : Leads(m, D, r, g) => Leads(n, D, r, g)
    BY <2>1, <2>2, <2>3, <2>4, ZenonT(60) DEF Leads
  <2>7. Leads(n, D, <<"upage", d, i, j>>, f)
    BY <1>1, <2>4, Roles
  <2> QED BY <2>5, <2>6, <2>7, Zenon DEF Gains
<1>10. Sound(n, D, S \ {f})
  BY <1>1, <1>3, <1>9, SoundGain
<1>11. Quiet(m, n, S)
  BY <1>3, <1>4, Consts DEF Quiet
<1> QED BY <1>1, <1>3, <1>7, <1>8, <1>10, <1>11 DEF World

\* A frame goes from somebody's hand into the heap.
LedByHeap(m, D, f, j) == \A r : Leads(m, D, r, f) => r = <<"heap", j>>
LEMMA HeapEnter ==
    ASSUME NEW m, NEW D, NEW S, World(m, D, S), NEW d \in D \cup {KDIR}, NEW j \in Page,
           NEW f \in S \ D, Mapped(m, d, Heap, j) = NULL,
           NEW e \in PTE, e.frame = f, NEW n, Entered(m, n, d, Heap, j, e)
    PROVE  World(n, D, S \ {f}) /\ Quiet(m, n, S) /\ LedByHeap(n, D, f, j)
<1>1. MemTypes(m) /\ D \subseteq Frame /\ D \subseteq S /\ S \subseteq Frame /\ KernelOK(m)
      /\ SharedOK(m, D) /\ CleanOK(m, D) /\ Sound(m, D, S) /\ Distinct(m, D, S)
      /\ d \in Dir /\ f \in Frame
  BY TablesDistinct, Consts DEF World
<1>2. IsEntered(m, n, d, Heap, j, e)
  <2>1. e \in PTE \cup {NULL}
    OBVIOUS
  <2> QED BY <1>1, <2>1, Consts, EnteredTypes, Zenon
<1>3. /\ MemTypes(n) /\ n.used = m.used /\ n.pde = m.pde /\ n.data = m.data
      /\ m.pde[d][Heap] # NULL /\ n.pte[m.pde[d][Heap].table][j] = e
      /\ \A u \in Frame : \A l \in Page : u # m.pde[d][Heap].table \/ l # j => n.pte[u][l] = m.pte[u][l]
  BY <1>2 DEF IsEntered
<1>4. m.pde[d][Heap] = m.pde[KDIR][Heap]
  BY <1>1 DEF SharedOK
<1>5. ASSUME NEW k \in Index, NEW l \in Page, k # Heap \/ l # j
      PROVE  Mapped(n, KDIR, k, l) = Mapped(m, KDIR, k, l)
  <2>1. CASE m.pde[KDIR][k] = NULL
    BY <1>3, <2>1 DEF Mapped
  <2>2. CASE m.pde[KDIR][k] # NULL
    <3>1. (m.pde[KDIR][k].table # m.pde[d][Heap].table \/ l # j) /\ m.pde[KDIR][k].table \in Frame
      BY <1>1, <1>3, <1>4, <1>5, <2>2, TablesUsed, Consts DEF Distinct
    <3> QED BY <1>3, <2>2, <3>1 DEF Mapped
  <2> QED BY <2>1, <2>2
<1>6. ASSUME NEW x \in D, NEW k \in UserIndex, NEW l \in Page
      PROVE  Mapped(n, x, k, l) = Mapped(m, x, k, l)
  <2>1. CASE m.pde[x][k] = NULL
    BY <1>3, <2>1 DEF Mapped
  <2>2. CASE m.pde[x][k] # NULL
    <3>1. m.pde[x][k].table # m.pde[d][Heap].table /\ m.pde[x][k].table \in Frame
      BY <1>1, <1>3, <1>4, <2>2, TablesUsed, Consts DEF Distinct
    <3> QED BY <1>3, <2>2, <3>1 DEF Mapped
  <2> QED BY <2>1, <2>2
<1>7. Mapped(n, KDIR, Heap, j) = e /\ e # NULL /\ Mapped(m, KDIR, Heap, j) = NULL
  BY <1>3, <1>4, Consts DEF Mapped
<1>8. KernelOK(n) /\ SharedOK(n, D)
  BY <1>1, <1>3 DEF KernelOK, SharedOK
<1>9. CleanOK(n, D)
  BY <1>1, <1>3, <1>6 DEF CleanOK
<1>10. Gains(m, n, D, <<"heap", j>>, f)
  <2>1. \A g \in Frame : \A k \in Index : KTab(n, k, g) <=> KTab(m, k, g)
    BY <1>3 DEF KTab
  <2>2. \A g \in Frame : \A x \in D : \A k \in Index : UTab(n, x, k, g) <=> UTab(m, x, k, g)
    BY <1>3 DEF UTab
  <2>3. \A g \in Frame : \A l \in Page : HPage(n, l, g) <=> HPage(m, l, g) \/ (l = j /\ g = f)
    <3> SUFFICES ASSUME NEW g \in Frame, NEW l \in Page
                 PROVE  HPage(n, l, g) <=> HPage(m, l, g) \/ (l = j /\ g = f)
      OBVIOUS
    <3>1. CASE l = j
      BY <1>7, <3>1 DEF HPage
    <3>2. CASE l # j
      BY <1>5, <3>2, Consts DEF HPage
    <3> QED BY <3>1, <3>2
  <2>4. \A g \in Frame : \A x \in D : \A k \in UserIndex : \A l \in Page :
           UPage(n, x, k, l, g) <=> UPage(m, x, k, l, g)
    BY <1>6 DEF UPage
  <2> QED BY <2>1, <2>2, <2>3, <2>4, ZenonT(90) DEF Gains, Leads
<1>11. Sound(n, D, S \ {f})
  BY <1>1, <1>3, <1>10, SoundGain
<1>12. Quiet(m, n, S)
  BY <1>3, <1>5, Consts DEF Quiet
<1>13. \A r : Leads(n, D, r, f) => r = <<"heap", j>>
  <2>1. \A r : ~Leads(m, D, r, f)
    BY <1>1 DEF Sound
  <2> QED BY <1>1, <1>10, <2>1, Zenon DEF Gains
<1> QED BY <1>1, <1>3, <1>8, <1>9, <1>11, <1>12, <1>13 DEF World, LedByHeap

\* A frame is allocated.
LEMMA TakeWorld ==
    ASSUME NEW m, NEW D, NEW S, World(m, D, S), NEW f \in Frame \ m.used, NEW n, n = Take(m, f)
    PROVE  /\ World(n, D, S \cup {f}) /\ Quiet(m, n, Frame) /\ f \notin S
           /\ n.used = m.used \cup {f}
<1>1. MemTypes(m) /\ D \subseteq S /\ S \subseteq Frame /\ KernelOK(m)
      /\ SharedOK(m, D) /\ CleanOK(m, D) /\ Sound(m, D, S)
  BY DEF World
<1>2. /\ MemTypes(n) /\ n.used = m.used \cup {f} /\ n.pde = m.pde /\ n.pte = m.pte /\ n.data = m.data
  BY <1>1 DEF Take, MemTypes
<1>3. \A x, k, l : Mapped(n, x, k, l) = Mapped(m, x, k, l)
  BY <1>2 DEF Mapped
<1>4. KernelOK(n) /\ SharedOK(n, D)
  BY <1>1, <1>2 DEF KernelOK, SharedOK
<1>5. CleanOK(n, D)
  BY <1>1, <1>2, <1>3 DEF CleanOK
<1>6. SameLeads(m, n, D)
  <2>1. \A g \in Frame : \A k \in Index : KTab(n, k, g) <=> KTab(m, k, g)
    BY <1>2 DEF KTab
  <2>2. \A g \in Frame : \A d \in D : \A k \in Index : UTab(n, d, k, g) <=> UTab(m, d, k, g)
    BY <1>2 DEF UTab
  <2>3. \A g \in Frame : \A l \in Page : HPage(n, l, g) <=> HPage(m, l, g)
    BY <1>3 DEF HPage
  <2>4. \A g \in Frame : \A d \in D : \A k \in UserIndex : \A l \in Page :
           UPage(n, d, k, l, g) <=> UPage(m, d, k, l, g)
    BY <1>3 DEF UPage
  <2> QED BY <2>1, <2>2, <2>3, <2>4, LeadsFrom
<1>7. f \notin S /\ \A r : ~Leads(m, D, r, f)
  BY <1>1 DEF Sound
<1>8. Sound(n, D, S \cup {f})
  BY <1>1, <1>2, <1>6, <1>7 DEF Sound, SameLeads
<1>9. Quiet(m, n, Frame)
  BY <1>2, <1>3 DEF Quiet
<1> QED BY <1>1, <1>2, <1>4, <1>5, <1>7, <1>8, <1>9 DEF World

\* A frame that is in somebody's hand, or in the heap, is written.
Put(m, f, x) == [m EXCEPT !.data[f] = x]
PutWorld(m, n, D, S, f, x) == World(n, D, S) /\ Quiet(m, n, Frame \ {f}) /\ n.data[f] = x
NotEntered(m, D, f) == \A r : Leads(m, D, r, f) => \E j \in Page : r = <<"heap", j>>
LEMMA DataWorld ==
    ASSUME NEW m, NEW D, NEW S, World(m, D, S), NEW f \in Frame \ D, NEW x \in Kind,
           NotEntered(m, D, f), NEW n, n = Put(m, f, x)
    PROVE  PutWorld(m, n, D, S, f, x)
<1>0. \A r : Leads(m, D, r, f) => \E j \in Page : r = <<"heap", j>>
  BY DEF NotEntered
<1>1. MemTypes(m) /\ D \subseteq S /\ S \subseteq Frame /\ KernelOK(m) /\ D \subseteq Frame
      /\ SharedOK(m, D) /\ CleanOK(m, D) /\ Sound(m, D, S)
  BY DEF World
<1>2. /\ MemTypes(n) /\ n.used = m.used /\ n.pde = m.pde /\ n.pte = m.pte
      /\ n.data[f] = x /\ \A g \in Frame : g # f => n.data[g] = m.data[g]
  BY <1>1 DEF MemTypes, Put
<1>3. \A y, k, l : Mapped(n, y, k, l) = Mapped(m, y, k, l)
  BY <1>2 DEF Mapped
<1>4. KernelOK(n) /\ SharedOK(n, D)
  BY <1>1, <1>2 DEF KernelOK, SharedOK
<1>5. ASSUME NEW k \in Index, m.pde[KDIR][k] # NULL
      PROVE  m.pde[KDIR][k].table # f /\ m.pde[KDIR][k].table \in Frame
  <2>1. m.pde[KDIR][k].table = f => Leads(m, D, <<"ktab", k>>, f)
    BY <1>5, Roles DEF KTab
  <2> QED BY <1>0, <1>5, <2>1, Names, TablesUsed
<1>6. ASSUME NEW d \in D, NEW k \in UserIndex, m.pde[d][k] # NULL
      PROVE  m.pde[d][k].table # f /\ m.pde[d][k].table \in Frame
  <2>1. m.pde[d][k].user /\ k \in Index
    BY <1>1, <1>6, Consts DEF SharedOK
  <2>2. m.pde[d][k].table = f => Leads(m, D, <<"utab", d, k>>, f)
    BY <1>6, <2>1, Roles DEF UTab
  <2> QED BY <1>0, <1>6, <2>1, <2>2, Names, TablesUsed
<1>7. ASSUME NEW d \in D, NEW k \in UserIndex, NEW l \in Page, Mapped(m, d, k, l) # NULL
      PROVE  Mapped(m, d, k, l).frame # f /\ Mapped(m, d, k, l).frame \in Frame
  <2>1. Mapped(m, d, k, l).frame = f => Leads(m, D, <<"upage", d, k, l>>, f)
    BY <1>7, Roles DEF UPage
  <2>2. d \in Dir /\ k \in Index
    BY <1>1, Consts
  <2> QED BY <1>0, <1>1, <1>7, <2>1, <2>2, Names, Entries
<1>8. CleanOK(n, D)
  <2>1. \A d \in D : n.data[d] = "dir"
    BY <1>1, <1>2 DEF CleanOK
  <2>2. ASSUME NEW k \in Index, n.pde[KDIR][k] # NULL PROVE n.data[n.pde[KDIR][k].table] = "table"
    BY <1>1, <1>2, <1>5, <2>2 DEF CleanOK
  <2>3. ASSUME NEW d \in D, NEW k \in UserIndex, n.pde[d][k] # NULL
        PROVE  n.data[n.pde[d][k].table] = "table"
    BY <1>1, <1>2, <1>6, <2>3 DEF CleanOK
  <2>4. ASSUME NEW d \in D, NEW k \in UserIndex, NEW l \in Page, Mapped(n, d, k, l) # NULL
        PROVE  n.data[Mapped(n, d, k, l).frame] = "page"
    BY <1>1, <1>2, <1>3, <1>7, <2>4 DEF CleanOK
  <2> QED BY <2>1, <2>2, <2>3, <2>4 DEF CleanOK
<1>9. SameLeads(m, n, D)
  <2>1. \A g \in Frame : \A k \in Index : KTab(n, k, g) <=> KTab(m, k, g)
    BY <1>2 DEF KTab
  <2>2. \A g \in Frame : \A d \in D : \A k \in Index : UTab(n, d, k, g) <=> UTab(m, d, k, g)
    BY <1>2 DEF UTab
  <2>3. \A g \in Frame : \A l \in Page : HPage(n, l, g) <=> HPage(m, l, g)
    BY <1>3 DEF HPage
  <2>4. \A g \in Frame : \A d \in D : \A k \in UserIndex : \A l \in Page :
           UPage(n, d, k, l, g) <=> UPage(m, d, k, l, g)
    BY <1>3 DEF UPage
  <2> QED BY <2>1, <2>2, <2>3, <2>4, LeadsFrom
<1>10. Sound(n, D, S)
  BY <1>1, <1>2, <1>9, SoundSame
<1>11. Quiet(m, n, Frame \ {f})
  BY <1>2, <1>3 DEF Quiet
<1> QED BY <1>1, <1>2, <1>4, <1>8, <1>10, <1>11 DEF World, PutWorld

\* A new directory, f, gets the kernel's entries.
LEMMA FormWorld ==
    ASSUME NEW m, NEW D, NEW S, World(m, D, S), NEW f \in S \ D, NEW n,
           n = [m EXCEPT !.pde[f] = [i \in Index |->
                                     IF i = Scratch THEN NULL
                                     ELSE IF m.pde[KDIR][i] = NULL THEN NULL
                                     ELSE IF m.pde[KDIR][i].user THEN NULL
                                     ELSE m.pde[KDIR][i]],
                         !.data[f] = "dir"]
    PROVE  World(n, D \cup {f}, S) /\ Quiet(m, n, S \ {f})
<1> DEFINE row == [i \in Index |-> IF i = Scratch THEN NULL
                                   ELSE IF m.pde[KDIR][i] = NULL THEN NULL
                                   ELSE IF m.pde[KDIR][i].user THEN NULL
                                   ELSE m.pde[KDIR][i]]
<1>1. MemTypes(m) /\ D \subseteq S /\ S \subseteq Frame /\ KernelOK(m) /\ D \subseteq Frame
      /\ SharedOK(m, D) /\ CleanOK(m, D) /\ Sound(m, D, S) /\ f \in Frame /\ f # KDIR /\ f \in Dir
  BY Consts DEF World
<1>2. row \in [Index -> PDE \cup {NULL}]
  <2>1. m.pde[KDIR] \in [Index -> PDE \cup {NULL}]
    BY <1>1, Consts DEF MemTypes
  <2> QED BY <2>1
<1>3. /\ \A i \in Index : row[i] = IF i = Scratch THEN NULL ELSE m.pde[KDIR][i]
      /\ \A i \in UserIndex : row[i] = NULL
  BY <1>1, Consts DEF KernelOK
<1> HIDE DEF row
<1>4. n = [m EXCEPT !.pde[f] = row, !.data[f] = "dir"]
  BY DEF row
<1>5. /\ MemTypes(n) /\ n.used = m.used /\ n.pte = m.pte /\ n.pde[f] = row /\ n.data[f] = "dir"
      /\ \A g \in Frame : g # f => n.data[g] = m.data[g]
      /\ \A d \in Dir : d # f => n.pde[d] = m.pde[d]
  <2>1. /\ n.used = m.used /\ n.pte = m.pte /\ n.pde = [m.pde EXCEPT ![f] = row]
        /\ n.data = [m.data EXCEPT ![f] = "dir"]
        /\ n = [used |-> n.used, pde |-> n.pde, pte |-> n.pte, data |-> n.data]
    BY <1>1, <1>4 DEF MemTypes
  <2>2. /\ n.used \in SUBSET Frame /\ n.pte \in [Frame -> [Page -> PTE \cup {NULL}]]
        /\ m.pde \in [Dir -> [Index -> PDE \cup {NULL}]] /\ m.data \in [Frame -> Kind]
    BY <1>1, <2>1 DEF MemTypes
  <2>3. /\ n.pde \in [Dir -> [Index -> PDE \cup {NULL}]] /\ n.pde[f] = row
        /\ \A d \in Dir : d # f => n.pde[d] = m.pde[d]
    BY <1>1, <1>2, <2>1, <2>2
  <2>4. /\ n.data \in [Frame -> Kind] /\ n.data[f] = "dir"
        /\ \A g \in Frame : g # f => n.data[g] = m.data[g]
    BY <1>1, <2>1, <2>2 DEF Kind
  <2>5. MemTypes(n)
    BY <2>1, <2>2, <2>3, <2>4 DEF MemTypes
  <2> QED BY <2>1, <2>3, <2>4, <2>5
<1>6. n.pde[KDIR] = m.pde[KDIR] /\ \A d \in D : n.pde[d] = m.pde[d] /\ d # f
  BY <1>1, <1>5, Consts
<1>7. /\ \A k \in Index : \A l \in Page : Mapped(n, KDIR, k, l) = Mapped(m, KDIR, k, l)
      /\ \A d \in D : \A k \in Index : \A l \in Page : Mapped(n, d, k, l) = Mapped(m, d, k, l)
      /\ \A k \in UserIndex : \A l \in Page : Mapped(n, f, k, l) = NULL
  <2>1. ASSUME NEW k \in Index, NEW l \in Page PROVE Mapped(n, KDIR, k, l) = Mapped(m, KDIR, k, l)
    <3>1. n.pde[KDIR] = m.pde[KDIR] /\ n.pte = m.pte
      BY <1>5, <1>6, Zenon
    <3> QED BY <3>1 DEF Mapped
  <2>2. ASSUME NEW d \in D, NEW k \in Index, NEW l \in Page PROVE Mapped(n, d, k, l) = Mapped(m, d, k, l)
    <3>1. n.pde[d] = m.pde[d] /\ n.pte = m.pte
      BY <1>5, <1>6, Zenon
    <3> QED BY <3>1 DEF Mapped
  <2>3. ASSUME NEW k \in UserIndex, NEW l \in Page PROVE Mapped(n, f, k, l) = NULL
    BY <1>3, <1>5, Zenon DEF Mapped
  <2> QED BY <2>1, <2>2, <2>3, Zenon
<1>8. KernelOK(n)
  BY <1>1, <1>6 DEF KernelOK
<1>9. SharedOK(n, D \cup {f})
  <2>1. ASSUME NEW d \in D
        PROVE  /\ n.pde[d][Heap] = n.pde[KDIR][Heap] /\ n.pde[d][Scratch] = NULL
               /\ \A i \in Index \ UserIndex : n.pde[d][i] # NULL => n.pde[d][i] = n.pde[KDIR][i]
               /\ \A i \in UserIndex : n.pde[d][i] # NULL => n.pde[d][i].user
    <3>1. n.pde[d] = m.pde[d] /\ n.pde[KDIR] = m.pde[KDIR]
      BY <1>6, Zenon
    <3> QED BY <1>1, <3>1, ZenonT(60) DEF SharedOK
  <2>2. /\ n.pde[f][Heap] = n.pde[KDIR][Heap] /\ n.pde[f][Scratch] = NULL
        /\ \A i \in Index \ UserIndex : n.pde[f][i] # NULL => n.pde[f][i] = n.pde[KDIR][i]
        /\ \A i \in UserIndex : n.pde[f][i] # NULL => n.pde[f][i].user
    BY <1>3, <1>5, <1>6, Consts, ZenonT(60)
  <2> QED BY <2>1, <2>2 DEF SharedOK
<1>10. \A g \in Frame : \A r : Leads(m, D, r, g) => g # f
  BY <1>1 DEF Sound
<1>11. CleanOK(n, D \cup {f})
  <2>1. ASSUME NEW k \in Index, n.pde[KDIR][k] # NULL PROVE n.data[n.pde[KDIR][k].table] = "table"
    <3>1. m.pde[KDIR][k].table \in Frame /\ m.pde[KDIR][k].table # f
      BY <1>6, <2>1, TablesUsed
    <3>2. n.pde[KDIR] = m.pde[KDIR] /\ n.data[m.pde[KDIR][k].table] = m.data[m.pde[KDIR][k].table]
      BY <1>5, <1>6, <3>1, Zenon
    <3>3. m.pde[KDIR][k] # NULL
      BY <2>1, <3>2
    <3>4. CleanOK(m, D)
      BY <1>1
    <3>5. m.data[m.pde[KDIR][k].table] = "table"
      BY <3>3, <3>4 DEF CleanOK
    <3> QED BY <3>2, <3>5
  <2>2. ASSUME NEW d \in D, NEW k \in UserIndex, n.pde[d][k] # NULL
        PROVE  n.data[n.pde[d][k].table] = "table"
    <3>1. m.pde[d][k].table \in Frame /\ m.pde[d][k].table # f
      BY <1>6, <2>2, TablesUsed, Consts
    <3>2. n.pde[d] = m.pde[d] /\ n.data[m.pde[d][k].table] = m.data[m.pde[d][k].table]
      BY <1>5, <1>6, <3>1, Zenon
    <3>3. m.data[m.pde[d][k].table] = "table"
      <4>1. CleanOK(m, D) /\ m.pde[d][k] # NULL
        BY <1>1, <2>2, <3>2
      <4> QED BY <4>1 DEF CleanOK
    <3> QED BY <3>2, <3>3
  <2>3. ASSUME NEW d \in D, NEW k \in UserIndex, NEW l \in Page, Mapped(n, d, k, l) # NULL
        PROVE  n.data[Mapped(n, d, k, l).frame] = "page"
    <3>1. Mapped(m, d, k, l).frame \in Frame /\ Mapped(m, d, k, l).frame # f
      <4>1. d \in Dir /\ k \in Index
        BY <1>1, Consts
      <4>0. Mapped(m, d, k, l) # NULL
        BY <1>7, <2>3, <4>1, Zenon
      <4>2. Mapped(m, d, k, l).frame \in Frame
        BY <1>1, <4>0, <4>1, Entries
      <4> QED BY <4>0, <4>2, PagesDistinct DEF Pages
    <3>2. Mapped(n, d, k, l) = Mapped(m, d, k, l)
      BY <1>7, Consts, Zenon
    <3>3. n.data[Mapped(m, d, k, l).frame] = m.data[Mapped(m, d, k, l).frame]
      BY <1>5, <3>1, Zenon
    <3>4. m.data[Mapped(m, d, k, l).frame] = "page"
      BY <1>1, <2>3, <3>2 DEF CleanOK
    <3> QED BY <3>2, <3>3, <3>4
  <2>4. \A k \in UserIndex : n.pde[f][k] = NULL /\ \A l \in Page : Mapped(n, f, k, l) = NULL
    BY <1>3, <1>5, <1>7
  <2>5. \A d \in D : n.data[d] = "dir"
    BY <1>1, <1>5, <1>6 DEF CleanOK
  <2>6. ASSUME NEW d \in D \cup {f}
        PROVE  /\ n.data[d] = "dir"
               /\ \A i \in UserIndex : n.pde[d][i] # NULL => n.data[n.pde[d][i].table] = "table"
               /\ \A i \in UserIndex : \A j \in Page :
                    Mapped(n, d, i, j) # NULL => n.data[Mapped(n, d, i, j).frame] = "page"
    <3>1. CASE d = f
      <4>1. n.data[d] = "dir"
        BY <1>5, <3>1, Zenon
      <4>2. \A k \in UserIndex : n.pde[d][k] = NULL /\ \A l \in Page : Mapped(n, d, k, l) = NULL
        BY <2>4, <3>1, Zenon
      <4> QED BY <4>1, <4>2
    <3>2. CASE d \in D
      BY <2>2, <2>3, <2>5, <3>2
    <3> QED BY <3>1, <3>2
  <2> QED BY <2>1, <2>6 DEF CleanOK
<1>12. \A g \in Frame : \A r : Leads(n, D \cup {f}, r, g) <=> Leads(m, D, r, g)
  <2>1. \A g \in Frame : \A k \in Index : KTab(n, k, g) <=> KTab(m, k, g)
    BY <1>6 DEF KTab
  <2>2. \A g \in Frame : \A d \in D : \A k \in Index : UTab(n, d, k, g) <=> UTab(m, d, k, g)
    BY <1>6 DEF UTab
  <2>3. \A g \in Frame : \A k \in Index : ~UTab(n, f, k, g)
    BY <1>1, <1>3, <1>5 DEF UTab, KernelOK
  <2>4. \A g \in Frame : \A l \in Page : HPage(n, l, g) <=> HPage(m, l, g)
    BY <1>7, Consts DEF HPage
  <2>5. \A g \in Frame : \A d \in D : \A k \in UserIndex : \A l \in Page :
           UPage(n, d, k, l, g) <=> UPage(m, d, k, l, g)
    <3>1. \A k \in UserIndex : k \in Index
      BY Consts
    <3> QED BY <1>7, <3>1, Zenon DEF UPage
  <2>6. \A g \in Frame : \A k \in UserIndex : \A l \in Page : ~UPage(n, f, k, l, g)
    BY <1>7 DEF UPage
  <2>7. SameLeads(m, n, D)
    BY <2>1, <2>2, <2>4, <2>5, LeadsFrom
  <2>8. \A g \in Frame : \A r : Leads(n, D \cup {f}, r, g) <=> Leads(n, D, r, g)
    BY <2>3, <2>6, ZenonT(60) DEF Leads
  <2> QED BY <2>7, <2>8 DEF SameLeads
<1>13. Sound(n, D \cup {f}, S)
  BY <1>1, <1>5, <1>12 DEF Sound
<1>14. Quiet(m, n, S \ {f})
  BY <1>1, <1>5, <1>7, Consts DEF Quiet
<1> QED BY <1>1, <1>5, <1>8, <1>9, <1>11, <1>13, <1>14 DEF World

\* Heap pages are nobody else's.
LEMMA HeapDistinct ==
    ASSUME NEW m, NEW D, NEW S, World(m, D, S), NEW l \in Page, NEW g, HPage(m, l, g)
    PROVE  /\ g \in Frame /\ g \notin S
           /\ \A e \in D : \A k \in UserIndex : m.pde[e][k] # NULL => m.pde[e][k].table # g
<1>1. MemTypes(m) /\ D \subseteq Frame /\ SharedOK(m, D) /\ Sound(m, D, S) /\ S \subseteq Frame
  BY DEF World
<1>2. g \in Frame
  BY <1>1, Consts, Entries DEF HPage
<1>3. Leads(m, D, <<"heap", l>>, g)
  BY Roles
<1>4. ASSUME NEW e \in D, NEW k \in UserIndex, m.pde[e][k] # NULL, m.pde[e][k].table = g PROVE FALSE
  <2>1. Leads(m, D, <<"utab", e, k>>, g)
    BY <1>1, <1>4, Consts, Roles DEF UTab, SharedOK
  <2> QED BY <1>1, <1>2, <1>3, <2>1, Names DEF Sound
<1> QED BY <1>1, <1>2, <1>3, <1>4 DEF Sound

\* The frames of fs are given back: what is left leads to none of them, and what is not
\* left leads to nothing else.
LEMMA Shrinks ==
    ASSUME NEW m, NEW D, NEW S, World(m, D, S), NEW fs \in SUBSET Frame, NEW n, MemTypes(n),
           n.used = m.used \ fs,
           \A x \in Dir \ fs : n.pde[x] = m.pde[x],
           \A u \in Frame \ fs : n.pte[u] = m.pte[u] /\ n.data[u] = m.data[u],
           \A k \in Index : m.pde[KDIR][k] # NULL => m.pde[KDIR][k].table \notin fs,
           \A l \in Page : \A g \in fs : ~HPage(m, l, g),
           \A x \in D \ fs : \A k \in UserIndex : m.pde[x][k] # NULL => m.pde[x][k].table \notin fs,
           \A x \in D \ fs : \A k \in UserIndex : \A l \in Page : \A g \in fs : ~UPage(m, x, k, l, g),
           \A x \in D \cap fs : \A k \in UserIndex : m.pde[x][k] # NULL => m.pde[x][k].table \in fs,
           \A x \in D \cap fs : \A k \in UserIndex : \A l \in Page : \A g \in Frame :
              UPage(m, x, k, l, g) => g \in fs
    PROVE  World(n, D \ fs, S \ fs) /\ Quiet(m, n, S \ fs)
<1>1. MemTypes(m) /\ D \subseteq S /\ S \subseteq Frame /\ KernelOK(m) /\ D \subseteq Frame
      /\ SharedOK(m, D) /\ CleanOK(m, D) /\ Sound(m, D, S)
  BY DEF World
<1>2. n.pde[KDIR] = m.pde[KDIR] /\ \A x \in D \ fs : n.pde[x] = m.pde[x]
  <2>1. KDIR \in Dir \ fs /\ \A x \in D \ fs : x \in Dir \ fs
    BY <1>1, Consts
  <2> QED BY <2>1, Zenon
<1>3. ASSUME NEW k \in Index, NEW l \in Page PROVE Mapped(n, KDIR, k, l) = Mapped(m, KDIR, k, l)
  <2>1. CASE m.pde[KDIR][k] = NULL
    BY <1>2, <2>1 DEF Mapped
  <2>2. CASE m.pde[KDIR][k] # NULL
    <3>1. m.pde[KDIR][k].table \in Frame \ fs
      BY <2>2, TablesUsed
    <3>2. n.pte[m.pde[KDIR][k].table] = m.pte[m.pde[KDIR][k].table] /\ n.pde[KDIR] = m.pde[KDIR]
      BY <1>2, <3>1, Zenon
    <3> QED BY <3>2 DEF Mapped
  <2> QED BY <2>1, <2>2
<1>4. ASSUME NEW x \in D \ fs, NEW k \in UserIndex, NEW l \in Page
      PROVE  Mapped(n, x, k, l) = Mapped(m, x, k, l)
  <2>0. n.pde[x] = m.pde[x]
    BY <1>2, Zenon
  <2>1. CASE m.pde[x][k] = NULL
    BY <2>0, <2>1 DEF Mapped
  <2>2. CASE m.pde[x][k] # NULL
    <3>1. m.pde[x][k].table \in Frame \ fs
      BY <2>2, TablesUsed, Consts
    <3>2. n.pte[m.pde[x][k].table] = m.pte[m.pde[x][k].table]
      BY <3>1, Zenon
    <3> QED BY <2>0, <3>2 DEF Mapped
  <2> QED BY <2>1, <2>2
<1>5. KernelOK(n)
  BY <1>1, <1>2 DEF KernelOK
<1>6. SharedOK(n, D \ fs)
  <2> SUFFICES ASSUME NEW d \in D \ fs
               PROVE  /\ n.pde[d][Heap] = n.pde[KDIR][Heap] /\ n.pde[d][Scratch] = NULL
                      /\ \A k \in Index \ UserIndex : n.pde[d][k] # NULL => n.pde[d][k] = n.pde[KDIR][k]
                      /\ \A k \in UserIndex : n.pde[d][k] # NULL => n.pde[d][k].user
    BY DEF SharedOK
  <2>1. n.pde[d] = m.pde[d] /\ n.pde[KDIR] = m.pde[KDIR]
    BY <1>2, Zenon
  <2> QED BY <1>1, <2>1 DEF SharedOK
<1>7. CleanOK(n, D \ fs)
  <2>1. ASSUME NEW k \in Index, n.pde[KDIR][k] # NULL PROVE n.data[n.pde[KDIR][k].table] = "table"
    <3>1. m.pde[KDIR][k] # NULL /\ n.pde[KDIR] = m.pde[KDIR]
      BY <1>2, <2>1
    <3>2. m.pde[KDIR][k].table \in Frame \ fs /\ m.data[m.pde[KDIR][k].table] = "table"
      BY <1>1, <3>1, TablesUsed DEF CleanOK
    <3>3. n.data[m.pde[KDIR][k].table] = m.data[m.pde[KDIR][k].table]
      BY <3>2, Zenon
    <3> QED BY <3>1, <3>2, <3>3
  <2>2. ASSUME NEW d \in D \ fs
        PROVE  /\ n.data[d] = "dir"
               /\ \A k \in UserIndex : n.pde[d][k] # NULL => n.data[n.pde[d][k].table] = "table"
               /\ \A k \in UserIndex : \A l \in Page :
                    Mapped(n, d, k, l) # NULL => n.data[Mapped(n, d, k, l).frame] = "page"
    <3>1. n.pde[d] = m.pde[d] /\ d \in D
      BY <1>2, Zenon
    <3>2. n.data[d] = m.data[d] /\ m.data[d] = "dir"
      BY <1>1 DEF CleanOK
    <3>3. ASSUME NEW k \in UserIndex, n.pde[d][k] # NULL PROVE n.data[n.pde[d][k].table] = "table"
      <4>1. m.pde[d][k].table \in Frame \ fs /\ m.data[m.pde[d][k].table] = "table"
        BY <1>1, <3>1, <3>3, TablesUsed, Consts DEF CleanOK
      <4>2. n.data[m.pde[d][k].table] = m.data[m.pde[d][k].table]
        BY <4>1, Zenon
      <4> QED BY <3>1, <4>1, <4>2
    <3>4. ASSUME NEW k \in UserIndex, NEW l \in Page, Mapped(n, d, k, l) # NULL
          PROVE  n.data[Mapped(n, d, k, l).frame] = "page"
      <4>1. Mapped(n, d, k, l) = Mapped(m, d, k, l) /\ d \in Dir /\ k \in Index
        BY <1>1, <1>4, Consts
      <4>2. Mapped(m, d, k, l).frame \in Frame /\ m.data[Mapped(m, d, k, l).frame] = "page"
        BY <1>1, <3>1, <3>4, <4>1, Entries DEF CleanOK
      <4>3. Mapped(m, d, k, l).frame \notin fs
        BY <3>4, <4>1 DEF UPage
      <4>4. n.data[Mapped(m, d, k, l).frame] = m.data[Mapped(m, d, k, l).frame]
        BY <4>2, <4>3, Zenon
      <4> QED BY <4>1, <4>2, <4>4
    <3> QED BY <3>2, <3>3, <3>4
  <2> QED BY <2>1, <2>2 DEF CleanOK
<1>8. SameLeads(m, n, D \ fs)
  <2>1. \A g \in Frame : \A k \in Index : KTab(n, k, g) <=> KTab(m, k, g)
    BY <1>2 DEF KTab
  <2>2. ASSUME NEW g \in Frame, NEW d \in D \ fs, NEW k \in Index PROVE UTab(n, d, k, g) <=> UTab(m, d, k, g)
    <3>1. n.pde[d] = m.pde[d]
      BY <1>2, Zenon
    <3> QED BY <3>1 DEF UTab
  <2>3. \A g \in Frame : \A l \in Page : HPage(n, l, g) <=> HPage(m, l, g)
    BY <1>3, Consts DEF HPage
  <2>4. ASSUME NEW g \in Frame, NEW d \in D \ fs, NEW k \in UserIndex, NEW l \in Page
        PROVE  UPage(n, d, k, l, g) <=> UPage(m, d, k, l, g)
    <3>1. Mapped(n, d, k, l) = Mapped(m, d, k, l)
      BY <1>4
    <3> QED BY <3>1 DEF UPage
  <2> QED BY <2>1, <2>2, <2>3, <2>4, LeadsFrom
<1>9. \A g \in Frame : \A r : Leads(m, D \ fs, r, g) => Leads(m, D, r, g) /\ g \notin fs
  <2> SUFFICES ASSUME NEW g \in Frame, NEW r, Leads(m, D \ fs, r, g)
               PROVE  Leads(m, D, r, g) /\ g \notin fs
    OBVIOUS
  <2>1. CASE \E i \in Index : r = <<"ktab", i>> /\ KTab(m, i, g)
    BY <2>1 DEF Leads, KTab
  <2>2. CASE \E d \in D \ fs : \E i \in Index : r = <<"utab", d, i>> /\ UTab(m, d, i, g)
    <3>1. PICK d \in D \ fs, i \in Index : r = <<"utab", d, i>> /\ UTab(m, d, i, g)
      BY <2>2
    <3>2. Leads(m, D, r, g)
      BY <3>1 DEF Leads
    <3>3. i \in UserIndex
      BY <1>1, <3>1 DEF UTab, SharedOK, KernelOK
    <3> QED BY <3>1, <3>2, <3>3 DEF UTab
  <2>3. CASE \E j \in Page : r = <<"heap", j>> /\ HPage(m, j, g)
    BY <2>3 DEF Leads
  <2>4. CASE \E d \in D \ fs : \E i \in UserIndex : \E j \in Page :
                r = <<"upage", d, i, j>> /\ UPage(m, d, i, j, g)
    <3>1. PICK d \in D \ fs, i \in UserIndex, j \in Page : r = <<"upage", d, i, j>> /\ UPage(m, d, i, j, g)
      BY <2>4
    <3>2. Leads(m, D, r, g)
      BY <3>1, Roles
    <3> QED BY <3>1, <3>2
  <2> QED BY <2>1, <2>2, <2>3, <2>4 DEF Leads
<1>10. \A g \in Frame \ fs : \A r : Leads(m, D, r, g) => Leads(m, D \ fs, r, g)
  <2> SUFFICES ASSUME NEW g \in Frame \ fs, NEW r, Leads(m, D, r, g)
               PROVE  Leads(m, D \ fs, r, g)
    OBVIOUS
  <2>1. CASE \E i \in Index : r = <<"ktab", i>> /\ KTab(m, i, g)
    BY <2>1 DEF Leads
  <2>2. CASE \E d \in D : \E i \in Index : r = <<"utab", d, i>> /\ UTab(m, d, i, g)
    <3>1. PICK d \in D, i \in Index : r = <<"utab", d, i>> /\ UTab(m, d, i, g)
      BY <2>2
    <3>2. i \in UserIndex
      BY <1>1, <3>1 DEF UTab, SharedOK, KernelOK
    <3>3. d \notin fs
      BY <3>1, <3>2 DEF UTab
    <3> QED BY <3>1, <3>3, Roles
  <2>3. CASE \E j \in Page : r = <<"heap", j>> /\ HPage(m, j, g)
    BY <2>3 DEF Leads
  <2>4. CASE \E d \in D : \E i \in UserIndex : \E j \in Page :
                r = <<"upage", d, i, j>> /\ UPage(m, d, i, j, g)
    <3>1. PICK d \in D, i \in UserIndex, j \in Page : r = <<"upage", d, i, j>> /\ UPage(m, d, i, j, g)
      BY <2>4
    <3>2. d \notin fs
      BY <3>1
    <3> QED BY <3>1, <3>2, Roles
  <2> QED BY <2>1, <2>2, <2>3, <2>4 DEF Leads
<1>11. Sound(n, D \ fs, S \ fs)
  <2>1. \A g \in Frame : \A r : Leads(n, D \ fs, r, g) <=> Leads(m, D, r, g) /\ g \notin fs
    BY <1>8, <1>9, <1>10 DEF SameLeads
  <2> QED BY <1>1, <2>1 DEF Sound
<1>12. Quiet(m, n, S \ fs)
  BY <1>1, <1>3, Consts DEF Quiet
<1> QED BY <1>1, <1>5, <1>6, <1>7, <1>11, <1>12 DEF World

\* The types of a memory after pmm_free_frame.
LEMMA FreeTypes ==
    ASSUME NEW m, MemTypes(m), NEW fs \in SUBSET Frame, NEW n, n = pmm_free_frame(m, fs)
    PROVE  /\ MemTypes(n) /\ n.used = m.used \ fs
           /\ \A x \in Dir \ fs : n.pde[x] = m.pde[x]
           /\ \A u \in Frame \ fs : n.pte[u] = m.pte[u] /\ n.data[u] = m.data[u]
<1>1. NoDir \in [Index -> PDE \cup {NULL}] /\ NoPage \in [Page -> PTE \cup {NULL}]
  BY DEF NoDir, NoPage
<1>2. /\ n.used = m.used \ fs
      /\ n.pde = [d \in Dir |-> IF d \in fs THEN NoDir ELSE m.pde[d]]
      /\ n.pte = [t \in Frame |-> IF t \in fs THEN NoPage ELSE m.pte[t]]
      /\ n.data = [f \in Frame |-> IF f \in fs THEN "junk" ELSE m.data[f]]
      /\ n = [used |-> n.used, pde |-> n.pde, pte |-> n.pte, data |-> n.data]
  BY DEF pmm_free_frame
<1>3. /\ m.used \in SUBSET Frame /\ m.pde \in [Dir -> [Index -> PDE \cup {NULL}]]
      /\ m.pte \in [Frame -> [Page -> PTE \cup {NULL}]] /\ m.data \in [Frame -> Kind]
  BY DEF MemTypes
<1>4. n.pde \in [Dir -> [Index -> PDE \cup {NULL}]] /\ n.pte \in [Frame -> [Page -> PTE \cup {NULL}]]
  BY <1>1, <1>2, <1>3
<1>5. n.data \in [Frame -> Kind]
  BY <1>2, <1>3 DEF Kind
<1>6. MemTypes(n)
  BY <1>2, <1>3, <1>4, <1>5 DEF MemTypes
<1> QED BY <1>2, <1>6

\* A frame in somebody's hand is freed.
LEMMA FreeWorld ==
    ASSUME NEW m, NEW D, NEW S, World(m, D, S), NEW f \in S \ D, NEW n, n = pmm_free_frame(m, {f})
    PROVE  World(n, D, S \ {f}) /\ Quiet(m, n, S \ {f})
<1>1. MemTypes(m) /\ D \subseteq S /\ S \subseteq Frame /\ {f} \in SUBSET Frame
  BY DEF World
<1>2. /\ MemTypes(n) /\ n.used = m.used \ {f}
      /\ \A x \in Dir \ {f} : n.pde[x] = m.pde[x]
      /\ \A u \in Frame \ {f} : n.pte[u] = m.pte[u] /\ n.data[u] = m.data[u]
  BY <1>1, FreeTypes
<1>3. \A k \in Index : m.pde[KDIR][k] # NULL => m.pde[KDIR][k].table \notin {f}
  BY TablesUsed
<1>4. \A l \in Page : \A g \in {f} : ~HPage(m, l, g)
  BY HeapDistinct
<1>5. \A x \in D \ {f} : \A k \in UserIndex : m.pde[x][k] # NULL => m.pde[x][k].table \notin {f}
  BY TablesUsed, Consts
<1>6. \A x \in D \ {f} : \A k \in UserIndex : \A l \in Page : \A g \in {f} : ~UPage(m, x, k, l, g)
  BY PagesDistinct DEF Pages, UPage
<1>7. D \cap {f} = {} /\ D \ {f} = D
  OBVIOUS
<1>8. World(n, D \ {f}, S \ {f}) /\ Quiet(m, n, S \ {f})
  BY <1>1, <1>2, <1>3, <1>4, <1>5, <1>6, <1>7, Shrinks
<1> QED BY <1>7, <1>8

\* A directory is destroyed: it goes with everything it leads to, and with nothing else.
LEMMA DestroyWorld ==
    ASSUME NEW m, NEW D, NEW S, World(m, D, S), NEW d \in D, NEW n,
           n = paging_destroy_user_directory(m, d)
    PROVE  World(n, D \ {d}, S \ {d}) /\ Quiet(m, n, S \ {d})
<1> DEFINE T  == UserTables(m, d)
           P  == UNION {PagesOf(m, t) : t \in T}
           fs == {d} \cup T \cup P
           c  == Cleared(m, d)
<1>1. MemTypes(m) /\ D \subseteq S /\ S \subseteq Frame /\ KernelOK(m) /\ D \subseteq Frame
      /\ SharedOK(m, D) /\ d \in Frame /\ d \in Dir /\ d \in S
  BY Consts DEF World
<1>2. Distinct(m, D, S) /\ Pages(m, D, S)
  BY TablesDistinct, PagesDistinct
<1>3. ASSUME NEW x \in T PROVE \E k \in UserIndex : m.pde[d][k] # NULL /\ x = m.pde[d][k].table
  <2>1. PICK k \in Index \ {Scratch} : m.pde[d][k] # NULL /\ m.pde[d][k].user /\ x = m.pde[d][k].table
    BY <1>3 DEF UserTables
  <2>2. k \in UserIndex
    BY <1>1, <2>1 DEF SharedOK, KernelOK
  <2> QED BY <2>1, <2>2
<1>4. ASSUME NEW k \in UserIndex, m.pde[d][k] # NULL PROVE m.pde[d][k].table \in T
  <2>1. m.pde[d][k].user /\ k \in Index \ {Scratch}
    BY <1>1, <1>4, Consts DEF SharedOK
  <2> QED BY <1>4, <2>1 DEF UserTables
<1>5. ASSUME NEW g \in P PROVE g \in Frame /\ \E k \in UserIndex : \E l \in Page : UPage(m, d, k, l, g)
  <2>1. PICK t \in T : g \in PagesOf(m, t)
    BY <1>5
  <2>2. PICK l \in Page : m.pte[t][l] # NULL /\ g = m.pte[t][l].frame
    BY <2>1 DEF PagesOf
  <2>3. PICK k \in UserIndex : m.pde[d][k] # NULL /\ t = m.pde[d][k].table
    BY <1>3
  <2>4. Mapped(m, d, k, l) = m.pte[t][l]
    BY <2>3 DEF Mapped
  <2>5. UPage(m, d, k, l, g)
    BY <2>2, <2>4 DEF UPage
  <2>6. g \in Frame
    BY <1>1, <2>2, <2>4, Entries, Consts
  <2> QED BY <2>5, <2>6
<1>6. ASSUME NEW k \in UserIndex, NEW l \in Page, NEW g, UPage(m, d, k, l, g) PROVE g \in P
  <2>1. Mapped(m, d, k, l) # NULL /\ g = Mapped(m, d, k, l).frame
    BY <1>6 DEF UPage
  <2>2. m.pde[d][k] # NULL /\ Mapped(m, d, k, l) = m.pte[m.pde[d][k].table][l]
    BY <2>1 DEF Mapped
  <2>3. m.pde[d][k].table \in T
    BY <1>4, <2>2
  <2>4. g \in PagesOf(m, m.pde[d][k].table)
    BY <2>1, <2>2 DEF PagesOf
  <2> QED BY <2>3, <2>4
<1>7. \A x \in T : x \in Frame /\ x \notin S
  BY <1>2, <1>3, TablesUsed, Consts DEF Distinct
<1>8. \A g \in P : g \in Frame /\ g \notin S
  BY <1>2, <1>5 DEF Pages, UPage
<1>9. fs \in SUBSET Frame /\ D \cap fs = {d} /\ D \ fs = D \ {d} /\ S \ fs = S \ {d}
  BY <1>1, <1>7, <1>8
<1>10. /\ MemTypes(c) /\ c.used = m.used /\ c.data = m.data
       /\ \A x \in Dir \ {d} : c.pde[x] = m.pde[x]
       /\ \A u \in Frame \ T : c.pte[u] = m.pte[u]
  <2> DEFINE row == [i \in Index |-> IF i = Scratch \/ m.pde[d][i] = NULL THEN m.pde[d][i]
                                     ELSE IF m.pde[d][i].user THEN NULL ELSE m.pde[d][i]]
             tabs == [t \in Frame |-> IF t \in T THEN [j \in Page |-> NULL] ELSE m.pte[t]]
  <2>1. row \in [Index -> PDE \cup {NULL}] /\ tabs \in [Frame -> [Page -> PTE \cup {NULL}]]
    BY <1>1 DEF MemTypes
  <2>2. c = [m EXCEPT !.pte = tabs, !.pde[d] = row]
    BY DEF Cleared
  <2>3. c = [used |-> m.used, pde |-> [m.pde EXCEPT ![d] = row], pte |-> tabs, data |-> m.data]
    <3> HIDE DEF row, tabs, c
    <3> QED BY <1>1, <2>2 DEF MemTypes
  <2>4. MemTypes(c) /\ \A x \in Dir \ {d} : c.pde[x] = m.pde[x]
    <3> HIDE DEF row, tabs, c
    <3> QED BY <1>1, <2>1, <2>3 DEF MemTypes
  <2>5. \A u \in Frame \ T : c.pte[u] = m.pte[u]
    <3>1. c.pte = tabs
      BY <2>3
    <3> QED BY <3>1
  <2> QED BY <2>3, <2>4, <2>5
<1>11. n = pmm_free_frame(c, fs)
  BY DEF paging_destroy_user_directory
<1> HIDE DEF T, P, fs, c
<1>12. d \in fs /\ (\A x \in T : x \in fs) /\ (\A x \in P : x \in fs)
       /\ (\A x \in fs : x = d \/ x \in T \/ x \in P)
  BY DEF fs
<1>13. /\ MemTypes(n) /\ n.used = m.used \ fs
       /\ \A x \in Dir \ fs : n.pde[x] = m.pde[x]
       /\ \A u \in Frame \ fs : n.pte[u] = m.pte[u] /\ n.data[u] = m.data[u]
  <2>1. /\ MemTypes(n) /\ n.used = c.used \ fs
        /\ \A x \in Dir \ fs : n.pde[x] = c.pde[x]
        /\ \A u \in Frame \ fs : n.pte[u] = c.pte[u] /\ n.data[u] = c.data[u]
    BY <1>9, <1>10, <1>11, FreeTypes
  <2>2. \A x \in Dir \ fs : x \in Dir \ {d}
    BY <1>12
  <2>3. \A u \in Frame \ fs : u \in Frame \ T
    BY <1>12
  <2>4. ASSUME NEW x \in Dir \ fs PROVE n.pde[x] = m.pde[x]
    <3>1. n.pde[x] = c.pde[x] /\ c.pde[x] = m.pde[x]
      BY <1>10, <2>1, <2>2, Zenon
    <3> QED BY <3>1
  <2>5. ASSUME NEW u \in Frame \ fs PROVE n.pte[u] = m.pte[u] /\ n.data[u] = m.data[u]
    <3>1. n.pte[u] = c.pte[u] /\ c.pte[u] = m.pte[u] /\ n.data[u] = c.data[u] /\ c.data = m.data
      BY <1>10, <2>1, <2>3, Zenon
    <3> QED BY <3>1
  <2> QED BY <1>10, <2>1, <2>4, <2>5
<1>14. \A k \in Index : m.pde[KDIR][k] # NULL => m.pde[KDIR][k].table \notin fs
  <2> SUFFICES ASSUME NEW k \in Index, m.pde[KDIR][k] # NULL, m.pde[KDIR][k].table \in fs PROVE FALSE
    OBVIOUS
  <2>1. m.pde[KDIR][k].table \notin S
    BY <1>2 DEF Distinct
  <2>2. m.pde[KDIR][k].table \notin T
    BY <1>2, <1>3 DEF Distinct
  <2>3. m.pde[KDIR][k].table \notin P
    BY <1>2, <1>5 DEF Pages, UPage
  <2> QED BY <1>1, <1>12, <2>1, <2>2, <2>3
<1>15. \A l \in Page : \A g \in fs : ~HPage(m, l, g)
  <2> SUFFICES ASSUME NEW l \in Page, NEW g \in fs, HPage(m, l, g) PROVE FALSE
    OBVIOUS
  <2>1. g \notin S /\ \A k \in UserIndex : m.pde[d][k] # NULL => m.pde[d][k].table # g
    BY HeapDistinct
  <2>2. g \notin T
    BY <1>3, <2>1
  <2>3. g \notin P
    BY <1>2, <1>5 DEF Pages, UPage
  <2> QED BY <1>1, <1>12, <2>1, <2>2, <2>3
<1>16. \A x \in D \ fs : \A k \in UserIndex : m.pde[x][k] # NULL => m.pde[x][k].table \notin fs
  <2> SUFFICES ASSUME NEW x \in D \ fs, NEW k \in UserIndex, m.pde[x][k] # NULL,
                      m.pde[x][k].table \in fs
               PROVE  FALSE
    OBVIOUS
  <2>1. m.pde[x][k].table \notin S /\ x # d
    BY <1>2, <1>12 DEF Distinct
  <2>2. m.pde[x][k].table \notin T
    BY <1>2, <1>3, <2>1 DEF Distinct
  <2>3. m.pde[x][k].table \notin P
    BY <1>2, <1>5 DEF Pages, UPage
  <2> QED BY <1>1, <1>12, <2>1, <2>2, <2>3
<1>17. \A x \in D \ fs : \A k \in UserIndex : \A l \in Page : \A g \in fs : ~UPage(m, x, k, l, g)
  <2> SUFFICES ASSUME NEW x \in D \ fs, NEW k \in UserIndex, NEW l \in Page, NEW g \in fs,
                      UPage(m, x, k, l, g)
               PROVE  FALSE
    OBVIOUS
  <2>1. Mapped(m, x, k, l) # NULL /\ g = Mapped(m, x, k, l).frame /\ x # d
    BY <1>12 DEF UPage
  <2>2. /\ g \notin S /\ \A q \in UserIndex : m.pde[d][q] # NULL => m.pde[d][q].table # g
        /\ \A q \in UserIndex : \A p \in Page : UPage(m, d, q, p, g) => x = d
    BY <1>2, <2>1 DEF Pages
  <2>3. g \notin T
    BY <1>3, <2>2
  <2>4. g \notin P
    BY <1>5, <2>1, <2>2
  <2> QED BY <1>1, <1>12, <2>2, <2>3, <2>4
<1>18. \A x \in D \cap fs : \A k \in UserIndex : m.pde[x][k] # NULL => m.pde[x][k].table \in fs
  BY <1>4, <1>9, <1>12
<1>19. \A x \in D \cap fs : \A k \in UserIndex : \A l \in Page : \A g \in Frame :
          UPage(m, x, k, l, g) => g \in fs
  BY <1>6, <1>9, <1>12
<1>20. World(n, D \ fs, S \ fs) /\ Quiet(m, n, S \ fs)
  BY <1>9, <1>13, <1>14, <1>15, <1>16, <1>17, <1>18, <1>19, Shrinks, ZenonT(60)
<1> QED BY <1>9, <1>20

-----------------------------------------------------------------------------
(* The operations as the actors call them.                                 *)

\* Where and how the memory n differs from m outside what an actor works on.
SameData(m, n, X) == \A g \in X : n.data[g] = m.data[g]

\* paging_map_page at one of the kernel's two scratch addresses.
KernelMapped(m, D, S, i, f, r) ==
    /\ r.ok \in BOOLEAN /\ (~r.ok => r.m = m)
    /\ r.ok => /\ World(r.m, D, S) /\ SameData(m, r.m, S) /\ Mapped(m, KDIR, i, 0) = NULL
               /\ Mapped(r.m, KDIR, i, 0) = [frame |-> f, user |-> FALSE]
               /\ i # Scratch => Quiet(m, r.m, S)
LEMMA MapKernel ==
    ASSUME NEW m, NEW D, NEW S, World(m, D, S), NEW i \in {Scratch, StackScratch}, NEW f \in Frame,
           NEW r, r = paging_map_page(m, KDIR, i, 0, f, FALSE)
    PROVE  KernelMapped(m, D, S, i, f, r)
<1>1. MemTypes(m) /\ KDIR \in Dir /\ i \in Index \ UserIndex /\ i \in Index /\ i # Heap /\ 0 \in Page
  BY Consts DEF World
<1>2. /\ r.ok \in BOOLEAN /\ (~r.ok => r.m = m)
      /\ r.ok => \E n : /\ n = m \/ \E t : NewTable(m, n, KDIR, i, t, FALSE)
                        /\ n.pde[KDIR][i] # NULL /\ Mapped(n, KDIR, i, 0) = NULL
                        /\ Entered(n, r.m, KDIR, i, 0, [frame |-> f, user |-> FALSE])
  <2>1. PICK u \in BOOLEAN : u = FALSE
    OBVIOUS
  <2>2. (m.pde[KDIR][i] # NULL /\ u => m.pde[KDIR][i].user) /\ r = paging_map_page(m, KDIR, i, 0, f, u)
    BY <2>1
  <2>3. MapResult(m, KDIR, i, 0, f, u, r)
    BY <1>1, <2>2, MapCases, Zenon
  <2> QED BY <2>1, <2>3, Zenon DEF MapResult
<1>3. ASSUME r.ok
      PROVE  /\ World(r.m, D, S) /\ SameData(m, r.m, S) /\ Mapped(m, KDIR, i, 0) = NULL
             /\ Mapped(r.m, KDIR, i, 0) = [frame |-> f, user |-> FALSE]
             /\ i # Scratch => Quiet(m, r.m, S)
  <2>1. PICK n : /\ n = m \/ \E t : NewTable(m, n, KDIR, i, t, FALSE)
                 /\ Mapped(n, KDIR, i, 0) = NULL
                 /\ Entered(n, r.m, KDIR, i, 0, [frame |-> f, user |-> FALSE])
    BY <1>2, <1>3
  <2>2. Place(D, KDIR, i, FALSE)
    BY <1>1 DEF Place
  <2>3. World(n, D, S) /\ Quiet(m, n, S) /\ Mapped(m, KDIR, i, 0) = NULL
    <3>1. CASE n = m
      BY <2>1, <3>1 DEF Quiet
    <3>2. ASSUME NEW t, NewTable(m, n, KDIR, i, t, FALSE)
          PROVE  World(n, D, S) /\ Quiet(m, n, S) /\ Mapped(m, KDIR, i, 0) = NULL
      <4>1. World(n, D, S) /\ Quiet(m, n, S)
        BY <2>2, <3>2, TableWorld
      <4>2. m.pde[KDIR][i] = NULL
        BY <3>2 DEF NewTable
      <4> QED BY <4>1, <4>2 DEF Mapped
    <3> QED BY <2>1, <3>1, <3>2
  <2>4. [frame |-> f, user |-> FALSE] \in PTE \cup {NULL}
    BY DEF PTE
  <2>5. /\ World(r.m, D, S) /\ r.m.data = n.data
        /\ Mapped(r.m, KDIR, i, 0) = [frame |-> f, user |-> FALSE]
        /\ i # Scratch => Quiet(n, r.m, S)
    <3>1. PICK e \in PTE \cup {NULL} : e = [frame |-> f, user |-> FALSE]
      BY <2>4
    <3>2. Entered(n, r.m, KDIR, i, 0, e)
      BY <2>1, <3>1
    <3>3. /\ World(r.m, D, S) /\ r.m.data = n.data /\ Mapped(r.m, KDIR, i, 0) = e
          /\ i # Scratch => Quiet(n, r.m, S)
      BY <1>1, <2>3, <3>2, KernelEnter, Zenon
    <3> QED BY <3>1, <3>3, Zenon
  <2>6. SameData(m, r.m, S)
    BY <2>3, <2>5 DEF Quiet, SameData
  <2>7. i # Scratch => Quiet(m, r.m, S)
    BY <2>3, <2>5 DEF Quiet
  <2> QED BY <2>3, <2>5, <2>6, <2>7
<1> QED BY <1>2, <1>3 DEF KernelMapped

\* paging_unmap_page there.
KernelUnmapped(m, D, S, i, r) ==
    /\ r.ok \in BOOLEAN /\ r.ok = (Mapped(m, KDIR, i, 0) # NULL)
    /\ World(r.m, D, S) /\ SameData(m, r.m, Frame) /\ Mapped(r.m, KDIR, i, 0) = NULL
    /\ i # Scratch => Quiet(m, r.m, S)
LEMMA UnmapKernel ==
    ASSUME NEW m, NEW D, NEW S, World(m, D, S), NEW i \in {Scratch, StackScratch},
           NEW r, r = paging_unmap_page(m, KDIR, i, 0)
    PROVE  KernelUnmapped(m, D, S, i, r)
<1>1. MemTypes(m) /\ KDIR \in Dir /\ i \in Index \ UserIndex /\ i \in Index /\ i # Heap /\ 0 \in Page
  BY Consts DEF World
<1>2. CASE Mapped(m, KDIR, i, 0) = NULL
  <2>1. r.ok = FALSE /\ r.m = m
    BY <1>2 DEF paging_unmap_page
  <2> QED BY <1>2, <2>1 DEF Quiet, SameData, KernelUnmapped
<1>3. CASE Mapped(m, KDIR, i, 0) # NULL
  <2>1. r.ok = TRUE /\ r.m = Enter(m, KDIR, i, 0, NULL)
    BY <1>3 DEF paging_unmap_page
  <2>2. m.pde[KDIR][i] # NULL
    BY <1>3 DEF Mapped
  <2>3. Entered(m, r.m, KDIR, i, 0, NULL)
    BY <1>1, <2>1, <2>2 DEF Entered, Enter, MemTypes
  <2>4. /\ World(r.m, D, S) /\ r.m.data = m.data /\ Mapped(r.m, KDIR, i, 0) = NULL
        /\ i # Scratch => Quiet(m, r.m, S)
    BY <1>1, <2>3, KernelEnter
  <2> QED BY <1>3, <2>1, <2>4 DEF SameData, KernelUnmapped
<1> QED BY <1>2, <1>3

\* paging_map_page of a filled page in a program's directory.
UserMapped(m, D, S, f, r) ==
    /\ r.ok \in BOOLEAN /\ (~r.ok => r.m = m)
    /\ r.ok => World(r.m, D, S \ {f}) /\ Quiet(m, r.m, S)
LEMMA MapUser ==
    ASSUME NEW m, NEW D, NEW S, World(m, D, S), NEW d \in D, NEW i \in UserIndex, NEW j \in Page,
           NEW f \in S \ D, m.data[f] = "page", NEW r, r = paging_map_page(m, d, i, j, f, TRUE)
    PROVE  UserMapped(m, D, S, f, r)
<1>1. MemTypes(m) /\ d \in Dir /\ i \in Index /\ f \in Frame /\ SharedOK(m, D)
  BY Consts DEF World
<1>2. m.pde[d][i] # NULL /\ TRUE => m.pde[d][i].user
  BY <1>1 DEF SharedOK
<1>3. /\ r.ok \in BOOLEAN /\ (~r.ok => r.m = m)
      /\ r.ok => \E n : /\ n = m \/ \E t : NewTable(m, n, d, i, t, TRUE)
                        /\ n.pde[d][i] # NULL /\ Mapped(n, d, i, j) = NULL
                        /\ Entered(n, r.m, d, i, j, [frame |-> f, user |-> TRUE])
  <2>1. PICK u \in BOOLEAN : u = TRUE
    OBVIOUS
  <2>2. (m.pde[d][i] # NULL /\ u => m.pde[d][i].user) /\ r = paging_map_page(m, d, i, j, f, u)
    BY <1>2, <2>1
  <2>3. MapResult(m, d, i, j, f, u, r)
    BY <1>1, <2>2, MapCases, Zenon
  <2> QED BY <2>1, <2>3, Zenon DEF MapResult
<1>4. ASSUME r.ok PROVE World(r.m, D, S \ {f}) /\ Quiet(m, r.m, S)
  <2>1. PICK n : /\ n = m \/ \E t : NewTable(m, n, d, i, t, TRUE)
                 /\ Mapped(n, d, i, j) = NULL
                 /\ Entered(n, r.m, d, i, j, [frame |-> f, user |-> TRUE])
    BY <1>3, <1>4
  <2>2. Place(D, d, i, TRUE)
    BY DEF Place
  <2>3. World(n, D, S) /\ Quiet(m, n, S)
    <3>1. CASE n = m
      BY <3>1 DEF Quiet
    <3>2. ASSUME NEW t, NewTable(m, n, d, i, t, TRUE) PROVE World(n, D, S) /\ Quiet(m, n, S)
      BY <2>2, <3>2, TableWorld
    <3> QED BY <2>1, <3>1, <3>2
  <2>4. [frame |-> f, user |-> TRUE] \in PTE /\ [frame |-> f, user |-> TRUE].frame = f
    BY <1>1 DEF PTE
  <2>5. n.data[f] = "page"
    BY <2>3 DEF Quiet
  <2>6. World(r.m, D, S \ {f}) /\ Quiet(n, r.m, S)
    BY <2>1, <2>3, <2>4, <2>5, UserEnter
  <2>7. Quiet(m, r.m, S)
    BY <2>3, <2>6 DEF Quiet
  <2> QED BY <2>6, <2>7
<1> QED BY <1>3, <1>4 DEF UserMapped

\* paging_map_page of a page of the heap, whichever directory is loaded.
HeapMapped(m, D, S, j, f, r) ==
    /\ r.ok \in BOOLEAN /\ (~r.ok => r.m = m)
    /\ r.ok => /\ World(r.m, D, S \ {f}) /\ Quiet(m, r.m, S)
               /\ LedByHeap(r.m, D, f, j)
LEMMA MapHeap ==
    ASSUME NEW m, NEW D, NEW S, World(m, D, S), NEW d \in D \cup {KDIR}, NEW j \in Page,
           NEW f \in S \ D, NEW r, r = paging_map_page(m, d, Heap, j, f, FALSE)
    PROVE  HeapMapped(m, D, S, j, f, r)
<1>1. MemTypes(m) /\ d \in Dir /\ Heap \in Index /\ f \in Frame /\ SharedOK(m, D) /\ KernelOK(m)
  BY Consts DEF World
<1>2. m.pde[d][Heap] # NULL
  BY <1>1 DEF SharedOK, KernelOK
<1>3. /\ r.ok \in BOOLEAN /\ (~r.ok => r.m = m)
      /\ r.ok => \E n : /\ n = m \/ \E t : NewTable(m, n, d, Heap, t, FALSE)
                        /\ n.pde[d][Heap] # NULL /\ Mapped(n, d, Heap, j) = NULL
                        /\ Entered(n, r.m, d, Heap, j, [frame |-> f, user |-> FALSE])
  <2>1. PICK u \in BOOLEAN : u = FALSE
    OBVIOUS
  <2>2. (m.pde[d][Heap] # NULL /\ u => m.pde[d][Heap].user) /\ r = paging_map_page(m, d, Heap, j, f, u)
    BY <2>1
  <2>3. MapResult(m, d, Heap, j, f, u, r)
    BY <1>1, <2>2, MapCases, Zenon
  <2> QED BY <2>1, <2>3, Zenon DEF MapResult
<1>4. ASSUME r.ok
      PROVE  /\ World(r.m, D, S \ {f}) /\ Quiet(m, r.m, S)
             /\ LedByHeap(r.m, D, f, j)
  <2>1. PICK n : /\ n = m \/ \E t : NewTable(m, n, d, Heap, t, FALSE)
                 /\ Mapped(n, d, Heap, j) = NULL
                 /\ Entered(n, r.m, d, Heap, j, [frame |-> f, user |-> FALSE])
    BY <1>3, <1>4
  <2>2. \A t : ~NewTable(m, n, d, Heap, t, FALSE)
    BY <1>2 DEF NewTable
  <2>3. n = m
    BY <2>1, <2>2
  <2>4. [frame |-> f, user |-> FALSE] \in PTE /\ [frame |-> f, user |-> FALSE].frame = f
    BY <1>1 DEF PTE
  <2>5. PICK e \in PTE : e = [frame |-> f, user |-> FALSE]
    BY <2>4
  <2>6. Entered(m, r.m, d, Heap, j, e) /\ Mapped(m, d, Heap, j) = NULL /\ e.frame = f
    BY <2>1, <2>3, <2>5
  <2> QED BY <2>6, HeapEnter, Zenon
<1> QED BY <1>3, <1>4 DEF HeapMapped

-----------------------------------------------------------------------------
(* The invariant of the specification.                                     *)

Using == {"write", "unmap"}
StateTypes ==
    /\ live \subseteq Frame /\ stuck \subseteq live /\ slots \in [Frame -> 0..Slots]
    /\ pc \in [Actor -> {"idle", "map", "write", "unmap", "alloc", "install"}]
    /\ what \in [Actor -> {"dir", "page", "argv", "share", "thread"}]
    /\ dir \in [Actor -> Frame \cup {0}] /\ fr \in [Actor -> Frame \cup {0}]
    /\ todo \in [Actor -> Seq(UserIndex \X Page)] /\ halted \in {"no", "thread", "unmap"}

\* The directory actor a has written, and the frames it has in its hand.
FormedBy(a) == IF pc[a] = "idle" \/ what[a] = "thread" \/ (what[a] = "dir" /\ pc[a] # "unmap")
               THEN {} ELSE {dir[a]}
HeldBy(a) == IF pc[a] = "idle" \/ what[a] = "thread" THEN {}
             ELSE IF what[a] = "page" /\ pc[a] # "alloc" THEN {dir[a], fr[a]} ELSE {dir[a]}
Forms(A) == {f \in Frame : \E b \in A : f \in FormedBy(b)}
Holds(A) == {f \in Frame : \E b \in A : f \in HeldBy(b)}

\* What an actor has in its hand nobody else has, and no process.
Apart ==
    /\ \A a \in Actor : \A f \in HeldBy(a) : f \notin live
    /\ \A a, b \in Actor : a # b => \A f \in HeldBy(a) : f \notin HeldBy(b)

\* Where an actor can be and what it has there.
ActorOK(a) ==
    pc[a] # "idle" =>
        /\ dir[a] \in Frame
        /\ what[a] # "page" => pc[a] \in {"map", "write", "unmap"}
        /\ what[a] = "thread" => a \in Caller /\ dir[a] \in live
        /\ what[a] \in {"dir", "share", "thread"} => fr[a] = dir[a]
        /\ what[a] # "page" \/ pc[a] # "alloc" => fr[a] \in Frame
        /\ what[a] = "page" /\ pc[a] # "alloc" => fr[a] # dir[a]
        /\ what[a] \in {"dir", "page"} => todo[a] # <<>>
        /\ what[a] = "page" /\ pc[a] \in {"unmap", "install"} => data[fr[a]] = "page"

\* One actor uses the scratch page, and it is its frame that is mapped there.
ScratchOK ==
    \A a \in Actor : pc[a] \in Using =>
        /\ Mapped(mem, KDIR, Scratch, 0) # NULL /\ Mapped(mem, KDIR, Scratch, 0).frame = fr[a]
        /\ \A b \in Actor : pc[b] \in Using => b = a

Inv ==
    /\ StateTypes /\ Apart /\ ScratchOK /\ (\A a \in Actor : ActorOK(a))
    /\ World(mem, live \cup Forms(Actor), live \cup Holds(Actor))

\* The same without what actor a has.
Ds(a) == live \cup Forms(Actor \ {a})
Ss(a) == live \cup Holds(Actor \ {a})

LEMMA BecomeMem ==
    ASSUME NEW n, MemTypes(n), Become(n)
    PROVE  mem' = n
BY DEF MemTypes, Become, mem

\* What an actor has, taken apart from what the others have.
LEMMA Split ==
    ASSUME Inv, NEW a \in Actor
    PROVE  /\ World(mem, Ds(a) \cup FormedBy(a), Ss(a) \cup HeldBy(a))
           /\ Ds(a) \subseteq Ss(a) /\ Ss(a) \subseteq Frame /\ FormedBy(a) \subseteq HeldBy(a)
           /\ HeldBy(a) \subseteq Frame /\ (\A f \in HeldBy(a) : f \notin Ss(a))
<1>1. \A b \in Actor : FormedBy(b) \subseteq HeldBy(b) /\ HeldBy(b) \subseteq Frame
  <2> SUFFICES ASSUME NEW b \in Actor PROVE FormedBy(b) \subseteq HeldBy(b) /\ HeldBy(b) \subseteq Frame
    OBVIOUS
  <2>1. ActorOK(b)
    BY DEF Inv
  <2> QED BY <2>1 DEF FormedBy, HeldBy, ActorOK
<1>2. /\ \A f : f \in Forms(Actor) <=> f \in Forms(Actor \ {a}) \/ f \in FormedBy(a)
      /\ \A f : f \in Holds(Actor) <=> f \in Holds(Actor \ {a}) \/ f \in HeldBy(a)
  BY <1>1 DEF Forms, Holds
<1>3. live \cup Forms(Actor) = Ds(a) \cup FormedBy(a) /\ live \cup Holds(Actor) = Ss(a) \cup HeldBy(a)
  BY <1>2 DEF Ds, Ss
<1>4. World(mem, Ds(a) \cup FormedBy(a), Ss(a) \cup HeldBy(a))
  BY <1>3 DEF Inv
<1>5. Ds(a) \subseteq Ss(a) /\ Ss(a) \subseteq Frame
  BY <1>1 DEF Ds, Ss, Forms, Holds, Inv, StateTypes
<1>6. \A f \in HeldBy(a) : f \notin Ss(a)
  BY DEF Inv, Apart, Ss, Holds
<1> QED BY <1>1, <1>4, <1>5, <1>6

\* A step of actor a that gives the directories L to processes and leaves a with the
\* written directories F and the frames H.
OnlyMoves(a) ==
    \A b \in Actor \ {a} : /\ pc'[b] = pc[b] /\ what'[b] = what[b] /\ dir'[b] = dir[b]
                           /\ fr'[b] = fr[b] /\ todo'[b] = todo[b]
ScratchStep(a, n) ==
    \/ Mapped(n, KDIR, Scratch, 0) = Mapped(mem, KDIR, Scratch, 0)
       /\ (pc'[a] \in Using => pc[a] \in Using /\ fr'[a] = fr[a])
    \/ Mapped(mem, KDIR, Scratch, 0) = NULL /\ Mapped(n, KDIR, Scratch, 0) # NULL
       /\ Mapped(n, KDIR, Scratch, 0).frame = fr'[a]
    \/ pc[a] \in Using /\ pc'[a] \notin Using
LEMMA ActorStep ==
    ASSUME Inv, NEW a \in Actor, StateTypes', OnlyMoves(a), NEW L, live' = live \cup L,
           NEW n, mem' = n, NEW F, FormedBy(a)' = F, NEW H, HeldBy(a)' = H,
           World(n, Ds(a) \cup L \cup F, Ss(a) \cup L \cup H),
           \A f \in L : f \notin Ss(a) /\ f \notin H, \A f \in H : f \notin Ss(a),
           SameData(mem, n, Ss(a)), ActorOK(a)', ScratchStep(a, n)
    PROVE  Inv'
<1>1. \A b \in Actor \ {a} : FormedBy(b)' = FormedBy(b) /\ HeldBy(b)' = HeldBy(b)
  BY DEF OnlyMoves, FormedBy, HeldBy
<1>2. Forms(Actor)' = Forms(Actor \ {a}) \cup (F \cap Frame)
  BY <1>1 DEF Forms
<1>3. Holds(Actor)' = Holds(Actor \ {a}) \cup (H \cap Frame)
  BY <1>1 DEF Holds
<1>4. F \subseteq Frame /\ H \subseteq Frame
  BY DEF World
<1>5. (live \cup Forms(Actor))' = Ds(a) \cup L \cup F /\ (live \cup Holds(Actor))' = Ss(a) \cup L \cup H
  BY <1>2, <1>3, <1>4 DEF Ds, Ss
<1>6. World(mem, live \cup Forms(Actor), live \cup Holds(Actor))'
  BY <1>5
<1>7. Apart'
  <2>1. \A b \in Actor \ {a} : \A f \in HeldBy(b) : f \in Frame
    BY Split DEF Inv
  <2>2. \A b \in Actor \ {a} : \A f \in HeldBy(b) : f \in Holds(Actor \ {a}) /\ f \in Ss(a)
    BY <2>1 DEF Holds, Ss
  <2>3. \A f \in H : f \notin live' /\ \A b \in Actor \ {a} : f \notin HeldBy(b)
    BY <2>2 DEF Ss
  <2>4. \A b \in Actor \ {a} : \A f \in HeldBy(b) : f \notin live'
    BY <2>2 DEF Inv, Apart
  <2>5. ASSUME NEW b \in Actor, NEW f \in HeldBy(b)' PROVE f \notin live'
    <3>1. CASE b = a
      BY <2>3, <2>5, <3>1
    <3>2. CASE b # a
      BY <1>1, <2>4, <2>5, <3>2
    <3> QED BY <3>1, <3>2
  <2>6. ASSUME NEW b \in Actor, NEW c \in Actor, b # c, NEW f \in HeldBy(b)' PROVE f \notin HeldBy(c)'
    <3>1. CASE b = a
      BY <1>1, <2>3, <2>6, <3>1
    <3>2. CASE c = a
      BY <1>1, <2>3, <2>6, <3>2
    <3>3. CASE b # a /\ c # a
      BY <1>1, <2>6, <3>3 DEF Inv, Apart
    <3> QED BY <3>1, <3>2, <3>3
  <2> QED BY <2>5, <2>6 DEF Apart
<1>8. ASSUME NEW b \in Actor PROVE ActorOK(b)'
  <2>1. CASE b = a
    BY <2>1
  <2>2. CASE b # a
    <3>1. b \in Actor \ {a} /\ ActorOK(b)
      BY <2>2 DEF Inv
    <3>2. /\ pc'[b] = pc[b] /\ what'[b] = what[b] /\ dir'[b] = dir[b]
          /\ fr'[b] = fr[b] /\ todo'[b] = todo[b]
      BY <3>1 DEF OnlyMoves
    <3>3. ASSUME pc[b] # "idle", what[b] = "page", pc[b] \in {"unmap", "install"}
          PROVE  data'[fr[b]] = data[fr[b]]
      <4>1. fr[b] \in HeldBy(b) /\ fr[b] \in Frame
        BY <3>1, <3>3 DEF HeldBy, ActorOK
      <4>2. fr[b] \in Ss(a)
        BY <3>1, <4>1 DEF Holds, Ss
      <4>3. data' = n.data /\ mem.data = data
        BY DEF mem
      <4> QED BY <4>2, <4>3 DEF SameData
    <3> QED BY <3>1, <3>2, <3>3 DEF ActorOK
  <2> QED BY <2>1, <2>2
<1>9. ScratchOK'
  <2> SUFFICES ASSUME NEW b \in Actor, pc'[b] \in Using
               PROVE  /\ Mapped(n, KDIR, Scratch, 0) # NULL /\ Mapped(n, KDIR, Scratch, 0).frame = fr'[b]
                      /\ \A c \in Actor : pc'[c] \in Using => c = b
    BY DEF ScratchOK
  <2>0. ScratchOK
    BY DEF Inv
  <2>1. CASE Mapped(n, KDIR, Scratch, 0) = Mapped(mem, KDIR, Scratch, 0)
             /\ (pc'[a] \in Using => pc[a] \in Using /\ fr'[a] = fr[a])
    <3>1. \A c \in Actor : pc'[c] \in Using => pc[c] \in Using /\ fr'[c] = fr[c]
      BY <2>1 DEF OnlyMoves
    <3> QED BY <2>0, <2>1, <3>1 DEF ScratchOK
  <2>2. CASE Mapped(mem, KDIR, Scratch, 0) = NULL /\ Mapped(n, KDIR, Scratch, 0) # NULL
             /\ Mapped(n, KDIR, Scratch, 0).frame = fr'[a]
    <3>1. \A c \in Actor \ {a} : pc'[c] \notin Using
      BY <2>0, <2>2 DEF ScratchOK, OnlyMoves
    <3> QED BY <2>2, <3>1
  <2>3. CASE pc[a] \in Using /\ pc'[a] \notin Using
    <3>1. \A c \in Actor \ {a} : pc'[c] \notin Using
      BY <2>0, <2>3 DEF ScratchOK, OnlyMoves
    <3> QED BY <2>3, <3>1
  <2> QED BY <2>1, <2>2, <2>3 DEF ScratchStep
<1> QED BY <1>6, <1>7, <1>8, <1>9 DEF Inv

\* Actor a ends.
LEMMA Rested ==
    ASSUME Inv, NEW a \in Actor, Rest(a), NEW L, live' = live \cup L, live' \subseteq Frame,
           stuck' \subseteq live', slots' \in [Frame -> 0..Slots], halted' = halted,
           NEW n, Become(n), World(n, Ds(a) \cup L, Ss(a) \cup L), \A f \in L : f \notin Ss(a),
           SameData(mem, n, Ss(a)),
           \/ Mapped(n, KDIR, Scratch, 0) = Mapped(mem, KDIR, Scratch, 0)
           \/ pc[a] \in Using
    PROVE  Inv'
<1>1. StateTypes
  BY DEF Inv
<1>2. /\ pc'[a] = "idle" /\ OnlyMoves(a)
      /\ pc' \in [Actor -> {"idle", "map", "write", "unmap", "alloc", "install"}]
      /\ what' \in [Actor -> {"dir", "page", "argv", "share", "thread"}]
      /\ dir' \in [Actor -> Frame \cup {0}] /\ fr' \in [Actor -> Frame \cup {0}]
  BY <1>1 DEF Rest, StateTypes, OnlyMoves
<1>3. todo' \in [Actor -> Seq(UserIndex \X Page)]
  <2>1. <<>> \in Seq(UserIndex \X Page)
    OBVIOUS
  <2> QED BY <1>1, <2>1 DEF Rest, StateTypes
<1>4. StateTypes'
  BY <1>1, <1>2, <1>3 DEF StateTypes
<1>5. FormedBy(a)' = {} /\ HeldBy(a)' = {} /\ ActorOK(a)'
  BY <1>2 DEF FormedBy, HeldBy, ActorOK
<1>6. ScratchStep(a, n)
  BY <1>2 DEF ScratchStep, Using
<1>7. mem' = n
  BY BecomeMem DEF World
<1>8. Ds(a) \cup L \cup {} = Ds(a) \cup L /\ Ss(a) \cup L \cup {} = Ss(a) \cup L
  OBVIOUS
<1>9. World(n, Ds(a) \cup L \cup {}, Ss(a) \cup L \cup {})
  BY <1>8
<1> QED BY <1>2, <1>4, <1>5, <1>6, <1>7, <1>9, ActorStep

LEMMA RestedAlone ==
    ASSUME Inv, NEW a \in Actor, Rest(a), live' = live, live' \subseteq Frame,
           stuck' \subseteq live', slots' \in [Frame -> 0..Slots], halted' = halted,
           NEW n, Become(n), World(n, Ds(a), Ss(a)), SameData(mem, n, Ss(a)),
           \/ Mapped(n, KDIR, Scratch, 0) = Mapped(mem, KDIR, Scratch, 0)
           \/ pc[a] \in Using
    PROVE  Inv'
<1>1. PICK L : L = {}
  OBVIOUS
<1>2. Ds(a) \cup L = Ds(a) /\ Ss(a) \cup L = Ss(a) /\ live' = live \cup L
  BY <1>1
<1>3. World(n, Ds(a) \cup L, Ss(a) \cup L) /\ (\A f \in L : f \notin Ss(a))
  BY <1>1, <1>2
<1> QED BY <1>2, <1>3, Rested

\* Actor a gives up, with memory m.
LEMMA FailsInv ==
    ASSUME Inv, NEW a \in Actor, NEW m, Fails(a, m), pc[a] \notin {"idle", "unmap", "alloc"},
           what[a] # "thread", World(m, Ds(a) \cup FormedBy(a), Ss(a) \cup HeldBy(a)),
           SameData(mem, m, Ss(a)),
           \/ Mapped(m, KDIR, Scratch, 0) = Mapped(mem, KDIR, Scratch, 0)
           \/ pc[a] \in Using
    PROVE  Inv'
<1>1. /\ StateTypes /\ ActorOK(a) /\ dir[a] \in Frame
      /\ what[a] \in {"dir", "page", "argv", "share", "thread"}
  BY DEF Inv, StateTypes, ActorOK
<1>2. /\ Ds(a) \subseteq Ss(a) /\ Ss(a) \subseteq Frame /\ FormedBy(a) \subseteq HeldBy(a)
      /\ HeldBy(a) \subseteq Frame /\ (\A f \in HeldBy(a) : f \notin Ss(a))
  BY Split
<1>3. PICK n : n = Returned(a, m)
  OBVIOUS
<1>4. Become(n) /\ Rest(a) /\ slots' = slots /\ halted' = halted
  BY <1>3 DEF Fails
<1>5. live' \subseteq Frame /\ stuck' \subseteq live' /\ slots' \in [Frame -> 0..Slots]
  BY <1>1, <1>4 DEF Fails, StateTypes
<1>6. CASE what[a] = "dir"
  <2>1. FormedBy(a) = {} /\ HeldBy(a) = {dir[a]} /\ fr[a] = dir[a]
    BY <1>1, <1>6 DEF FormedBy, HeldBy, ActorOK
  <2>2. n = pmm_free_frame(m, {dir[a]})
    BY <1>3, <1>6, <2>1 DEF Returned, GiveBack
  <2>3. World(m, Ds(a), Ss(a) \cup {dir[a]}) /\ dir[a] \in (Ss(a) \cup {dir[a]}) \ Ds(a)
        /\ (Ss(a) \cup {dir[a]}) \ {dir[a]} = Ss(a)
    <3>1. Ds(a) \cup {} = Ds(a) /\ dir[a] \notin Ss(a)
      BY <1>2, <2>1
    <3> QED BY <1>2, <2>1, <3>1
  <2>4. World(n, Ds(a), Ss(a)) /\ Quiet(m, n, Ss(a))
    BY <2>2, <2>3, FreeWorld
  <2>5. SameData(mem, n, Ss(a)) /\ Mapped(n, KDIR, Scratch, 0) = Mapped(m, KDIR, Scratch, 0)
    BY <2>4 DEF Quiet, SameData
  <2>6. live' = live /\ (\/ Mapped(n, KDIR, Scratch, 0) = Mapped(mem, KDIR, Scratch, 0)
                        \/ pc[a] \in Using)
    BY <1>6, <2>5 DEF Fails
  <2> QED BY <1>4, <1>5, <2>4, <2>5, <2>6, RestedAlone
<1>7. CASE what[a] = "page"
  <2>1. FormedBy(a) = {dir[a]} /\ HeldBy(a) = {dir[a], fr[a]} /\ fr[a] # dir[a] /\ fr[a] \in Frame
    BY <1>1, <1>7 DEF FormedBy, HeldBy, ActorOK
  <2>2. n = paging_destroy_user_directory(pmm_free_frame(m, {fr[a]}), dir[a])
    BY <1>3, <1>7 DEF Returned, GiveBack
  <2>3. /\ fr[a] \in (Ss(a) \cup {dir[a], fr[a]}) \ (Ds(a) \cup {dir[a]})
        /\ (Ss(a) \cup {dir[a], fr[a]}) \ {fr[a]} = Ss(a) \cup {dir[a]}
        /\ (Ds(a) \cup {dir[a]}) \ {dir[a]} = Ds(a) /\ (Ss(a) \cup {dir[a]}) \ {dir[a]} = Ss(a)
    BY <1>2, <2>1
  <2>4. PICK p : p = pmm_free_frame(m, {fr[a]})
    OBVIOUS
  <2>5. World(m, Ds(a) \cup {dir[a]}, Ss(a) \cup {dir[a], fr[a]})
    BY <2>1
  <2>6. World(p, Ds(a) \cup {dir[a]}, Ss(a) \cup {dir[a]}) /\ Quiet(m, p, Ss(a) \cup {dir[a]})
    <3>1. PICK S : S = Ss(a) \cup {dir[a], fr[a]}
      OBVIOUS
    <3>2. PICK D : D = Ds(a) \cup {dir[a]}
      OBVIOUS
    <3>3. World(m, D, S) /\ fr[a] \in S \ D
      BY <2>3, <2>5, <3>1, <3>2
    <3>4. World(p, D, S \ {fr[a]}) /\ Quiet(m, p, S \ {fr[a]})
      BY <2>4, <3>3, FreeWorld
    <3> QED BY <2>3, <3>1, <3>2, <3>4
  <2>7. World(n, Ds(a), Ss(a)) /\ Quiet(p, n, Ss(a))
    <3>1. dir[a] \in Ds(a) \cup {dir[a]} /\ n = paging_destroy_user_directory(p, dir[a])
      BY <2>2, <2>4
    <3> QED BY <2>3, <2>6, <3>1, DestroyWorld
  <2>8. SameData(mem, n, Ss(a)) /\ Mapped(n, KDIR, Scratch, 0) = Mapped(m, KDIR, Scratch, 0)
    BY <2>6, <2>7 DEF Quiet, SameData
  <2>9. live' = live /\ (\/ Mapped(n, KDIR, Scratch, 0) = Mapped(mem, KDIR, Scratch, 0)
                        \/ pc[a] \in Using)
    BY <1>7, <2>8 DEF Fails
  <2> QED BY <1>4, <1>5, <2>7, <2>8, <2>9, RestedAlone
<1>8. CASE what[a] = "share"
  <2>1. FormedBy(a) = {dir[a]} /\ HeldBy(a) = {dir[a]} /\ n = m /\ live' = live \cup {dir[a]}
    BY <1>1, <1>3, <1>8 DEF FormedBy, HeldBy, ActorOK, Returned, GiveBack, Fails
  <2>2. World(n, Ds(a) \cup {dir[a]}, Ss(a) \cup {dir[a]}) /\ (\A f \in {dir[a]} : f \notin Ss(a))
    BY <1>2, <2>1
  <2>3. SameData(mem, n, Ss(a)) /\ (\/ Mapped(n, KDIR, Scratch, 0) = Mapped(mem, KDIR, Scratch, 0)
                                    \/ pc[a] \in Using)
    BY <2>1
  <2> QED BY <1>4, <1>5, <2>1, <2>2, <2>3, Rested
<1>9. CASE what[a] = "argv"
  <2>1. FormedBy(a) = {dir[a]} /\ HeldBy(a) = {dir[a]}
    BY <1>1, <1>9 DEF FormedBy, HeldBy, ActorOK
  <2>2. n = paging_destroy_user_directory(m, dir[a])
    BY <1>3, <1>9 DEF Returned, GiveBack
  <2>3. /\ World(m, Ds(a) \cup {dir[a]}, Ss(a) \cup {dir[a]}) /\ dir[a] \in Ds(a) \cup {dir[a]}
        /\ (Ds(a) \cup {dir[a]}) \ {dir[a]} = Ds(a) /\ (Ss(a) \cup {dir[a]}) \ {dir[a]} = Ss(a)
    BY <1>2, <2>1
  <2>4. World(n, Ds(a), Ss(a)) /\ Quiet(m, n, Ss(a))
    BY <2>2, <2>3, DestroyWorld
  <2>5. SameData(mem, n, Ss(a)) /\ Mapped(n, KDIR, Scratch, 0) = Mapped(m, KDIR, Scratch, 0)
    BY <2>4 DEF Quiet, SameData
  <2>6. live' = live /\ (\/ Mapped(n, KDIR, Scratch, 0) = Mapped(mem, KDIR, Scratch, 0)
                        \/ pc[a] \in Using)
    BY <1>9, <2>5 DEF Fails
  <2> QED BY <1>4, <1>5, <2>4, <2>5, <2>6, RestedAlone
<1> QED BY <1>1, <1>6, <1>7, <1>8, <1>9

-----------------------------------------------------------------------------
(* The actions.                                                            *)

PcSet == {"idle", "map", "write", "unmap", "alloc", "install"}
WhatSet == {"dir", "page", "argv", "share", "thread"}

\* Actor a goes to p with purpose w, directory d, frame f and pages t.
Goes(a, p, w, d, f, t) ==
    /\ pc' = [pc EXCEPT ![a] = p] /\ what' = [what EXCEPT ![a] = w] /\ dir' = [dir EXCEPT ![a] = d]
    /\ fr' = [fr EXCEPT ![a] = f] /\ todo' = [todo EXCEPT ![a] = t]
LEMMA GoesTypes ==
    ASSUME Inv, NEW a \in Actor, NEW p \in PcSet, NEW w \in WhatSet, NEW d \in Frame \cup {0},
           NEW f \in Frame \cup {0}, NEW t \in Seq(UserIndex \X Page), Goes(a, p, w, d, f, t),
           live' \subseteq Frame, stuck' \subseteq live', slots' \in [Frame -> 0..Slots],
           halted' = halted
    PROVE  /\ StateTypes' /\ OnlyMoves(a) /\ pc'[a] = p /\ what'[a] = w /\ dir'[a] = d
           /\ fr'[a] = f /\ todo'[a] = t
<1>1. StateTypes
  BY DEF Inv
<1>2. /\ pc' \in [Actor -> PcSet] /\ what' \in [Actor -> WhatSet] /\ dir' \in [Actor -> Frame \cup {0}]
      /\ fr' \in [Actor -> Frame \cup {0}]
  BY <1>1 DEF StateTypes, Goes, PcSet, WhatSet
<1>3. todo' \in [Actor -> Seq(UserIndex \X Page)]
  BY <1>1 DEF StateTypes, Goes
<1>4. halted' \in {"no", "thread", "unmap"}
  BY <1>1 DEF StateTypes
<1>5. StateTypes'
  BY <1>2, <1>3, <1>4 DEF StateTypes, PcSet, WhatSet
<1>6. OnlyMoves(a) /\ pc'[a] = p /\ what'[a] = w /\ dir'[a] = d /\ fr'[a] = f /\ todo'[a] = t
  BY <1>1 DEF OnlyMoves, Goes, StateTypes
<1> QED BY <1>5, <1>6

\* What is unchanged is an update with the old value.
LEMMA Stays ==
    ASSUME Inv, NEW a \in Actor
    PROVE  /\ what = [what EXCEPT ![a] = what[a]] /\ dir = [dir EXCEPT ![a] = dir[a]]
           /\ fr = [fr EXCEPT ![a] = fr[a]] /\ todo = [todo EXCEPT ![a] = todo[a]]
           /\ pc[a] \in PcSet /\ what[a] \in WhatSet /\ dir[a] \in Frame \cup {0}
           /\ fr[a] \in Frame \cup {0} /\ todo[a] \in Seq(UserIndex \X Page)
BY DEF Inv, StateTypes, PcSet, WhatSet

\* A step of actor a that gives nothing to a process.
LEMMA ActorMoves ==
    ASSUME Inv, NEW a \in Actor, NEW p \in PcSet, NEW w \in WhatSet, NEW d \in Frame \cup {0},
           NEW f \in Frame \cup {0}, NEW t \in Seq(UserIndex \X Page), Goes(a, p, w, d, f, t),
           live' = live, stuck' = stuck, slots' = slots \/ slots' \in [Frame -> 0..Slots],
           halted' = halted, NEW n, Become(n), NEW F, FormedBy(a)' = F, NEW H, HeldBy(a)' = H,
           World(n, Ds(a) \cup F, Ss(a) \cup H), \A g \in H : g \notin Ss(a),
           SameData(mem, n, Ss(a)), ActorOK(a)', ScratchStep(a, n)
    PROVE  Inv'
<1>1. live' \subseteq Frame /\ stuck' \subseteq live' /\ slots' \in [Frame -> 0..Slots]
  BY DEF Inv, StateTypes
<1>2. StateTypes' /\ OnlyMoves(a)
  BY <1>1, GoesTypes
<1>3. PICK L : L = {}
  OBVIOUS
<1>4. Ds(a) \cup L \cup F = Ds(a) \cup F /\ Ss(a) \cup L \cup H = Ss(a) \cup H /\ live' = live \cup L
  BY <1>3
<1>5. World(n, Ds(a) \cup L \cup F, Ss(a) \cup L \cup H) /\ (\A g \in L : g \notin Ss(a) /\ g \notin H)
  BY <1>3, <1>4
<1>6. mem' = n
  BY BecomeMem DEF World
<1> QED BY <1>2, <1>4, <1>5, <1>6, ActorStep

LEMMA ElfInv ==
    ASSUME Inv, NEW a \in Actor, NEW image \in Images, elf_load_user_image(a, image)
    PROVE  Inv'
<1>1. PICK f : f = pmm_allocate_frame(mem)
  OBVIOUS
<1>2. /\ pc[a] = "idle" /\ f # 0 /\ Become(Take(mem, f)) /\ Goes(a, "map", "dir", f, f, image)
      /\ live' = live /\ stuck' = stuck /\ slots' = slots /\ halted' = halted
  BY <1>1 DEF elf_load_user_image, At, Goes
<1>3. f \in Frame \ mem.used /\ f \in Frame \cup {0}
  BY <1>1, <1>2, Allocates
<1>4. image \in Seq(UserIndex \X Page) /\ image # <<>> /\ "map" \in PcSet /\ "dir" \in WhatSet
  BY PagingAssumption DEF PcSet, WhatSet
<1>5. StateTypes' /\ pc'[a] = "map" /\ what'[a] = "dir" /\ dir'[a] = f /\ fr'[a] = f /\ todo'[a] = image
  <2>1. live' \subseteq Frame /\ stuck' \subseteq live' /\ slots' \in [Frame -> 0..Slots]
    BY <1>2 DEF Inv, StateTypes
  <2> QED BY <1>2, <1>3, <1>4, <2>1, GoesTypes
<1>6. FormedBy(a)' = {} /\ HeldBy(a)' = {f} /\ ActorOK(a)'
  BY <1>3, <1>4, <1>5 DEF FormedBy, HeldBy, ActorOK
<1>7. PICK n : n = Take(mem, f)
  OBVIOUS
<1>8. World(mem, Ds(a), Ss(a))
  <2>1. FormedBy(a) = {} /\ HeldBy(a) = {}
    BY <1>2 DEF FormedBy, HeldBy
  <2>2. Ds(a) \cup {} = Ds(a) /\ Ss(a) \cup {} = Ss(a)
    OBVIOUS
  <2> QED BY <2>1, <2>2, Split
<1>9. World(n, Ds(a), Ss(a) \cup {f}) /\ Quiet(mem, n, Frame) /\ f \notin Ss(a)
  BY <1>3, <1>7, <1>8, TakeWorld
<1>10. SameData(mem, n, Ss(a)) /\ ScratchStep(a, n) /\ (\A g \in {f} : g \notin Ss(a))
  BY <1>5, <1>9, Split DEF Quiet, SameData, ScratchStep, Using
<1>11. PICK F, H : F = {} /\ H = {f}
  OBVIOUS
<1>12. World(n, Ds(a) \cup F, Ss(a) \cup H) /\ FormedBy(a)' = F /\ HeldBy(a)' = H
       /\ (\A g \in H : g \notin Ss(a))
  BY <1>6, <1>9, <1>11
<1>13. Become(n)
  BY <1>2, <1>7
<1> QED BY <1>2, <1>3, <1>4, <1>6, <1>10, <1>12, <1>13, ActorMoves

\* A step that moves no actor.
LEMMA StillStep ==
    ASSUME Inv, pc' = pc, what' = what, dir' = dir, fr' = fr, todo' = todo, live' \subseteq live,
           stuck' \subseteq live', slots' \in [Frame -> 0..Slots], halted' \in {"no", "thread", "unmap"},
           NEW n, Become(n), World(n, live' \cup Forms(Actor), live' \cup Holds(Actor)),
           Quiet(mem, n, Holds(Actor)),
           \A b \in Actor : pc[b] # "idle" /\ what[b] = "thread" => dir[b] \in live'
    PROVE  Inv'
<1>1. mem' = n
  BY BecomeMem DEF World
<1>2. StateTypes'
  BY DEF Inv, StateTypes
<1>3. \A b \in Actor : FormedBy(b)' = FormedBy(b) /\ HeldBy(b)' = HeldBy(b)
  BY DEF FormedBy, HeldBy
<1>4. Forms(Actor)' = Forms(Actor) /\ Holds(Actor)' = Holds(Actor)
  BY <1>3 DEF Forms, Holds
<1>5. World(mem, live \cup Forms(Actor), live \cup Holds(Actor))'
  BY <1>1, <1>4
<1>6. Apart'
  BY <1>3 DEF Inv, Apart
<1>7. ScratchOK'
  BY <1>1 DEF Inv, ScratchOK, Quiet
<1>8. ASSUME NEW b \in Actor PROVE ActorOK(b)'
  <2>1. ActorOK(b) /\ HeldBy(b) \subseteq Frame
    BY Split DEF Inv
  <2>2. ASSUME pc[b] # "idle", what[b] = "page", pc[b] \in {"unmap", "install"}
        PROVE  data'[fr[b]] = data[fr[b]]
    <3>1. fr[b] \in HeldBy(b)
      BY <2>1, <2>2 DEF HeldBy, ActorOK
    <3>2. fr[b] \in Holds(Actor)
      BY <2>1, <3>1 DEF Holds
    <3>3. data' = n.data /\ mem.data = data
      BY <1>1 DEF mem
    <3> QED BY <3>2, <3>3 DEF Quiet
  <2> QED BY <2>1, <2>2 DEF ActorOK
<1> QED BY <1>2, <1>5, <1>6, <1>7, <1>8 DEF Inv

\* The machine stops with memory m.
LEMMA HaltInv ==
    ASSUME Inv, NEW a, NEW m, NEW why \in {"thread", "unmap"}, Halt(a, m, why),
           World(m, live \cup Forms(Actor), live \cup Holds(Actor)),
           Quiet(mem, m, live \cup Holds(Actor))
    PROVE  Inv'
<1>1. /\ pc' = pc /\ what' = what /\ dir' = dir /\ fr' = fr /\ todo' = todo /\ live' = live
      /\ stuck' = stuck /\ slots' = slots /\ halted' = why /\ Become(m)
  BY DEF Halt
<1>2. live' \subseteq live /\ stuck' \subseteq live' /\ slots' \in [Frame -> 0..Slots]
  BY <1>1 DEF Inv, StateTypes
<1>3. Quiet(mem, m, Holds(Actor))
  BY DEF Quiet
<1>4. \A b \in Actor : pc[b] # "idle" /\ what[b] = "thread" => dir[b] \in live'
  BY <1>1 DEF Inv, ActorOK
<1>5. World(m, live' \cup Forms(Actor), live' \cup Holds(Actor))
  BY <1>1
<1>6. halted' \in {"no", "thread", "unmap"}
  BY <1>1
<1> QED BY <1>1, <1>2, <1>3, <1>4, <1>5, <1>6, StillStep

\* The machine stops and memory is as it was.
LEMMA HaltSame ==
    ASSUME Inv, NEW a, NEW why \in {"thread", "unmap"}, Halt(a, mem, why)
    PROVE  Inv'
<1>1. World(mem, live \cup Forms(Actor), live \cup Holds(Actor)) /\ Quiet(mem, mem, live \cup Holds(Actor))
  BY DEF Inv, Quiet
<1> QED BY <1>1, HaltInv

LEMMA ScratchMapInv ==
    ASSUME Inv, NEW a \in Actor, ScratchMap(a)
    PROVE  Inv'
<1>1. PICK r : r = paging_map_page(mem, KDIR, Scratch, 0, fr[a], FALSE)
  OBVIOUS
<1>2. pc[a] = "map" /\ ActorOK(a) /\ fr[a] \in Frame /\ what[a] \in WhatSet
  BY Stays DEF ScratchMap, Inv, ActorOK
<1>3. /\ World(mem, Ds(a) \cup FormedBy(a), Ss(a) \cup HeldBy(a))
      /\ Ds(a) \subseteq Ss(a) /\ Ss(a) \subseteq Frame /\ HeldBy(a) \subseteq Frame
      /\ (\A f \in HeldBy(a) : f \notin Ss(a))
  BY Split
<1>4. /\ r.ok \in BOOLEAN /\ (~r.ok => r.m = mem)
      /\ r.ok => /\ World(r.m, Ds(a) \cup FormedBy(a), Ss(a) \cup HeldBy(a))
                 /\ SameData(mem, r.m, Ss(a) \cup HeldBy(a)) /\ Mapped(mem, KDIR, Scratch, 0) = NULL
                 /\ Mapped(r.m, KDIR, Scratch, 0) = [frame |-> fr[a], user |-> FALSE]
  <2>1. PICK i \in {Scratch, StackScratch} : i = Scratch
    OBVIOUS
  <2>2. r = paging_map_page(mem, KDIR, i, 0, fr[a], FALSE)
    BY <1>1, <2>1
  <2>3. PICK D, S : D = Ds(a) \cup FormedBy(a) /\ S = Ss(a) \cup HeldBy(a)
    OBVIOUS
  <2>4. World(mem, D, S)
    BY <1>3, <2>3
  <2>5. KernelMapped(mem, D, S, i, fr[a], r)
    BY <1>2, <2>2, <2>4, MapKernel
  <2> QED BY <2>1, <2>3, <2>5 DEF KernelMapped
<1>5. CASE r.ok
  <2>1. /\ Become(r.m) /\ live' = live /\ stuck' = stuck /\ slots' = slots /\ halted' = halted
        /\ pc' = [pc EXCEPT ![a] = "write"] /\ what' = what /\ dir' = dir /\ fr' = fr /\ todo' = todo
    BY <1>1, <1>5 DEF ScratchMap
  <2>2. Goes(a, "write", what[a], dir[a], fr[a], todo[a]) /\ "write" \in PcSet
    BY <2>1, Stays DEF Goes, PcSet
  <2>3. pc'[a] = "write"
    BY <2>1 DEF Inv, StateTypes
  <2>4. FormedBy(a)' = FormedBy(a) /\ HeldBy(a)' = HeldBy(a)
    BY <1>2, <2>1, <2>3 DEF FormedBy, HeldBy
  <2>5. ActorOK(a)'
    BY <1>2, <2>1, <2>3 DEF ActorOK
  <2>6. [frame |-> fr[a], user |-> FALSE] # NULL
    <3>1. [frame |-> fr[a], user |-> FALSE] \in PTE
      BY <1>2 DEF PTE
    <3> QED BY <3>1, Consts
  <2>7. ScratchStep(a, r.m)
    BY <1>4, <1>5, <2>1, <2>6 DEF ScratchStep
  <2>8. SameData(mem, r.m, Ss(a))
    BY <1>4, <1>5 DEF SameData
  <2>9. PICK F, H : F = FormedBy(a) /\ H = HeldBy(a)
    OBVIOUS
  <2>10. /\ World(r.m, Ds(a) \cup F, Ss(a) \cup H) /\ FormedBy(a)' = F /\ HeldBy(a)' = H
         /\ (\A g \in H : g \notin Ss(a))
    BY <1>3, <1>4, <1>5, <2>4, <2>9
  <2> QED BY <2>1, <2>2, <2>5, <2>7, <2>8, <2>10, Stays, ActorMoves
<1>6. CASE ~r.ok /\ what[a] = "thread"
  <2>1. Halt(a, mem, "thread")
    BY <1>1, <1>4, <1>6 DEF ScratchMap
  <2> QED BY <2>1, HaltSame
<1>7. CASE ~r.ok /\ what[a] # "thread"
  <2>1. Fails(a, mem)
    BY <1>1, <1>4, <1>7 DEF ScratchMap
  <2>2. SameData(mem, mem, Ss(a)) /\ pc[a] \notin {"idle", "unmap", "alloc"}
    BY <1>2 DEF SameData
  <2> QED BY <1>3, <1>7, <2>1, <2>2, FailsInv
<1> QED BY <1>4, <1>5, <1>6, <1>7

\* While an actor writes, the scratch page is its frame.
LEMMA ScratchIsMine ==
    ASSUME Inv, NEW a \in Actor, pc[a] \in Using
    PROVE  /\ Mapped(mem, KDIR, Scratch, 0) # NULL /\ Mapped(mem, KDIR, Scratch, 0).frame = fr[a]
           /\ fr[a] \in Frame /\ ActorOK(a)
BY DEF Inv, ScratchOK, ActorOK, Using

LEMMA ScratchWriteInv ==
    ASSUME Inv, NEW a \in Actor, ScratchWrite(a)
    PROVE  Inv'
<1>1. PICK n : n = Written(a)
  OBVIOUS
<1>2. /\ pc[a] = "write" /\ Become(n) /\ live' = live /\ stuck' = stuck /\ slots' = slots
      /\ pc' = [pc EXCEPT ![a] = "unmap"] /\ what' = what /\ dir' = dir /\ fr' = fr
      /\ todo' = todo /\ halted' = halted
  BY <1>1 DEF ScratchWrite, Filled
<1>3. /\ Mapped(mem, KDIR, Scratch, 0).frame = fr[a] /\ fr[a] \in Frame /\ ActorOK(a)
      /\ what[a] \in WhatSet
  BY <1>2, ScratchIsMine, Stays DEF Using
<1>4. /\ World(mem, Ds(a) \cup FormedBy(a), Ss(a) \cup HeldBy(a))
      /\ Ds(a) \subseteq Ss(a) /\ Ss(a) \subseteq Frame /\ HeldBy(a) \subseteq Frame
      /\ (\A f \in HeldBy(a) : f \notin Ss(a))
  BY Split
<1>5. Goes(a, "unmap", what[a], dir[a], fr[a], todo[a]) /\ "unmap" \in PcSet
  BY <1>2, Stays DEF Goes, PcSet
<1>6. pc'[a] = "unmap" /\ HeldBy(a)' = HeldBy(a)
  <2>1. pc'[a] = "unmap"
    BY <1>2 DEF Inv, StateTypes
  <2> QED BY <1>2, <2>1 DEF HeldBy
<1>7. FormedBy(a)' = IF what[a] = "dir" THEN {dir[a]} ELSE FormedBy(a)
  BY <1>2, <1>6 DEF FormedBy
<1>8. /\ World(n, Ds(a) \cup FormedBy(a)', Ss(a) \cup HeldBy(a))
      /\ Mapped(n, KDIR, Scratch, 0) = Mapped(mem, KDIR, Scratch, 0) /\ SameData(mem, n, Ss(a))
      /\ what[a] = "page" => n.data[fr[a]] = "page"
  <2>0. mem.pde = pde
    BY DEF mem
  <2>1. CASE what[a] = "dir"
    <3>1. FormedBy(a) = {} /\ HeldBy(a) = {fr[a]} /\ FormedBy(a)' = {fr[a]} /\ Ds(a) \cup {} = Ds(a)
      BY <1>2, <1>3, <1>7, <2>1 DEF FormedBy, HeldBy, ActorOK
    <3>2. n = [mem EXCEPT !.pde[fr[a]] = [i \in Index |->
                                     IF i = Scratch THEN NULL
                                     ELSE IF mem.pde[KDIR][i] = NULL THEN NULL
                                     ELSE IF mem.pde[KDIR][i].user THEN NULL
                                     ELSE mem.pde[KDIR][i]],
                         !.data[fr[a]] = "dir"]
      BY <1>1, <1>3, <2>0, <2>1 DEF Written
    <3>3. World(mem, Ds(a), Ss(a) \cup {fr[a]}) /\ fr[a] \in (Ss(a) \cup {fr[a]}) \ Ds(a)
          /\ (Ss(a) \cup {fr[a]}) \ {fr[a]} = Ss(a)
      BY <1>4, <3>1
    <3>4. PICK S : S = Ss(a) \cup {fr[a]}
      OBVIOUS
    <3>5. World(mem, Ds(a), S) /\ fr[a] \in S \ Ds(a)
      BY <3>3, <3>4
    <3>6. World(n, Ds(a) \cup {fr[a]}, S) /\ Quiet(mem, n, S \ {fr[a]})
      BY <3>2, <3>5, FormWorld
    <3> QED BY <2>1, <3>1, <3>3, <3>4, <3>6 DEF Quiet, SameData
  <2>2. CASE what[a] = "page"
    <3>1. FormedBy(a) = {dir[a]} /\ HeldBy(a) = {dir[a], fr[a]} /\ fr[a] # dir[a]
      BY <1>2, <1>3, <2>2 DEF FormedBy, HeldBy, ActorOK
    <3>2. n = [mem EXCEPT !.data[fr[a]] = "page"]
      BY <1>1, <1>3, <2>2 DEF Written
    <3>3. PICK D, S, x : D = Ds(a) \cup FormedBy(a) /\ S = Ss(a) \cup HeldBy(a) /\ x = "page"
      OBVIOUS
    <3>4. World(mem, D, S) /\ fr[a] \in S /\ fr[a] \in Frame \ D /\ x \in Kind
          /\ n = Put(mem, fr[a], x)
      BY <1>3, <1>4, <3>1, <3>2, <3>3 DEF Kind, Put
    <3>5. NotEntered(mem, D, fr[a])
      BY <3>4 DEF World, Sound, NotEntered
    <3>6. World(n, D, S) /\ Quiet(mem, n, Frame \ {fr[a]}) /\ n.data[fr[a]] = x
      <4>1. PutWorld(mem, n, D, S, fr[a], x)
        BY <3>4, <3>5, DataWorld
      <4> QED BY <4>1 DEF PutWorld
    <3>7. \A g \in Ss(a) : g \in Frame \ {fr[a]}
      BY <1>4, <3>1
    <3> QED BY <1>7, <2>2, <3>3, <3>6, <3>7 DEF Quiet, SameData
  <2>3. CASE what[a] = "argv"
    <3>1. n = mem
      BY <1>1, <2>3 DEF Written
    <3> QED BY <1>4, <1>7, <2>3, <3>1 DEF SameData
  <2>4. CASE what[a] \in {"share", "thread"}
    <3>1. fr[a] = dir[a] /\ fr[a] \in Ds(a) \cup FormedBy(a)
      BY <1>2, <1>3, <2>4 DEF FormedBy, ActorOK, Ds
    <3>2. n = [mem EXCEPT !.pde[fr[a]][Heap] = mem.pde[KDIR][Heap]]
      BY <1>1, <1>3, <2>0, <2>4 DEF Written
    <3>3. MemTypes(mem) /\ mem.pde[fr[a]][Heap] = mem.pde[KDIR][Heap]
      BY <1>4, <3>1 DEF World, SharedOK
    <3>4. [mem EXCEPT !.pde[fr[a]][Heap] = mem.pde[fr[a]][Heap]] = mem
      BY <3>3 DEF MemTypes
    <3>5. n = mem
      BY <3>2, <3>3, <3>4
    <3> QED BY <1>4, <1>7, <2>4, <3>5 DEF SameData
  <2> QED BY <1>3, <2>1, <2>2, <2>3, <2>4 DEF WhatSet
<1>9. ActorOK(a)'
  <2>1. mem' = n
    BY <1>2, <1>8, BecomeMem DEF World
  <2>2. data' = n.data
    BY <2>1 DEF mem
  <2> QED BY <1>2, <1>3, <1>6, <1>8, <2>2 DEF ActorOK
<1>10. ScratchStep(a, n)
  BY <1>2, <1>6, <1>8 DEF ScratchStep, Using
<1>11. PICK F, H : F = FormedBy(a)' /\ H = HeldBy(a)
  OBVIOUS
<1>12. /\ World(n, Ds(a) \cup F, Ss(a) \cup H) /\ FormedBy(a)' = F /\ HeldBy(a)' = H
       /\ (\A g \in H : g \notin Ss(a)) /\ SameData(mem, n, Ss(a))
  BY <1>4, <1>6, <1>8, <1>11
<1> QED BY <1>2, <1>5, <1>9, <1>10, <1>12, Stays, ActorMoves

LEMMA ArgumentsTooLongInv ==
    ASSUME Inv, NEW a \in Actor, ArgumentsTooLong(a)
    PROVE  Inv'
<1>1. PICK r : r = paging_unmap_page(mem, KDIR, Scratch, 0)
  OBVIOUS
<1>2. pc[a] = "write" /\ what[a] = "argv" /\ Fails(a, r.m)
  BY <1>1 DEF ArgumentsTooLong
<1>3. PICK D, S : D = Ds(a) \cup FormedBy(a) /\ S = Ss(a) \cup HeldBy(a)
  OBVIOUS
<1>4. World(mem, D, S) /\ Ss(a) \subseteq Frame
  BY <1>3, Split
<1>5. PICK i \in {Scratch, StackScratch} : i = Scratch
  OBVIOUS
<1>6. KernelUnmapped(mem, D, S, i, r)
  BY <1>1, <1>4, <1>5, UnmapKernel
<1>7. World(r.m, Ds(a) \cup FormedBy(a), Ss(a) \cup HeldBy(a)) /\ SameData(mem, r.m, Ss(a))
  BY <1>3, <1>4, <1>6 DEF KernelUnmapped, SameData
<1>8. pc[a] \in Using /\ pc[a] \notin {"idle", "unmap", "alloc"} /\ what[a] # "thread"
  BY <1>2 DEF Using
<1> QED BY <1>2, <1>7, <1>8, FailsInv

LEMMA ScratchUnmapInv ==
    ASSUME Inv, NEW a \in Actor, ScratchUnmap(a)
    PROVE  Inv'
<1>1. PICK r : r = paging_unmap_page(mem, KDIR, Scratch, 0)
  OBVIOUS
<1>2. /\ pc[a] = "unmap" /\ pc[a] \in Using /\ what[a] \in WhatSet
      /\ Mapped(mem, KDIR, Scratch, 0) # NULL /\ fr[a] \in Frame /\ ActorOK(a) /\ dir[a] \in Frame
  <2>1. pc[a] = "unmap" /\ pc[a] \in Using
    BY DEF ScratchUnmap, Using
  <2> QED BY <2>1, ScratchIsMine, Stays DEF ActorOK
<1>3. /\ World(mem, Ds(a) \cup FormedBy(a), Ss(a) \cup HeldBy(a))
      /\ Ds(a) \subseteq Ss(a) /\ Ss(a) \subseteq Frame /\ HeldBy(a) \subseteq Frame
      /\ (\A f \in HeldBy(a) : f \notin Ss(a))
  BY Split
<1>4. /\ r.ok = TRUE /\ World(r.m, Ds(a) \cup FormedBy(a), Ss(a) \cup HeldBy(a))
      /\ SameData(mem, r.m, Frame) /\ Mapped(r.m, KDIR, Scratch, 0) = NULL
  <2>1. PICK i \in {Scratch, StackScratch} : i = Scratch
    OBVIOUS
  <2>2. PICK D, S : D = Ds(a) \cup FormedBy(a) /\ S = Ss(a) \cup HeldBy(a)
    OBVIOUS
  <2>3. World(mem, D, S) /\ r = paging_unmap_page(mem, KDIR, i, 0)
    BY <1>1, <1>3, <2>1, <2>2
  <2>4. KernelUnmapped(mem, D, S, i, r)
    BY <2>3, UnmapKernel
  <2> QED BY <1>2, <2>1, <2>2, <2>4 DEF KernelUnmapped
<1>5. Become(r.m) /\ halted' = halted
  BY <1>1, <1>4 DEF ScratchUnmap
<1>6. SameData(mem, r.m, Ss(a))
  BY <1>3, <1>4 DEF SameData
<1>7. CASE what[a] = "dir" \/ what[a] = "page" \/ what[a] = "argv"
  <2>1. PICK p, w, f :
           /\ what[a] = "dir"  => p = "alloc" /\ w = "page" /\ f = 0
           /\ what[a] = "page" => p = "install" /\ w = "page" /\ f = fr[a]
           /\ what[a] = "argv" => p = "map" /\ w = "share" /\ f = dir[a]
    <3>1. CASE what[a] = "dir"
      BY <3>1
    <3>2. CASE what[a] = "page"
      BY <3>2
    <3>3. CASE what[a] = "argv"
      BY <3>3
    <3> QED BY <1>7, <3>1, <3>2, <3>3
  <2>2. At(a, p, w, f) /\ live' = live /\ stuck' = stuck /\ slots' = slots /\ dir' = dir /\ todo' = todo
    <3>1. CASE what[a] = "dir"
      BY <1>1, <1>4, <2>1, <3>1 DEF ScratchUnmap
    <3>2. CASE what[a] = "page"
      BY <1>1, <1>4, <2>1, <3>2 DEF ScratchUnmap
    <3>3. CASE what[a] = "argv"
      BY <1>1, <1>4, <2>1, <3>3 DEF ScratchUnmap
    <3> QED BY <1>7, <3>1, <3>2, <3>3
  <2>3. /\ Goes(a, p, w, dir[a], f, todo[a]) /\ p \in PcSet /\ w \in WhatSet /\ f \in Frame \cup {0}
        /\ p \notin Using
    BY <1>2, <1>7, <2>1, <2>2, Stays DEF Goes, At, PcSet, WhatSet, Using
  <2>4. StateTypes /\ live' \subseteq Frame /\ stuck' \subseteq live' /\ slots' \in [Frame -> 0..Slots]
    BY <2>2 DEF Inv, StateTypes
  <2>5. pc'[a] = p /\ what'[a] = w /\ dir'[a] = dir[a] /\ fr'[a] = f /\ todo'[a] = todo[a]
    <3>1. dir[a] \in Frame \cup {0} /\ todo[a] \in Seq(UserIndex \X Page)
      BY Stays
    <3> QED BY <1>5, <2>3, <2>4, <3>1, GoesTypes, ZenonT(60)
  <2>6. FormedBy(a)' = FormedBy(a) /\ HeldBy(a)' = HeldBy(a)
    BY <1>2, <1>7, <2>1, <2>5 DEF FormedBy, HeldBy
  <2>7. what[a] = "page" => data'[fr[a]] = "page"
    <3>1. mem' = r.m /\ mem.data = data /\ mem'.data = data'
      BY <1>4, <1>5, BecomeMem DEF World, mem
    <3>2. data'[fr[a]] = data[fr[a]]
      BY <1>2, <1>4, <3>1 DEF SameData
    <3> QED BY <1>2, <3>2 DEF ActorOK
  <2>8. ActorOK(a)'
    <3>1. CASE what[a] = "dir"
      BY <1>2, <2>1, <2>5, <3>1 DEF ActorOK
    <3>2. CASE what[a] = "page"
      BY <1>2, <2>1, <2>5, <2>7, <3>2 DEF ActorOK
    <3>3. CASE what[a] = "argv"
      BY <1>2, <2>1, <2>5, <3>3 DEF ActorOK
    <3> QED BY <1>7, <3>1, <3>2, <3>3
  <2>9. ScratchStep(a, r.m)
    BY <1>2, <2>3, <2>5 DEF ScratchStep
  <2>10. PICK F, H : F = FormedBy(a) /\ H = HeldBy(a)
    OBVIOUS
  <2>11. /\ World(r.m, Ds(a) \cup F, Ss(a) \cup H) /\ FormedBy(a)' = F /\ HeldBy(a)' = H
         /\ (\A g \in H : g \notin Ss(a))
    BY <1>3, <1>4, <2>6, <2>10
  <2> QED BY <1>5, <1>6, <2>2, <2>3, <2>8, <2>9, <2>11, Stays, ActorMoves
<1>8. CASE what[a] = "share"
  <2>1. FormedBy(a) = {dir[a]} /\ HeldBy(a) = {dir[a]}
    BY <1>2, <1>8 DEF FormedBy, HeldBy
  <2>2. /\ live' = live \cup {dir[a]} /\ slots' = [slots EXCEPT ![dir[a]] = 1] /\ Rest(a)
        /\ stuck' = stuck
    BY <1>1, <1>4, <1>8 DEF ScratchUnmap
  <2>3. live' \subseteq Frame /\ stuck' \subseteq live' /\ slots' \in [Frame -> 0..Slots]
    <3>1. 1 \in 0..Slots
      BY PagingAssumption
    <3> QED BY <1>2, <2>2, <3>1 DEF Inv, StateTypes
  <2>4. World(r.m, Ds(a) \cup {dir[a]}, Ss(a) \cup {dir[a]}) /\ (\A f \in {dir[a]} : f \notin Ss(a))
    BY <1>3, <1>4, <2>1
  <2> QED BY <1>2, <1>5, <1>6, <2>2, <2>3, <2>4, Rested
<1>9. CASE what[a] = "thread"
  <2>1. Ds(a) \cup FormedBy(a) = Ds(a) /\ Ss(a) \cup HeldBy(a) = Ss(a)
    BY <1>9 DEF FormedBy, HeldBy
  <2>2. Rest(a) /\ live' = live /\ slots' = slots /\ stuck' = stuck
    BY <1>1, <1>4, <1>9 DEF ScratchUnmap
  <2>3. live' \subseteq Frame /\ stuck' \subseteq live' /\ slots' \in [Frame -> 0..Slots]
    BY <2>2 DEF Inv, StateTypes
  <2>4. World(r.m, Ds(a), Ss(a))
    BY <1>4, <2>1
  <2> QED BY <1>2, <1>5, <1>6, <2>2, <2>3, <2>4, RestedAlone
<1> QED BY <1>2, <1>7, <1>8, <1>9 DEF WhatSet

LEMMA AllocatePageInv ==
    ASSUME Inv, NEW a \in Actor, AllocatePage(a)
    PROVE  Inv'
<1>1. PICK f : f = pmm_allocate_frame(mem)
  OBVIOUS
<1>2. pc[a] = "alloc" /\ ActorOK(a) /\ what[a] = "page" /\ dir[a] \in Frame /\ todo[a] # <<>>
  BY DEF AllocatePage, Inv, ActorOK
<1>3. FormedBy(a) = {dir[a]} /\ HeldBy(a) = {dir[a]}
  BY <1>2 DEF FormedBy, HeldBy
<1>4. /\ World(mem, Ds(a) \cup {dir[a]}, Ss(a) \cup {dir[a]})
      /\ Ds(a) \subseteq Ss(a) /\ Ss(a) \subseteq Frame /\ dir[a] \notin Ss(a)
  BY <1>3, Split
<1>5. CASE f = 0
  <2>1. PICK n : n = paging_destroy_user_directory(mem, dir[a])
    OBVIOUS
  <2>2. Become(n) /\ Rest(a) /\ live' = live /\ stuck' = stuck /\ slots' = slots /\ halted' = halted
    BY <1>1, <1>5, <2>1 DEF AllocatePage
  <2>3. /\ dir[a] \in Ds(a) \cup {dir[a]} /\ (Ds(a) \cup {dir[a]}) \ {dir[a]} = Ds(a)
        /\ (Ss(a) \cup {dir[a]}) \ {dir[a]} = Ss(a)
    BY <1>4
  <2>4. World(n, Ds(a), Ss(a)) /\ Quiet(mem, n, Ss(a))
    BY <1>4, <2>1, <2>3, DestroyWorld
  <2>5. live' \subseteq Frame /\ stuck' \subseteq live' /\ slots' \in [Frame -> 0..Slots]
    BY <2>2 DEF Inv, StateTypes
  <2>6. /\ SameData(mem, n, Ss(a))
        /\ \/ Mapped(n, KDIR, Scratch, 0) = Mapped(mem, KDIR, Scratch, 0)
           \/ pc[a] \in Using
    BY <2>4 DEF Quiet, SameData
  <2> QED BY <2>2, <2>4, <2>5, <2>6, RestedAlone
<1>6. CASE f # 0
  <2>1. PICK n : n = Take(mem, f)
    OBVIOUS
  <2>2. /\ Become(n) /\ At(a, "map", "page", f) /\ live' = live /\ stuck' = stuck /\ slots' = slots
        /\ dir' = dir /\ todo' = todo /\ halted' = halted
    BY <1>1, <1>6, <2>1 DEF AllocatePage
  <2>3. f \in Frame \ mem.used /\ f \in Frame \cup {0}
    BY <1>1, <1>6, Allocates
  <2>4. Goes(a, "map", "page", dir[a], f, todo[a]) /\ "map" \in PcSet /\ "page" \in WhatSet
    BY <2>2, Stays DEF Goes, At, PcSet, WhatSet
  <2>5. pc'[a] = "map" /\ what'[a] = "page" /\ dir'[a] = dir[a] /\ fr'[a] = f /\ todo'[a] = todo[a]
    <3>1. live' \subseteq Frame /\ stuck' \subseteq live' /\ slots' \in [Frame -> 0..Slots]
      BY <2>2 DEF Inv, StateTypes
    <3> QED BY <2>2, <2>3, <2>4, <3>1, GoesTypes, Stays
  <2>6. World(n, Ds(a) \cup {dir[a]}, (Ss(a) \cup {dir[a]}) \cup {f}) /\ Quiet(mem, n, Frame)
        /\ f \notin Ss(a) \cup {dir[a]}
    BY <1>4, <2>1, <2>3, TakeWorld
  <2>7. FormedBy(a)' = {dir[a]} /\ HeldBy(a)' = {dir[a], f}
    BY <2>5 DEF FormedBy, HeldBy
  <2>8. ActorOK(a)'
    BY <1>2, <2>3, <2>5, <2>6 DEF ActorOK
  <2>9. PICK F, H : F = {dir[a]} /\ H = {dir[a], f}
    OBVIOUS
  <2>10. Ss(a) \cup H = (Ss(a) \cup {dir[a]}) \cup {f}
    BY <2>9
  <2>11. /\ World(n, Ds(a) \cup F, Ss(a) \cup H) /\ FormedBy(a)' = F /\ HeldBy(a)' = H
         /\ (\A g \in H : g \notin Ss(a))
    BY <1>4, <2>6, <2>7, <2>9, <2>10
  <2>12. SameData(mem, n, Ss(a)) /\ ScratchStep(a, n)
    BY <1>4, <2>5, <2>6 DEF Quiet, SameData, ScratchStep, Using
  <2> QED BY <2>2, <2>3, <2>4, <2>8, <2>11, <2>12, Stays, ActorMoves
<1> QED BY <1>5, <1>6

LEMMA InstallPageInv ==
    ASSUME Inv, NEW a \in Actor, InstallPage(a)
    PROVE  Inv'
<1>1. PICK q : q = Head(todo[a])
  OBVIOUS
<1>2. PICK r : r = paging_map_page(mem, dir[a], q[1], q[2], fr[a], TRUE)
  OBVIOUS
<1>3. /\ pc[a] = "install" /\ ActorOK(a) /\ what[a] = "page" /\ dir[a] \in Frame /\ fr[a] \in Frame
      /\ todo[a] # <<>> /\ data[fr[a]] = "page" /\ fr[a] # dir[a]
  BY DEF InstallPage, Inv, ActorOK
<1>4. todo[a] \in Seq(UserIndex \X Page)
  BY Stays
<1>5. q[1] \in UserIndex /\ q[2] \in Page /\ Tail(todo[a]) \in Seq(UserIndex \X Page)
      /\ (Len(todo[a]) # 1 => Tail(todo[a]) # <<>>)
  <2>1. q \in UserIndex \X Page
    BY <1>1, <1>3, <1>4
  <2>2. PICK t \in Seq(UserIndex \X Page) : t = todo[a]
    BY <1>4
  <2>3. t # <<>>
    BY <1>3, <2>2
  <2>4. Len(t) \in Nat \ {0} /\ Tail(t) \in Seq(UserIndex \X Page) /\ Len(Tail(t)) = Len(t) - 1
    BY <2>3
  <2>5. Len(t) # 1 => Tail(t) # <<>>
    <3>1. Len(Tail(t)) # 0 => Tail(t) # <<>>
      <4>1. PICK u : u = Tail(t)
        OBVIOUS
      <4>2. u = <<>> => Len(u) = 0
        OBVIOUS
      <4> QED BY <4>1, <4>2, Zenon
    <3>2. Len(t) # 1 => Len(Tail(t)) # 0
      BY <2>4
    <3> QED BY <3>1, <3>2
  <2> QED BY <2>1, <2>2, <2>4, <2>5
<1>6. FormedBy(a) = {dir[a]} /\ HeldBy(a) = {dir[a], fr[a]}
  BY <1>3 DEF FormedBy, HeldBy
<1>7. /\ World(mem, Ds(a) \cup {dir[a]}, Ss(a) \cup {dir[a], fr[a]})
      /\ Ds(a) \subseteq Ss(a) /\ Ss(a) \subseteq Frame /\ dir[a] \notin Ss(a) /\ fr[a] \notin Ss(a)
  BY <1>6, Split
<1>8. /\ r.ok \in BOOLEAN /\ (~r.ok => r.m = mem)
      /\ r.ok => World(r.m, Ds(a) \cup {dir[a]}, Ss(a) \cup {dir[a]}) /\ Quiet(mem, r.m, Ss(a))
  <2>1. PICK D, S : D = Ds(a) \cup {dir[a]} /\ S = Ss(a) \cup {dir[a], fr[a]}
    OBVIOUS
  <2>2. World(mem, D, S) /\ dir[a] \in D /\ fr[a] \in S \ D /\ S \ {fr[a]} = Ss(a) \cup {dir[a]}
    BY <1>3, <1>7, <2>1
  <2>3. mem.data[fr[a]] = "page"
    BY <1>3 DEF mem
  <2>4. UserMapped(mem, D, S, fr[a], r)
    BY <1>2, <1>5, <2>2, <2>3, MapUser
  <2> QED BY <2>1, <2>2, <2>4 DEF UserMapped, Quiet
<1>9. CASE ~r.ok
  <2>1. Fails(a, mem)
    BY <1>1, <1>2, <1>8, <1>9 DEF InstallPage
  <2>2. SameData(mem, mem, Ss(a)) /\ pc[a] \notin {"idle", "unmap", "alloc"} /\ what[a] # "thread"
        /\ World(mem, Ds(a) \cup FormedBy(a), Ss(a) \cup HeldBy(a))
    BY <1>3, Split DEF SameData
  <2> QED BY <2>1, <2>2, FailsInv
<1>10. CASE r.ok
  <2>1. /\ Become(r.m) /\ todo' = [todo EXCEPT ![a] = Tail(@)] /\ live' = live /\ stuck' = stuck
        /\ slots' = slots /\ dir' = dir /\ halted' = halted
        /\ IF Len(todo[a]) = 1 THEN At(a, "map", "argv", fr[a]) ELSE At(a, "alloc", "page", 0)
    BY <1>1, <1>2, <1>10 DEF InstallPage
  <2>2. PICK p, w, f :
           /\ Len(todo[a]) = 1 => p = "map" /\ w = "argv" /\ f = fr[a]
           /\ Len(todo[a]) # 1 => p = "alloc" /\ w = "page" /\ f = 0
    <3>1. CASE Len(todo[a]) = 1
      BY <3>1
    <3>2. CASE Len(todo[a]) # 1
      BY <3>2
    <3> QED BY <3>1, <3>2
  <2>3. At(a, p, w, f)
    <3>1. CASE Len(todo[a]) = 1
      BY <2>1, <2>2, <3>1
    <3>2. CASE Len(todo[a]) # 1
      BY <2>1, <2>2, <3>2
    <3> QED BY <3>1, <3>2
  <2>4. p \in PcSet /\ w \in WhatSet /\ f \in Frame \cup {0} /\ p \notin Using
    BY <1>3, <2>2 DEF PcSet, WhatSet, Using
  <2>5. PICK t : t = Tail(todo[a])
    OBVIOUS
  <2>6. Goes(a, p, w, dir[a], f, t) /\ t \in Seq(UserIndex \X Page)
    BY <1>5, <2>1, <2>3, <2>5, Stays DEF Goes, At
  <2>7. pc'[a] = p /\ what'[a] = w /\ dir'[a] = dir[a] /\ fr'[a] = f /\ todo'[a] = t
    <3>1. live' \subseteq Frame /\ stuck' \subseteq live' /\ slots' \in [Frame -> 0..Slots]
      BY <2>1 DEF Inv, StateTypes
    <3>2. dir[a] \in Frame \cup {0}
      BY Stays
    <3> QED BY <2>1, <2>4, <2>6, <3>1, <3>2, GoesTypes
  <2>8. FormedBy(a)' = {dir[a]} /\ HeldBy(a)' = {dir[a]}
    BY <2>2, <2>7 DEF FormedBy, HeldBy
  <2>9. ActorOK(a)'
    <3>1. CASE Len(todo[a]) = 1
      BY <1>3, <2>2, <2>7, <3>1 DEF ActorOK
    <3>2. CASE Len(todo[a]) # 1
      BY <1>3, <1>5, <2>2, <2>5, <2>7, <3>2 DEF ActorOK
    <3> QED BY <3>1, <3>2
  <2>10. ScratchStep(a, r.m) /\ SameData(mem, r.m, Ss(a))
    BY <1>8, <1>10, <2>4, <2>7 DEF ScratchStep, Quiet, SameData
  <2>11. PICK F, H : F = {dir[a]} /\ H = {dir[a]}
    OBVIOUS
  <2>12. /\ World(r.m, Ds(a) \cup F, Ss(a) \cup H) /\ FormedBy(a)' = F /\ HeldBy(a)' = H
         /\ (\A g \in H : g \notin Ss(a))
    BY <1>7, <1>8, <1>10, <2>8, <2>11
  <2> QED BY <2>1, <2>4, <2>6, <2>9, <2>10, <2>12, Stays, ActorMoves
<1> QED BY <1>8, <1>9, <1>10

\* What all the actors have.
LEMMA Together ==
    ASSUME Inv
    PROVE  /\ Forms(Actor) \subseteq Holds(Actor) /\ Holds(Actor) \subseteq Frame
           /\ live \subseteq Frame /\ (\A f \in Holds(Actor) : f \notin live)
           /\ World(mem, live \cup Forms(Actor), live \cup Holds(Actor))
<1>1. \A a \in Actor : FormedBy(a) \subseteq HeldBy(a)
  BY Split
<1>2. Forms(Actor) \subseteq Holds(Actor)
  BY <1>1 DEF Forms, Holds
<1>3. \A f \in Holds(Actor) : f \notin live
  BY DEF Inv, Apart, Holds
<1> QED BY <1>2, <1>3 DEF Inv, StateTypes, Holds

LEMMA ReleaseInv ==
    ASSUME Inv, NEW d \in live \ stuck, address_space_release(d)
    PROVE  Inv'
<1>1. PICK n : n = paging_destroy_user_directory(mem, d)
  OBVIOUS
<1>2. /\ Become(n) /\ live' = live \ {d} /\ slots' = [slots EXCEPT ![d] = 0] /\ stuck' = stuck
      /\ pc' = pc /\ what' = what /\ dir' = dir /\ fr' = fr /\ todo' = todo /\ halted' = halted
      /\ \A c \in Caller : pc[c] = "idle"
  BY <1>1 DEF address_space_release, NobodyCalls
<1>3. PICK D, S : D = live \cup Forms(Actor) /\ S = live \cup Holds(Actor)
  OBVIOUS
<1>4. World(mem, D, S) /\ d \in D
  BY <1>3, Together
<1>5. D \ {d} = live' \cup Forms(Actor) /\ S \ {d} = live' \cup Holds(Actor)
  BY <1>2, <1>3, Together
<1>6. World(n, D \ {d}, S \ {d}) /\ Quiet(mem, n, S \ {d})
  BY <1>1, <1>4, DestroyWorld
<1>7. World(n, live' \cup Forms(Actor), live' \cup Holds(Actor)) /\ Quiet(mem, n, Holds(Actor))
  BY <1>5, <1>6 DEF Quiet
<1>8. live' \subseteq live /\ stuck' \subseteq live' /\ slots' \in [Frame -> 0..Slots]
      /\ halted' \in {"no", "thread", "unmap"}
  <2>1. 0 \in 0..Slots
    BY PagingAssumption
  <2> QED BY <1>2, <2>1 DEF Inv, StateTypes
<1>9. \A b \in Actor : pc[b] # "idle" /\ what[b] = "thread" => dir[b] \in live'
  BY <1>2 DEF Inv, ActorOK
<1> QED BY <1>2, <1>7, <1>8, <1>9, StillStep

LEMMA HeapInv ==
    ASSUME Inv, NEW d \in (live \ stuck) \cup {KDIR}, heap_map_page(d)
    PROVE  Inv'
<1>1. PICK f, m1 : f = pmm_allocate_frame(mem) /\ m1 = Take(mem, f)
  OBVIOUS
<1>2. PICK j : j = Cardinality(IF pde[KDIR][Heap] = NULL THEN {}
                               ELSE {k \in Page : pte[pde[KDIR][Heap].table][k] # NULL})
  OBVIOUS
<1>3. PICK r : r = paging_map_page(m1, d, Heap, j, f, FALSE)
  OBVIOUS
<1>4. /\ f # 0 /\ j \in Page
      /\ Become(IF r.ok THEN [r.m EXCEPT !.data[f] = "heap"] ELSE pmm_free_frame(r.m, {f}))
      /\ live' = live /\ stuck' = stuck /\ slots' = slots /\ pc' = pc /\ what' = what /\ dir' = dir
      /\ fr' = fr /\ todo' = todo /\ halted' = halted
  BY <1>1, <1>2, <1>3 DEF heap_map_page
<1>5. PICK D, S, S1 : D = live \cup Forms(Actor) /\ S = live \cup Holds(Actor) /\ S1 = S \cup {f}
  OBVIOUS
<1>6. World(mem, D, S) /\ D \subseteq S /\ S \subseteq Frame /\ d \in D \cup {KDIR}
  BY <1>5, Together
<1>7. f \in Frame \ mem.used
  BY <1>1, <1>4, Allocates
<1>8. World(m1, D, S1) /\ Quiet(mem, m1, Frame) /\ f \notin S
  BY <1>1, <1>5, <1>6, <1>7, TakeWorld
<1>9. f \in S1 \ D /\ S1 \ {f} = S
  BY <1>5, <1>6, <1>8
<1>10. HeapMapped(m1, D, S1, j, f, r)
  BY <1>3, <1>4, <1>6, <1>8, <1>9, MapHeap
<1>11. PICK n : n = IF r.ok THEN Put(r.m, f, "heap") ELSE pmm_free_frame(m1, {f})
  OBVIOUS
<1>12. Become(n)
  BY <1>4, <1>10, <1>11 DEF HeapMapped, Put
<1>13. World(n, D, S) /\ Quiet(mem, n, S)
  <2>1. CASE r.ok
    <3>1. World(r.m, D, S) /\ Quiet(m1, r.m, S1) /\ LedByHeap(r.m, D, f, j)
      BY <1>9, <1>10, <2>1 DEF HeapMapped
    <3>2. NotEntered(r.m, D, f)
      BY <1>4, <3>1 DEF LedByHeap, NotEntered
    <3>3. PICK x \in Kind : x = "heap"
      BY DEF Kind
    <3>4. f \in Frame \ D /\ n = Put(r.m, f, x)
      BY <1>7, <1>9, <1>11, <2>1, <3>3
    <3>5. PutWorld(r.m, n, D, S, f, x)
      BY <3>1, <3>2, <3>4, DataWorld
    <3>6. \A g \in S : g \in S1 /\ g \in Frame /\ g \in Frame \ {f}
      BY <1>5, <1>6, <1>8
    <3> QED BY <1>8, <3>1, <3>5, <3>6 DEF PutWorld, Quiet
  <2>2. CASE ~r.ok
    <3>1. n = pmm_free_frame(m1, {f})
      BY <1>11, <2>2
    <3>2. World(n, D, S1 \ {f}) /\ Quiet(m1, n, S1 \ {f})
      BY <1>8, <1>9, <3>1, FreeWorld
    <3> QED BY <1>6, <1>8, <1>9, <3>2 DEF Quiet
  <2> QED BY <2>1, <2>2
<1>14. World(n, live' \cup Forms(Actor), live' \cup Holds(Actor)) /\ Quiet(mem, n, Holds(Actor))
  BY <1>4, <1>5, <1>13 DEF Quiet
<1>15. live' \subseteq live /\ stuck' \subseteq live' /\ slots' \in [Frame -> 0..Slots]
       /\ halted' \in {"no", "thread", "unmap"}
  BY <1>4 DEF Inv, StateTypes
<1>16. \A b \in Actor : pc[b] # "idle" /\ what[b] = "thread" => dir[b] \in live'
  BY <1>4 DEF Inv, ActorOK
<1> QED BY <1>4, <1>12, <1>14, <1>15, <1>16, StillStep

\* A frame that was taken and is given back when the machine stops.
LEMMA HaltFreed ==
    ASSUME Inv, NEW a, NEW m, NEW f, NEW S1, S1 = live \cup Holds(Actor) \cup {f},
           World(m, live \cup Forms(Actor), S1), f \notin live \cup Holds(Actor),
           Quiet(mem, m, live \cup Holds(Actor)), NEW n, n = pmm_free_frame(m, {f}),
           Halt(a, n, "thread")
    PROVE  Inv'
<1>1. PICK D, S, w : D = live \cup Forms(Actor) /\ S = live \cup Holds(Actor) /\ w = "thread"
  OBVIOUS
<1>2. D \subseteq S /\ World(m, D, S1) /\ f \in S1 \ D /\ S1 \ {f} = S
  BY <1>1, Together
<1>3. World(n, D, S1 \ {f}) /\ Quiet(m, n, S1 \ {f})
  BY <1>2, FreeWorld
<1>4. World(n, D, S) /\ Quiet(mem, n, S)
  BY <1>1, <1>2, <1>3 DEF Quiet
<1>5. World(n, live \cup Forms(Actor), live \cup Holds(Actor)) /\ Quiet(mem, n, live \cup Holds(Actor))
      /\ w \in {"thread", "unmap"} /\ Halt(a, n, w)
  BY <1>1, <1>4
<1> QED BY <1>5, HaltInv

LEMMA ThreadInv ==
    ASSUME Inv, NEW c \in Caller, NEW d \in live \ stuck, user_thread_create(c, d)
    PROVE  Inv'
<1>1. PICK f, m1 : f = pmm_allocate_frame(mem) /\ m1 = Take(mem, f)
  OBVIOUS
<1>2. PICK r : r = paging_map_page(m1, KDIR, StackScratch, 0, f, FALSE)
  OBVIOUS
<1>3. PICK u : u = paging_unmap_page(r.m, KDIR, StackScratch, 0)
  OBVIOUS
<1>4. PICK z : z = Put(u.m, f, "page")
  OBVIOUS
<1>5. PICK s : s = paging_map_page(z, d, Stack, slots[d], f, TRUE)
  OBVIOUS
<1>6. /\ pc[c] = "idle"
      /\ IF slots[d] = Slots \/ f = 0 THEN Halt(c, mem, "thread")
           ELSE IF ~r.ok THEN Halt(c, pmm_free_frame(r.m, {f}), "thread")
           ELSE IF ~s.ok THEN Halt(c, pmm_free_frame(s.m, {f}), "thread")
           ELSE /\ Become(s.m)
                /\ slots' = [slots EXCEPT ![d] = @ + 1]
                /\ At(c, "map", "thread", d)
                /\ dir' = [dir EXCEPT ![c] = d]
                /\ live' = live /\ stuck' = stuck /\ todo' = todo /\ halted' = halted
  BY <1>1, <1>2, <1>3, <1>4, <1>5 DEF user_thread_create, Put
<1>7. PICK D, S, S1 : D = live \cup Forms(Actor) /\ S = live \cup Holds(Actor) /\ S1 = S \cup {f}
  OBVIOUS
<1>8. World(mem, D, S) /\ D \subseteq S /\ S \subseteq Frame /\ d \in D /\ d \in Frame /\ c \in Actor
  BY <1>7, Together DEF Actor
<1>9. CASE slots[d] = Slots \/ f = 0
  <2>1. PICK w \in {"thread", "unmap"} : w = "thread"
    OBVIOUS
  <2>2. Halt(c, mem, w)
    BY <1>6, <1>9, <2>1
  <2> QED BY <2>2, HaltSame
<1>10. CASE ~(slots[d] = Slots \/ f = 0)
  <2>1. f \in Frame \ mem.used /\ f \in Frame
    BY <1>1, <1>10, Allocates
  <2>2. World(m1, D, S1) /\ Quiet(mem, m1, Frame) /\ f \notin S
    BY <1>1, <1>7, <1>8, <2>1, TakeWorld
  <2>3. f \in S1 \ D /\ S1 \ {f} = S /\ S1 = live \cup Holds(Actor) \cup {f}
        /\ f \notin live \cup Holds(Actor) /\ (\A g \in S : g \in Frame /\ g \in S1 /\ g # f)
    BY <1>7, <1>8, <2>2
  <2>4. KernelMapped(m1, D, S1, StackScratch, f, r)
    <3>1. PICK i \in {Scratch, StackScratch} : i = StackScratch
      OBVIOUS
    <3>2. r = paging_map_page(m1, KDIR, i, 0, f, FALSE)
      BY <1>2, <3>1
    <3>3. KernelMapped(m1, D, S1, i, f, r)
      BY <2>1, <2>2, <3>2, MapKernel
    <3> QED BY <3>1, <3>3
  <2>5. CASE ~r.ok
    <3>1. r.m = m1
      BY <2>4, <2>5 DEF KernelMapped
    <3>2. PICK n : n = pmm_free_frame(m1, {f})
      OBVIOUS
    <3>3. Halt(c, n, "thread")
      BY <1>6, <1>10, <2>5, <3>1, <3>2
    <3>4. World(m1, live \cup Forms(Actor), S1) /\ Quiet(mem, m1, live \cup Holds(Actor))
      BY <1>7, <2>2, <2>3 DEF Quiet
    <3> QED BY <2>3, <3>2, <3>3, <3>4, HaltFreed
  <2>6. CASE r.ok
    <3>1. World(r.m, D, S1) /\ Quiet(m1, r.m, S1)
      BY <2>4, <2>6, Consts DEF KernelMapped
    <3>2. World(u.m, D, S1) /\ Quiet(r.m, u.m, S1)
      <4>1. PICK i \in {Scratch, StackScratch} : i = StackScratch
        OBVIOUS
      <4>2. u = paging_unmap_page(r.m, KDIR, i, 0)
        BY <1>3, <4>1
      <4>3. KernelUnmapped(r.m, D, S1, i, u)
        BY <3>1, <4>2, UnmapKernel
      <4> QED BY <4>1, <4>3, Consts DEF KernelUnmapped
    <3>3. World(z, D, S1) /\ Quiet(u.m, z, Frame \ {f}) /\ z.data[f] = "page"
      <4>1. PICK x \in Kind : x = "page"
        BY DEF Kind
      <4>2. NotEntered(u.m, D, f)
        BY <2>3, <3>2 DEF World, Sound, NotEntered
      <4>3. f \in Frame \ D /\ z = Put(u.m, f, x)
        BY <1>4, <2>1, <2>3, <4>1
      <4>4. PutWorld(u.m, z, D, S1, f, x)
        BY <3>2, <4>2, <4>3, DataWorld
      <4> QED BY <4>1, <4>4 DEF PutWorld
    <3>4. Quiet(mem, z, S)
      <4>1. \A g \in S : g \in Frame \ {f}
        BY <2>3
      <4> QED BY <2>2, <2>3, <3>1, <3>2, <3>3, <4>1 DEF Quiet
    <3>5. slots[d] \in Page
      <4>1. slots[d] \in 0..Slots /\ slots[d] # Slots
        BY <1>8, <1>10 DEF Inv, StateTypes
      <4> QED BY <4>1, PagingAssumption DEF Page
    <3>6. UserMapped(z, D, S1, f, s)
      BY <1>5, <1>8, <2>3, <3>3, <3>5, Consts, MapUser
    <3>7. CASE ~s.ok
      <4>1. s.m = z
        BY <3>6, <3>7 DEF UserMapped
      <4>2. PICK n : n = pmm_free_frame(z, {f})
        OBVIOUS
      <4>3. Halt(c, n, "thread")
        BY <1>6, <1>10, <2>6, <3>7, <4>1, <4>2
      <4>4. World(z, live \cup Forms(Actor), S1) /\ Quiet(mem, z, live \cup Holds(Actor))
        BY <1>7, <3>3, <3>4
      <4> QED BY <2>3, <4>2, <4>3, <4>4, HaltFreed
    <3>8. CASE s.ok
      <4>1. /\ Become(s.m) /\ slots' = [slots EXCEPT ![d] = @ + 1] /\ At(c, "map", "thread", d)
            /\ dir' = [dir EXCEPT ![c] = d] /\ live' = live /\ stuck' = stuck /\ todo' = todo
            /\ halted' = halted
        BY <1>6, <1>10, <2>6, <3>8
      <4>2. World(s.m, D, S) /\ Quiet(z, s.m, S1)
        BY <2>3, <3>6, <3>8 DEF UserMapped
      <4>3. Goes(c, "map", "thread", d, d, todo[c]) /\ "map" \in PcSet /\ "thread" \in WhatSet
            /\ d \in Frame \cup {0}
        BY <1>8, <4>1, Stays DEF Goes, At, PcSet, WhatSet
      <4>4. slots' \in [Frame -> 0..Slots]
        <5>1. slots \in [Frame -> 0..Slots]
          BY DEF Inv, StateTypes
        <5>2. slots[d] + 1 \in 0..Slots
          BY <1>8, <1>10, <5>1, PagingAssumption
        <5> QED BY <4>1, <5>1, <5>2
      <4>5. pc'[c] = "map" /\ what'[c] = "thread" /\ dir'[c] = d /\ fr'[c] = d /\ todo'[c] = todo[c]
        <5>1. live' \subseteq Frame /\ stuck' \subseteq live'
          BY <4>1 DEF Inv, StateTypes
        <5>2. todo[c] \in Seq(UserIndex \X Page)
          BY <1>8, Stays
        <5> QED BY <1>8, <4>1, <4>3, <4>4, <5>1, <5>2, GoesTypes
      <4>6. FormedBy(c) = {} /\ HeldBy(c) = {} /\ FormedBy(c)' = {} /\ HeldBy(c)' = {}
        BY <1>6, <4>5 DEF FormedBy, HeldBy
      <4>7. D = Ds(c) /\ S = Ss(c)
        <5>1. Forms(Actor) = Forms(Actor \ {c}) /\ Holds(Actor) = Holds(Actor \ {c})
          BY <4>6 DEF Forms, Holds
        <5> QED BY <1>7, <5>1 DEF Ds, Ss
      <4>8. ActorOK(c)'
        BY <1>8, <4>1, <4>5 DEF ActorOK
      <4>9. SameData(mem, s.m, Ss(c)) /\ ScratchStep(c, s.m)
        BY <2>3, <3>4, <4>2, <4>5, <4>7 DEF Quiet, SameData, ScratchStep, Using
      <4>10. PICK F, H : F = {} /\ H = {}
        OBVIOUS
      <4>11. /\ World(s.m, Ds(c) \cup F, Ss(c) \cup H) /\ FormedBy(c)' = F /\ HeldBy(c)' = H
             /\ (\A g \in H : g \notin Ss(c))
        <5>1. Ds(c) \cup F = Ds(c) /\ Ss(c) \cup H = Ss(c)
          BY <4>10
        <5> QED BY <4>2, <4>6, <4>7, <4>10, <5>1
      <4>12. todo[c] \in Seq(UserIndex \X Page)
        BY <1>8, Stays
      <4> QED BY <1>8, <4>1, <4>3, <4>4, <4>8, <4>9, <4>11, <4>12, ActorMoves
    <3> QED BY <3>6, <3>7, <3>8 DEF UserMapped
  <2> QED BY <2>4, <2>5, <2>6 DEF KernelMapped
<1> QED BY <1>9, <1>10

-----------------------------------------------------------------------------
(* The theorems.                                                           *)

LEMMA InitInv ==
    ASSUME Init
    PROVE  Inv
<1> DEFINE E == [table |-> 1, user |-> FALSE]
<1>1. 1 \in Frame /\ 0 \in 0..Slots
  BY PagingAssumption DEF Frame
<1>2. E \in PDE /\ E # NULL /\ E.table = 1 /\ E.user = FALSE
  <2>1. E \in PDE
    BY <1>1 DEF PDE
  <2>2. E.table = 1 /\ E.user = FALSE
    OBVIOUS
  <2> HIDE DEF E
  <2> QED BY <2>1, <2>2, Consts
<1>3. /\ mem.used = {1} /\ mem.data = [f \in Frame |-> IF f = 1 THEN "table" ELSE "junk"]
      /\ mem.pde = [d \in Dir |-> IF d = KDIR THEN [NoDir EXCEPT ![Heap] = E] ELSE NoDir]
      /\ mem.pte = [t \in Frame |-> NoPage]
      /\ mem = [used |-> mem.used, pde |-> mem.pde, pte |-> mem.pte, data |-> mem.data]
  BY DEF Init, InitWith, mem
<1> HIDE DEF E
<1>4. /\ NoDir \in [Index -> PDE \cup {NULL}] /\ NoPage \in [Page -> PTE \cup {NULL}]
      /\ [NoDir EXCEPT ![Heap] = E] \in [Index -> PDE \cup {NULL}]
      /\ (\A i \in Index : [NoDir EXCEPT ![Heap] = E][i] = IF i = Heap THEN E ELSE NULL)
  BY <1>2 DEF NoDir, NoPage
<1>5. MemTypes(mem)
  <2>1. mem.pde \in [Dir -> [Index -> PDE \cup {NULL}]] /\ mem.pte \in [Frame -> [Page -> PTE \cup {NULL}]]
    BY <1>3, <1>4
  <2>2. mem.data \in [Frame -> Kind] /\ mem.used \in SUBSET Frame
    BY <1>1, <1>3 DEF Kind
  <2> QED BY <1>3, <2>1, <2>2 DEF MemTypes
<1>6. \A i \in Index : mem.pde[KDIR][i] = IF i = Heap THEN E ELSE NULL
  BY <1>3, <1>4, Consts
<1>7. \A i \in Index : \A j \in Page : Mapped(mem, KDIR, i, j) = NULL
  BY <1>1, <1>2, <1>3, <1>6, SMTT(30) DEF Mapped, NoPage
<1>8. Forms(Actor) = {} /\ Holds(Actor) = {} /\ live = {}
  BY DEF Init, InitWith, Forms, Holds, FormedBy, HeldBy
<1>9. KernelOK(mem) /\ SharedOK(mem, {}) /\ CleanOK(mem, {})
  BY <1>1, <1>2, <1>3, <1>6, Consts DEF KernelOK, SharedOK, CleanOK
<1>10. \A f \in Frame : \A r : Leads(mem, {}, r, f) <=> f = 1 /\ r = <<"ktab", Heap>>
  <2>1. \A f \in Frame : \A i \in Index : KTab(mem, i, f) <=> i = Heap /\ f = 1
    BY <1>2, <1>6 DEF KTab
  <2>2. \A f \in Frame : \A j \in Page : ~HPage(mem, j, f)
    BY <1>7, Consts DEF HPage
  <2> QED BY <2>1, <2>2, Consts DEF Leads
<1>11. Sound(mem, {}, {})
  <2>1. PICK r0, D : r0 = <<"ktab", Heap>> /\ D = {}
    OBVIOUS
  <2>2. ASSUME NEW f \in Frame, NEW r PROVE Leads(mem, D, r, f) <=> f = 1 /\ r = r0
    BY <1>10, <2>1
  <2>3. \A f \in Frame : f \in mem.used <=> f = 1
    BY <1>1, <1>3
  <2>4. \A f \in Frame : \A r, q : Leads(mem, D, r, f) /\ Leads(mem, D, q, f) => r = q
    BY <2>2
  <2>5. \A f \in D : \A r : ~Leads(mem, D, r, f)
    BY <2>1
  <2>6. \A f \in Frame : f \in mem.used <=> f \in D \/ \E r : Leads(mem, D, r, f)
    BY <2>1, <2>2, <2>3
  <2> QED BY <2>1, <2>4, <2>5, <2>6 DEF Sound
<1>12. World(mem, live \cup Forms(Actor), live \cup Holds(Actor))
  <2>1. live \cup Forms(Actor) = {} /\ live \cup Holds(Actor) = {}
    BY <1>8
  <2>2. World(mem, {}, {})
    BY <1>5, <1>9, <1>11 DEF World
  <2> QED BY <2>1, <2>2
<1>13. StateTypes
  BY <1>1 DEF Init, InitWith, StateTypes
<1>14. Apart /\ ScratchOK /\ (\A a \in Actor : ActorOK(a))
  BY DEF Init, InitWith, Apart, HeldBy, ScratchOK, Using, ActorOK
<1> QED BY <1>12, <1>13, <1>14 DEF Inv

LEMMA NextInv ==
    ASSUME Inv, [Next]_vars
    PROVE  Inv'
<1>1. ASSUME NEW a \in Actor, NEW image \in Images, elf_load_user_image(a, image) PROVE Inv'
  BY <1>1, ElfInv
<1>2. ASSUME NEW a \in Actor, ScratchMap(a) PROVE Inv'
  BY <1>2, ScratchMapInv
<1>3. ASSUME NEW a \in Actor, ScratchWrite(a) PROVE Inv'
  BY <1>3, ScratchWriteInv
<1>4. ASSUME NEW a \in Actor, ScratchUnmap(a) PROVE Inv'
  BY <1>4, ScratchUnmapInv
<1>5. ASSUME NEW a \in Actor, ArgumentsTooLong(a) PROVE Inv'
  BY <1>5, ArgumentsTooLongInv
<1>6. ASSUME NEW a \in Actor, AllocatePage(a) PROVE Inv'
  BY <1>6, AllocatePageInv
<1>7. ASSUME NEW a \in Actor, InstallPage(a) PROVE Inv'
  BY <1>7, InstallPageInv
<1>8. ASSUME NEW c \in Caller, NEW d \in live \ stuck, user_thread_create(c, d) PROVE Inv'
  BY <1>8, ThreadInv
<1>9. ASSUME NEW d \in (live \ stuck) \cup {KDIR}, heap_map_page(d) PROVE Inv'
  BY <1>9, HeapInv
<1>10. ASSUME NEW d \in live \ stuck, address_space_release(d) PROVE Inv'
  BY <1>10, ReleaseInv
<1>11. CASE UNCHANGED vars
  BY <1>11 DEF vars, Inv, StateTypes, Apart, ScratchOK, ActorOK, FormedBy, HeldBy, Forms, Holds, mem
<1> QED BY <1>1, <1>2, <1>3, <1>4, <1>5, <1>6, <1>7, <1>8, <1>9, <1>10, <1>11 DEF Next

LEMMA Invariant == Spec => []Inv
<1>1. Init => Inv
  BY InitInv
<1>2. Inv /\ [Next]_vars => Inv'
  BY NextInv
<1> QED BY <1>1, <1>2, PTL DEF Spec

\* The directories the properties speak of are those of the invariant.
LEMMA FormedIs ==
    ASSUME Inv
    PROVE  Formed = live \cup Forms(Actor)
<1>1. \A a \in Actor : FormedBy(a) = IF a \in Building /\ (what[a] # "dir" \/ pc[a] = "unmap")
                                     THEN {dir[a]} ELSE {}
  BY DEF FormedBy, Building
<1>2. \A a \in Actor : FormedBy(a) \subseteq Frame
  BY Split
<1>3. {dir[a] : a \in {b \in Building : what[b] # "dir" \/ pc[b] = "unmap"}} = Forms(Actor)
  BY <1>1, <1>2 DEF Forms, Building
<1> QED BY <1>3 DEF Formed

LEMMA One ==
    ASSUME NEW A, NEW x \in A, \A y \in A : y = x
    PROVE  Cardinality(A) = 1
<1>1. A = {x}
  OBVIOUS
<1> QED BY <1>1, FS_Singleton

\* The seven kinds of owners, and what each says of the invariant's memory.
OwnersOf(f, A1, A2, A3, A4, A5, A6, A7) ==
    /\ A1 = {d \in live : d = f} /\ A2 = {a \in Building : dir[a] = f}
    /\ A3 = {i \in Index : KTab(mem, i, f)}
    /\ A4 = {di \in Formed \X Index : UTab(mem, di[1], di[2], f)}
    /\ A5 = {j \in Page : HPage(mem, j, f)}
    /\ A6 = {dij \in Formed \X UserIndex \X Page : UPage(mem, dij[1], dij[2], dij[3], f)}
    /\ A7 = {a \in Building : what[a] = "page" /\ pc[a] # "alloc" /\ fr[a] = f}
LEMMA Owners ==
    ASSUME NEW f
    PROVE  \E A1, A2, A3, A4, A5, A6, A7 :
              /\ OwnersOf(f, A1, A2, A3, A4, A5, A6, A7)
              /\ Owned(f) = Cardinality(A1) + Cardinality(A2) + Cardinality(A3) + Cardinality(A4)
                            + Cardinality(A5) + Cardinality(A6) + Cardinality(A7)
<1>1. mem.pde = pde
  BY DEF mem
<1>2. PICK A1 : A1 = {d \in live : d = f}
  OBVIOUS
<1>3. PICK A2 : A2 = {a \in Building : dir[a] = f}
  OBVIOUS
<1>4. PICK A3 : A3 = {i \in Index : pde[KDIR][i] # NULL /\ pde[KDIR][i].table = f}
  OBVIOUS
<1>5. PICK A4 : A4 = {di \in Formed \X Index :
          /\ pde[di[1]][di[2]] # NULL
          /\ pde[di[1]][di[2]].user /\ pde[di[1]][di[2]].table = f}
  OBVIOUS
<1>6. PICK A5 : A5 = {j \in Page : LET h == Mapped(mem, KDIR, Heap, j) IN h # NULL /\ h.frame = f}
  OBVIOUS
<1>7. PICK A6 : A6 = {dij \in Formed \X UserIndex \X Page :
          LET u == Mapped(mem, dij[1], dij[2], dij[3]) IN u # NULL /\ u.frame = f}
  OBVIOUS
<1>8. PICK A7 : A7 = {a \in Building : what[a] = "page" /\ pc[a] # "alloc" /\ fr[a] = f}
  OBVIOUS
<1>9. Owned(f) = Cardinality(A1) + Cardinality(A2) + Cardinality(A3) + Cardinality(A4)
                 + Cardinality(A5) + Cardinality(A6) + Cardinality(A7)
  BY <1>2, <1>3, <1>4, <1>5, <1>6, <1>7, <1>8, Zenon DEF Owned
<1>10. A3 = {i \in Index : KTab(mem, i, f)}
  BY <1>1, <1>4 DEF KTab
<1>11. A4 = {di \in Formed \X Index : UTab(mem, di[1], di[2], f)}
  BY <1>1, <1>5 DEF UTab
<1>12. A5 = {j \in Page : HPage(mem, j, f)}
  BY <1>6 DEF HPage
<1>13. A6 = {dij \in Formed \X UserIndex \X Page : UPage(mem, dij[1], dij[2], dij[3], f)}
  BY <1>7 DEF UPage
<1>14. OwnersOf(f, A1, A2, A3, A4, A5, A6, A7)
  BY <1>2, <1>3, <1>8, <1>10, <1>11, <1>12, <1>13 DEF OwnersOf
<1> QED BY <1>9, <1>14

LEMMA OwnedOnce ==
    ASSUME Inv, NEW f \in Frame
    PROVE  Owned(f) = IF f \in used THEN 1 ELSE 0
<1>1. PICK D, S : D = Formed /\ S = live \cup Holds(Actor)
  OBVIOUS
<1>2. World(mem, D, S) /\ Sound(mem, D, S) /\ mem.used = used
  BY <1>1, FormedIs, Together DEF World, mem
<1>3. /\ \A r, s : Leads(mem, D, r, f) /\ Leads(mem, D, s, f) => r = s
      /\ f \in S => \A r : ~Leads(mem, D, r, f)
      /\ f \in used <=> f \in S \/ \E r : Leads(mem, D, r, f)
  BY <1>2 DEF Sound
<1>4. PICK A1, A2, A3, A4, A5, A6, A7 :
         /\ OwnersOf(f, A1, A2, A3, A4, A5, A6, A7)
         /\ Owned(f) = Cardinality(A1) + Cardinality(A2) + Cardinality(A3) + Cardinality(A4)
                       + Cardinality(A5) + Cardinality(A6) + Cardinality(A7)
  BY Owners, ZenonT(60)
<1>5. /\ A1 = {d \in live : d = f} /\ A2 = {a \in Building : dir[a] = f}
      /\ A3 = {i \in Index : KTab(mem, i, f)}
      /\ A4 = {di \in D \X Index : UTab(mem, di[1], di[2], f)}
      /\ A5 = {j \in Page : HPage(mem, j, f)}
      /\ A6 = {dij \in D \X UserIndex \X Page : UPage(mem, dij[1], dij[2], dij[3], f)}
      /\ A7 = {a \in Building : what[a] = "page" /\ pc[a] # "alloc" /\ fr[a] = f}
  BY <1>1, <1>4 DEF OwnersOf
<1>6. Cardinality({}) = 0
  BY FS_EmptySet
<1>7. \A a \in Actor : HeldBy(a) = IF a \in Building
                                   THEN IF what[a] = "page" /\ pc[a] # "alloc" THEN {dir[a], fr[a]}
                                        ELSE {dir[a]}
                                   ELSE {}
  BY DEF HeldBy, Building
<1>8. \A a \in Building : a \in Actor
  BY DEF Building
<1>9. \A a \in A2 : a \in Actor /\ f \in HeldBy(a)
  BY <1>5, <1>7, <1>8
<1>10. \A a \in A7 : a \in Actor /\ f \in HeldBy(a)
  BY <1>5, <1>7, <1>8
<1>11. \A a, b \in Actor : f \in HeldBy(a) /\ f \in HeldBy(b) => a = b
  BY DEF Inv, Apart
<1>12. \A a \in Actor : f \in HeldBy(a) => f \notin live /\ f \in S
  BY <1>1 DEF Inv, Apart, Holds
<1>13. f \notin S => Cardinality(A1) = 0 /\ Cardinality(A2) = 0 /\ Cardinality(A7) = 0
  <2> SUFFICES ASSUME f \notin S PROVE A1 = {} /\ A2 = {} /\ A7 = {}
    BY <1>6
  <2> QED BY <1>1, <1>5, <1>9, <1>10, <1>12
<1>14. f \in S => /\ Cardinality(A1) \in Nat /\ Cardinality(A2) \in Nat /\ Cardinality(A7) \in Nat
                   /\ Cardinality(A1) + Cardinality(A2) + Cardinality(A7) = 1
  <2>1. CASE f \in live
    <3>1. f \in A1 /\ \A y \in A1 : y = f
      BY <1>5, <2>1
    <3>2. Cardinality(A1) = 1
      BY <3>1, One
    <3>3. A2 = {} /\ A7 = {}
      BY <1>9, <1>10, <1>12, <2>1
    <3> QED BY <1>6, <3>2, <3>3
  <2>2. ASSUME f \in S, f \notin live
        PROVE  /\ Cardinality(A1) \in Nat /\ Cardinality(A2) \in Nat /\ Cardinality(A7) \in Nat
               /\ Cardinality(A1) + Cardinality(A2) + Cardinality(A7) = 1
    <3>1. PICK a \in Actor : f \in HeldBy(a)
      BY <1>1, <2>2 DEF Holds
    <3>2. A1 = {}
      BY <1>5, <2>2
    <3>3. \A b \in A2 : b = a
      BY <1>9, <1>11, <3>1
    <3>4. \A b \in A7 : b = a
      BY <1>10, <1>11, <3>1
    <3>5. a \in Building /\ (f = dir[a] \/ (f = fr[a] /\ what[a] = "page" /\ pc[a] # "alloc"))
      BY <1>7, <3>1
    <3>6. what[a] = "page" /\ pc[a] # "alloc" => fr[a] # dir[a]
      BY <3>5 DEF Building, Inv, ActorOK
    <3>7. CASE f = dir[a]
      <4>1. a \in A2
        BY <1>5, <3>5, <3>7
      <4>2. A7 = {}
        BY <1>5, <3>4, <3>6, <3>7
      <4>3. Cardinality(A2) = 1
        BY <3>3, <4>1, One
      <4> QED BY <1>6, <3>2, <4>2, <4>3
    <3>8. CASE f # dir[a]
      <4>1. a \in A7
        BY <1>5, <3>5, <3>8
      <4>2. A2 = {}
        BY <1>5, <3>3, <3>8
      <4>3. Cardinality(A7) = 1
        BY <3>4, <4>1, One
      <4> QED BY <1>6, <3>2, <4>2, <4>3
    <3> QED BY <3>7, <3>8
  <2> QED BY <2>1, <2>2
<1>15. /\ \A i \in A3 : i \in Index /\ Leads(mem, D, <<"ktab", i>>, f)
       /\ \A j \in A5 : j \in Page /\ Leads(mem, D, <<"heap", j>>, f)
  BY <1>5, Roles
<1>16. \A x \in A4 : x = <<x[1], x[2]>> /\ Leads(mem, D, <<"utab", x[1], x[2]>>, f)
  <2> SUFFICES ASSUME NEW x \in A4
               PROVE  x = <<x[1], x[2]>> /\ Leads(mem, D, <<"utab", x[1], x[2]>>, f)
    OBVIOUS
  <2>1. x \in D \X Index /\ UTab(mem, x[1], x[2], f)
    BY <1>5
  <2>2. x = <<x[1], x[2]>> /\ x[1] \in D /\ x[2] \in Index
    BY <2>1
  <2> QED BY <2>1, <2>2, Roles
<1>17. \A x \in A6 : x = <<x[1], x[2], x[3]>> /\ Leads(mem, D, <<"upage", x[1], x[2], x[3]>>, f)
  <2> SUFFICES ASSUME NEW x \in A6
               PROVE  x = <<x[1], x[2], x[3]>> /\ Leads(mem, D, <<"upage", x[1], x[2], x[3]>>, f)
    OBVIOUS
  <2>1. x \in D \X UserIndex \X Page /\ UPage(mem, x[1], x[2], x[3], f)
    BY <1>5
  <2>2. x = <<x[1], x[2], x[3]>> /\ x[1] \in D /\ x[2] \in UserIndex /\ x[3] \in Page
    BY <2>1
  <2> QED BY <2>1, <2>2, Roles
<1>18. (\A r : ~Leads(mem, D, r, f)) =>
          Cardinality(A3) = 0 /\ Cardinality(A4) = 0 /\ Cardinality(A5) = 0 /\ Cardinality(A6) = 0
  <2> SUFFICES ASSUME \A r : ~Leads(mem, D, r, f) PROVE A3 = {} /\ A4 = {} /\ A5 = {} /\ A6 = {}
    BY <1>6
  <2> QED BY <1>15, <1>16, <1>17
<1>19. ASSUME NEW r, Leads(mem, D, r, f)
       PROVE  /\ Cardinality(A3) \in Nat /\ Cardinality(A4) \in Nat
              /\ Cardinality(A5) \in Nat /\ Cardinality(A6) \in Nat
              /\ Cardinality(A3) + Cardinality(A4) + Cardinality(A5) + Cardinality(A6) = 1
  <2>0. \A s : Leads(mem, D, s, f) => s = r
    BY <1>3, <1>19
  <2>1. CASE \E i \in Index : r = <<"ktab", i>> /\ KTab(mem, i, f)
    <3>1. PICK i \in Index : r = <<"ktab", i>> /\ KTab(mem, i, f)
      BY <2>1
    <3>2. i \in A3 /\ \A y \in A3 : y = i
      BY <1>5, <1>15, <2>0, <3>1, Names
    <3>3. A4 = {} /\ A5 = {} /\ A6 = {}
      BY <1>15, <1>16, <1>17, <2>0, <3>1, Names
    <3>4. Cardinality(A3) = 1
      BY <3>2, One
    <3> QED BY <1>6, <3>3, <3>4
  <2>2. CASE \E d \in D : \E i \in Index : r = <<"utab", d, i>> /\ UTab(mem, d, i, f)
    <3>1. PICK d \in D, i \in Index : r = <<"utab", d, i>> /\ UTab(mem, d, i, f)
      BY <2>2
    <3>2. <<d, i>> \in A4
      BY <1>5, <3>1
    <3>3. ASSUME NEW y \in A4 PROVE y = <<d, i>>
      <4>1. <<"utab", y[1], y[2]>> = <<"utab", d, i>> /\ y = <<y[1], y[2]>>
        BY <1>16, <2>0, <3>1
      <4>2. y[1] = d /\ y[2] = i
        BY <4>1, Names
      <4> QED BY <4>1, <4>2
    <3>4. A3 = {} /\ A5 = {} /\ A6 = {}
      BY <1>15, <1>17, <2>0, <3>1, Names, ZenonT(60)
    <3>5. Cardinality(A4) = 1
      BY <3>2, <3>3, One
    <3> QED BY <1>6, <3>4, <3>5
  <2>3. CASE \E j \in Page : r = <<"heap", j>> /\ HPage(mem, j, f)
    <3>1. PICK j \in Page : r = <<"heap", j>> /\ HPage(mem, j, f)
      BY <2>3
    <3>2. j \in A5 /\ \A y \in A5 : y = j
      BY <1>5, <1>15, <2>0, <3>1, Names
    <3>3. A3 = {} /\ A4 = {} /\ A6 = {}
      BY <1>15, <1>16, <1>17, <2>0, <3>1, Names
    <3>4. Cardinality(A5) = 1
      BY <3>2, One
    <3> QED BY <1>6, <3>3, <3>4
  <2>4. CASE \E d \in D : \E i \in UserIndex : \E j \in Page :
                r = <<"upage", d, i, j>> /\ UPage(mem, d, i, j, f)
    <3>1. PICK d \in D, i \in UserIndex, j \in Page : r = <<"upage", d, i, j>> /\ UPage(mem, d, i, j, f)
      BY <2>4
    <3>2. <<d, i, j>> \in A6
      BY <1>5, <3>1
    <3>3. ASSUME NEW y \in A6 PROVE y = <<d, i, j>>
      <4>1. <<"upage", y[1], y[2], y[3]>> = <<"upage", d, i, j>> /\ y = <<y[1], y[2], y[3]>>
        BY <1>17, <2>0, <3>1
      <4>2. y[1] = d /\ y[2] = i /\ y[3] = j
        BY <4>1, Names
      <4> QED BY <4>1, <4>2
    <3>4. A3 = {} /\ A4 = {} /\ A5 = {}
      BY <1>15, <1>16, <2>0, <3>1, Names
    <3>5. Cardinality(A6) = 1
      BY <3>2, <3>3, One
    <3> QED BY <1>6, <3>4, <3>5
  <2> QED BY <1>19, <2>1, <2>2, <2>3, <2>4 DEF Leads
<1>20. CASE f \in S
  <2>1. Cardinality(A3) = 0 /\ Cardinality(A4) = 0 /\ Cardinality(A5) = 0 /\ Cardinality(A6) = 0
    BY <1>3, <1>18, <1>20
  <2> QED BY <1>3, <1>4, <1>14, <1>20, <2>1
<1>21. CASE f \notin S /\ \E r : Leads(mem, D, r, f)
  <2>1. /\ Cardinality(A3) \in Nat /\ Cardinality(A4) \in Nat
        /\ Cardinality(A5) \in Nat /\ Cardinality(A6) \in Nat
        /\ Cardinality(A3) + Cardinality(A4) + Cardinality(A5) + Cardinality(A6) = 1
    BY <1>19, <1>21
  <2> QED BY <1>3, <1>4, <1>13, <1>21, <2>1
<1>22. CASE f \notin S /\ \A r : ~Leads(mem, D, r, f)
  BY <1>3, <1>4, <1>13, <1>18, <1>22
<1> QED BY <1>20, <1>21, <1>22

\* No frame is lost, handed out twice or freed under somebody: a frame that
\* pmm_allocate_frame has given out is a directory, a table, a page or in a loader's
\* hand, and only one of them, through every failure of elf_load_user_image and every
\* paging_destroy_user_directory; a free one is none of them.
THEOREM FramesAreAccounted == Spec => []FramesAccounted
<1>1. Inv => FramesAccounted
  <2> SUFFICES ASSUME Inv PROVE FramesAccounted
    OBVIOUS
  <2>1. StateTypes /\ MemTypes(mem)
    BY Together DEF Inv, World
  <2>2. used \subseteq Frame /\ data \in [Frame -> {"junk", "dir", "table", "page", "heap"}]
        /\ pde \in [Dir -> [Index -> PDE \cup {NULL}]] /\ pte \in [Frame -> [Page -> PTE \cup {NULL}]]
    BY <2>1 DEF MemTypes, mem, Kind
  <2>3. \A d \in Dir : \A i \in Index :
           pde[d][i] = NULL \/ (pde[d][i].table \in Frame /\ pde[d][i].user \in BOOLEAN)
    BY <2>2 DEF PDE
  <2>4. \A t \in Frame : \A j \in Page :
           pte[t][j] = NULL \/ (pte[t][j].frame \in Frame /\ pte[t][j].user \in BOOLEAN)
    BY <2>2 DEF PTE
  <2>5. TypeOK
    BY <2>1, <2>2, <2>3, <2>4 DEF StateTypes, TypeOK
  <2>6. \A f \in Frame : Owned(f) = IF f \in used THEN 1 ELSE 0
    BY OwnedOnce
  <2> QED BY <2>5, <2>6 DEF FramesAccounted
<1> QED BY <1>1, Invariant, PTL

\* Whatever directory is loaded, the kernel's heap is there, and nothing else of the
\* kernel's differs: what elf_load_user_image copies from the kernel's directory stays
\* what the kernel's directory has, and the scratch page is in none.
THEOREM KernelIsShared == Spec => []KernelShared
<1>1. Inv => KernelShared
  <2> SUFFICES ASSUME Inv PROVE KernelShared
    OBVIOUS
  <2>1. SharedOK(mem, Formed) /\ KernelOK(mem) /\ mem.pde = pde
    BY FormedIs, Together DEF World, mem
  <2> SUFFICES ASSUME NEW d \in Formed
               PROVE  /\ pde[d][Heap] = pde[KDIR][Heap] /\ pde[d][Scratch] = NULL
                      /\ \A i \in Index \ UserIndex : pde[d][i] # NULL =>
                             pde[d][i] = pde[KDIR][i] /\ ~pde[d][i].user
                      /\ \A i \in UserIndex : pde[d][i] # NULL => pde[d][i].user
    BY DEF KernelShared
  <2>2. /\ pde[d][Heap] = pde[KDIR][Heap] /\ pde[d][Scratch] = NULL
        /\ \A i \in Index \ UserIndex : pde[d][i] # NULL => pde[d][i] = pde[KDIR][i]
        /\ \A i \in UserIndex : pde[d][i] # NULL => pde[d][i].user
    BY <2>1 DEF SharedOK
  <2>3. \A i \in Index \ UserIndex : pde[d][i] # NULL => ~pde[d][i].user
    BY <2>1, <2>2 DEF KernelOK
  <2> QED BY <2>2, <2>3
<1> QED BY <1>1, Invariant, PTL

\* Everything a program's directory leads to was cleared or filled since its frame was
\* allocated, whoever had the frame before.
THEOREM NothingIsStale == Spec => []NoStaleData
<1>1. Inv => NoStaleData
  <2> SUFFICES ASSUME Inv PROVE NoStaleData
    OBVIOUS
  <2>1. CleanOK(mem, Formed) /\ SharedOK(mem, Formed) /\ mem.pde = pde /\ mem.data = data
    BY FormedIs, Together DEF World, mem
  <2> SUFFICES ASSUME NEW d \in Formed
               PROVE  /\ data[d] = "dir"
                      /\ \A i \in Index : pde[d][i] # NULL => data[pde[d][i].table] = "table"
                      /\ \A i \in UserIndex : \A j \in Page :
                           Mapped(mem, d, i, j) # NULL => data[Mapped(mem, d, i, j).frame] = "page"
    BY DEF NoStaleData
  <2>2. data[d] = "dir" /\ \A i \in UserIndex : \A j \in Page :
           Mapped(mem, d, i, j) # NULL => data[Mapped(mem, d, i, j).frame] = "page"
    BY <2>1 DEF CleanOK
  <2>3. ASSUME NEW i \in Index, pde[d][i] # NULL PROVE data[pde[d][i].table] = "table"
    <3>1. CASE i \in UserIndex
      BY <2>1, <2>3, <3>1 DEF CleanOK
    <3>2. CASE i \notin UserIndex
      <4>1. pde[d][i] = pde[KDIR][i]
        BY <2>1, <2>3, <3>2 DEF SharedOK
      <4> QED BY <2>1, <2>3, <4>1 DEF CleanOK
    <3> QED BY <3>1, <3>2
  <2> QED BY <2>2, <2>3
<1> QED BY <1>1, Invariant, PTL

\* Nobody but the actor that mapped the scratch page writes through it or unmaps it: the
\* mapping another one finds there makes its own paging_map_page fail, and it gives up.
THEOREM ScratchIsPrivate == Spec => []ScratchPrivate
<1>1. Inv => ScratchPrivate
  BY DEF Inv, ScratchOK, Using, ScratchPrivate
<1> QED BY <1>1, Invariant, PTL

=============================================================================
