------------------------------- MODULE Paging -------------------------------
(***************************************************************************)
(* Physical frames and page directories: memory/pmm.c, memory/paging.c, the *)
(* way process/elf.c builds a user directory and memory/address_space.c     *)
(* adds a stack to it.                                                      *)
(*                                                                          *)
(* A frame is a directory, a table or a page.  The kernel has one address,  *)
(* Scratch, to look at a frame that is not mapped; every user of it maps,   *)
(* writes and unmaps in three critical sections and nothing else keeps the  *)
(* users apart.  A Loader is a kernel task that starts a program with       *)
(* interrupts on; a Caller does it in a system call, with interrupts off,   *)
(* so that it is not interrupted but may interrupt a Loader.                *)
(*                                                                          *)
(* Assumed of the build: programs are linked at addresses whose directory   *)
(* entries the kernel does not use (UserIndex).                             *)
(***************************************************************************)
EXTENDS Integers, FiniteSets, Sequences, FiniteSetsExt

CONSTANTS
    Loader, Caller,
    NFrames,       \* frames of the machine
    Heap, Scratch, StackScratch,   \* kernel directory indices
    UserIndex, Stack,              \* user directory indices; Stack is one of them
    Slots,         \* ADDRESS_SPACE_USER_STACK_SLOT_COUNT; one page each
    Images,        \* programs: the pages to load, the last one is the stack's top
    KDIR, NULL

Actor == Loader \cup Caller
Frame == 1..NFrames
Page  == 0..(Slots - 1)
Index == {Heap, Scratch, StackScratch} \cup UserIndex
Dir   == Frame \cup {KDIR}

ASSUME PagingAssumption ==
    /\ NFrames \in Nat \ {0} /\ Slots \in Nat \ {0} /\ KDIR \notin Frame
    /\ Heap # Scratch /\ Heap # StackScratch /\ Scratch # StackScratch
    /\ Stack \in UserIndex /\ {Heap, Scratch, StackScratch} \cap UserIndex = {}
    /\ \A s \in Images : s \in Seq(UserIndex \X Page) /\ s # <<>>
    /\ NULL \notin [table : Frame, user : BOOLEAN] \cup [frame : Frame, user : BOOLEAN]

VARIABLES
    used,      \* frame_bitmap
    pde,       \* pde[d][i]: NULL or [table, user]
    pte,       \* pte[t][j]: NULL or [frame, user]
    data,      \* data[f]: what was written into f since it was allocated
    live,      \* directories that belong to processes
    stuck,     \* those whose process never got a task (see Process)
    slots,     \* slots[d]: stack slots reserved in d
    pc, what,  \* what[a]: what actor a uses the scratch page for
    dir, fr, todo,  \* the directory, frame and pages actor a works on
    halted

vars == <<used, pde, pte, data, live, stuck, slots, pc, what, dir, fr, todo, halted>>
mem  == [used |-> used, pde |-> pde, pte |-> pte, data |-> data]
Become(m) == used' = m.used /\ pde' = m.pde /\ pte' = m.pte /\ data' = m.data

-----------------------------------------------------------------------------
(* The page frame allocator and the paging operations on a memory m.       *)

\* pmm_allocate_frame: the lowest free frame, 0 if there is none.
pmm_allocate_frame(m) == IF Frame \subseteq m.used THEN 0 ELSE Min(Frame \ m.used)
Take(m, f) == [m EXCEPT !.used = @ \cup {f}]
NoDir  == [i \in Index |-> NULL]
NoPage == [j \in Page |-> NULL]
\* pmm_free_frame for each of fs.  What a free frame holds is "junk", whatever it is.
pmm_free_frame(m, fs) ==
    [used |-> m.used \ fs,
     pde  |-> [d \in Dir |-> IF d \in fs THEN NoDir ELSE m.pde[d]],
     pte  |-> [t \in Frame |-> IF t \in fs THEN NoPage ELSE m.pte[t]],
     data |-> [f \in Frame |-> IF f \in fs THEN "junk" ELSE m.data[f]]]

\* paging_map_page with directory d loaded: [m, ok].  The entry that is there
\* already is refused, after the directory entry has been given the user bit.
Table(m, d, i, user) ==
    LET t == pmm_allocate_frame(m)
    IN  IF m.pde[d][i] # NULL
          THEN [m EXCEPT !.pde[d][i].user = @ \/ user]
        ELSE IF t = 0 THEN m
        ELSE [Take(m, t) EXCEPT !.pde[d][i] = [table |-> t, user |-> user],
                                !.pte[t] = [j \in Page |-> NULL], !.data[t] = "table"]
Enter(m, d, i, j, e) == [m EXCEPT !.pte[m.pde[d][i].table][j] = e]
map_over(m, d, i, j, f, user) ==
    LET m1 == Table(m, d, i, user)
    IN  IF m1.pde[d][i] = NULL THEN [m |-> m1, ok |-> FALSE]
        ELSE [m |-> Enter(m1, d, i, j, [frame |-> f, user |-> user]), ok |-> TRUE]
paging_map_page(m, d, i, j, f, user) ==
    LET m1 == Table(m, d, i, user)
    IN  IF m1.pde[d][i] = NULL THEN [m |-> m1, ok |-> FALSE]
        ELSE IF m1.pte[m1.pde[d][i].table][j] # NULL THEN [m |-> m1, ok |-> FALSE]
        ELSE [m |-> Enter(m1, d, i, j, [frame |-> f, user |-> user]), ok |-> TRUE]

\* What address (i, j) is mapped to in directory d.
Mapped(m, d, i, j) == IF m.pde[d][i] = NULL THEN NULL ELSE m.pte[m.pde[d][i].table][j]

\* paging_unmap_page(address, false) with directory d loaded.
paging_unmap_page(m, d, i, j) ==
    IF Mapped(m, d, i, j) = NULL THEN [m |-> m, ok |-> FALSE]
    ELSE [m |-> Enter(m, d, i, j, NULL), ok |-> TRUE]

\* paging_destroy_user_directory: the tables with the user bit, all their pages
\* and the directory.
UserTables(m, d) == {m.pde[d][i].table : i \in {k \in Index \ {Scratch} :
                        IF m.pde[d][k] = NULL THEN FALSE ELSE m.pde[d][k].user}}
PagesOf(m, t) == {m.pte[t][j].frame : j \in {k \in Page : m.pte[t][k] # NULL}}
Cleared(m, d) ==
    [m EXCEPT !.pte = [t \in Frame |-> IF t \in UserTables(m, d)
                                       THEN [j \in Page |-> NULL] ELSE m.pte[t]],
              !.pde[d] = [i \in Index |->
                  IF i = Scratch \/ m.pde[d][i] = NULL THEN m.pde[d][i]
                  ELSE IF m.pde[d][i].user THEN NULL ELSE m.pde[d][i]]]
paging_destroy_user_directory(m, d) ==
    pmm_free_frame(Cleared(m, d), {d} \cup UserTables(m, d)
                                      \cup UNION {PagesOf(m, t) : t \in UserTables(m, d)})

-----------------------------------------------------------------------------
\* paging_initialize and heap_initialize: the kernel has the table of its heap,
\* which every directory will share, before there is any other directory.  In
\* the other version the table comes with the first page.
InitWith(heapTable) ==
    /\ used = IF heapTable THEN {1} ELSE {}
    /\ pde = [d \in Dir |-> IF d = KDIR /\ heapTable
                 THEN [NoDir EXCEPT ![Heap] = [table |-> 1, user |-> FALSE]] ELSE NoDir]
    /\ pte = [t \in Frame |-> NoPage]
    /\ data = [f \in Frame |-> IF f = 1 /\ heapTable THEN "table" ELSE "junk"]
    /\ live = {} /\ stuck = {} /\ slots = [d \in Frame |-> 0]
    /\ pc = [a \in Actor |-> "idle"] /\ what = [a \in Actor |-> "dir"]
    /\ dir = [a \in Actor |-> 0] /\ fr = [a \in Actor |-> 0]
    /\ todo = [a \in Actor |-> <<>>] /\ halted = "no"
InitLazy == InitWith(FALSE)
Init == InitWith(TRUE)

\* A system call is not interrupted.
MayRun(a) == halted = "no" /\ \A c \in Caller \ {a} : pc[c] = "idle"
NobodyCalls == halted = "no" /\ \A c \in Caller : pc[c] = "idle"

\* Actor a ends: nothing of it is left but what is in memory.
Rest(a) ==
    /\ pc' = [pc EXCEPT ![a] = "idle"] /\ what' = [what EXCEPT ![a] = "dir"]
    /\ dir' = [dir EXCEPT ![a] = 0] /\ fr' = [fr EXCEPT ![a] = 0]
    /\ todo' = [todo EXCEPT ![a] = <<>>]

At(a, p, w, f) ==
    /\ pc' = [pc EXCEPT ![a] = p] /\ what' = [what EXCEPT ![a] = w]
    /\ fr' = [fr EXCEPT ![a] = f]

\* elf_load_user_image: the frame of the directory.
elf_load_user_image(a, image) ==
    LET f == pmm_allocate_frame(mem)
    IN  /\ MayRun(a) /\ pc[a] = "idle"
        /\ f # 0
        /\ Become(Take(mem, f))
        /\ At(a, "map", "dir", f)
        /\ dir' = [dir EXCEPT ![a] = f] /\ todo' = [todo EXCEPT ![a] = image]
        /\ UNCHANGED <<live, stuck, slots, halted>>

\* Giving up: what the actor has in its hand and what it has built goes back,
\* unless there is a process already, which keeps the directory for ever.
GiveBack(a, m) ==
    CASE what[a] = "dir"   -> pmm_free_frame(m, {fr[a]})
      [] what[a] = "page"  -> paging_destroy_user_directory(pmm_free_frame(m, {fr[a]}), dir[a])
      [] what[a] = "share" -> m
      [] OTHER             -> paging_destroy_user_directory(m, dir[a])
keep_frame(a, m) == IF what[a] = "page" THEN paging_destroy_user_directory(m, dir[a])
                    ELSE GiveBack(a, m)
Returned(a, m) == GiveBack(a, m)
Fails(a, m) ==
    LET keep == IF what[a] = "share" THEN {dir[a]} ELSE {}
    IN  /\ Become(Returned(a, m))
        /\ Rest(a)
        /\ live' = live \cup keep /\ stuck' = stuck \cup keep
        /\ UNCHANGED <<slots, halted>>

Halt(a, m, why) ==
    /\ halted' = why /\ Become(m)
    /\ UNCHANGED <<live, stuck, slots, pc, what, dir, fr, todo>>

\* The first of the three steps with the scratch page: paging_map_page.  Thread
\* creation stops the machine when it cannot have the page (user_thread_halt).
ScratchMap(a) ==
    LET r == paging_map_page(mem, KDIR, Scratch, 0, fr[a], FALSE)
    IN  /\ MayRun(a) /\ pc[a] = "map"
        /\ IF r.ok THEN /\ Become(r.m) /\ pc' = [pc EXCEPT ![a] = "write"]
                        /\ UNCHANGED <<live, stuck, slots, what, dir, fr, todo, halted>>
           ELSE IF what[a] = "thread" THEN Halt(a, r.m, "thread")
           ELSE Fails(a, r.m)

\* The second: writing through the scratch address, into whatever is mapped
\* there.  A new directory gets the kernel's entries but Scratch; a page is
\* zeroed and filled; sharing copies one kernel entry.
Written(a) ==
    LET f == Mapped(mem, KDIR, Scratch, 0).frame
    IN  CASE what[a] = "dir"  -> [mem EXCEPT !.pde[f] = [i \in Index |->
                                     IF i = Scratch THEN NULL
                                     ELSE IF pde[KDIR][i] = NULL THEN NULL
                                     ELSE IF pde[KDIR][i].user THEN NULL
                                     ELSE pde[KDIR][i]],
                                  !.data[f] = "dir"]
          [] what[a] = "page" -> [mem EXCEPT !.data[f] = "page"]
          [] what[a] = "argv" -> mem
          [] OTHER            -> [mem EXCEPT !.pde[f][Heap] = pde[KDIR][Heap]]
Unwritten(a) == IF what[a] = "page" THEN mem ELSE Written(a)
Filled(a) == Written(a)
ScratchWrite(a) ==
    /\ MayRun(a) /\ pc[a] = "write"
    /\ Become(Filled(a))
    /\ pc' = [pc EXCEPT ![a] = "unmap"]
    /\ UNCHANGED <<live, stuck, slots, what, dir, fr, todo, halted>>

\* The third: paging_unmap_page, which stops the machine if nothing is mapped,
\* and what follows it.
ScratchUnmap(a) ==
    LET r == paging_unmap_page(mem, KDIR, Scratch, 0)
    IN  /\ MayRun(a) /\ pc[a] = "unmap"
        /\ IF ~r.ok THEN Halt(a, mem, "unmap")
           ELSE /\ Become(r.m)
                /\ UNCHANGED halted
                /\ CASE what[a] = "dir"  -> /\ At(a, "alloc", "page", 0)
                                            /\ UNCHANGED <<live, stuck, slots, dir, todo>>
                     [] what[a] = "page" -> /\ At(a, "install", "page", fr[a])
                                            /\ UNCHANGED <<live, stuck, slots, dir, todo>>
                     [] what[a] = "argv" -> /\ At(a, "map", "share", dir[a])
                                            /\ UNCHANGED <<live, stuck, slots, dir, todo>>
                     [] what[a] = "share" -> /\ live' = live \cup {dir[a]}
                                             /\ slots' = [slots EXCEPT ![dir[a]] = 1]
                                             /\ Rest(a) /\ UNCHANGED stuck
                     [] OTHER             -> Rest(a) /\ UNCHANGED <<live, stuck, slots>>

\* The arguments do not fit into the top page of the stack.
ArgumentsTooLong(a) ==
    /\ MayRun(a) /\ pc[a] = "write" /\ what[a] = "argv"
    /\ Fails(a, paging_unmap_page(mem, KDIR, Scratch, 0).m)

\* populate_segment_page and map_user_stack: a frame for the next page ...
AllocatePage(a) ==
    LET f == pmm_allocate_frame(mem)
    IN  /\ MayRun(a) /\ pc[a] = "alloc"
        /\ IF f = 0
             THEN /\ Become(paging_destroy_user_directory(mem, dir[a]))
                  /\ Rest(a) /\ UNCHANGED <<live, stuck, slots, halted>>
             ELSE /\ Become(Take(mem, f)) /\ At(a, "map", "page", f)
                  /\ UNCHANGED <<live, stuck, slots, dir, todo, halted>>

\* ... and paging_map_page_in_directory, once it has been filled.  After the
\* last page the arguments are written into it.
InstallPage(a) ==
    LET p == Head(todo[a])
        r == paging_map_page(mem, dir[a], p[1], p[2], fr[a], TRUE)
    IN  /\ MayRun(a) /\ pc[a] = "install"
        /\ IF ~r.ok THEN Fails(a, r.m)
           ELSE /\ Become(r.m)
                /\ todo' = [todo EXCEPT ![a] = Tail(@)]
                /\ IF Len(todo[a]) = 1 THEN At(a, "map", "argv", fr[a])
                                       ELSE At(a, "alloc", "page", 0)
                /\ UNCHANGED <<live, stuck, slots, dir, halted>>

\* user_thread_create_current in the process of directory d, up to the sharing of
\* a kernel entry with d: a stack slot, a zeroed page by way of StackScratch
\* under a lock of its own, and its mapping.  Anything missing halts.
user_thread_create(c, d) ==
    LET f == pmm_allocate_frame(mem)
        r == paging_map_page(Take(mem, f), KDIR, StackScratch, 0, f, FALSE)
        z == [paging_unmap_page(r.m, KDIR, StackScratch, 0).m EXCEPT !.data[f] = "page"]
        s == paging_map_page(z, d, Stack, slots[d], f, TRUE)
    IN  /\ MayRun(c) /\ pc[c] = "idle"
        /\ IF slots[d] = Slots \/ f = 0 THEN Halt(c, mem, "thread")
           ELSE IF ~r.ok THEN Halt(c, pmm_free_frame(r.m, {f}), "thread")
           ELSE IF ~s.ok THEN Halt(c, pmm_free_frame(s.m, {f}), "thread")
           ELSE /\ Become(s.m)
                /\ slots' = [slots EXCEPT ![d] = @ + 1]
                /\ At(c, "map", "thread", d)
                /\ dir' = [dir EXCEPT ![c] = d]
                /\ UNCHANGED <<live, stuck, todo, halted>>

\* heap_map_pages: the heap grows by a page, with any directory loaded.
heap_map_page(d) ==
    LET f == pmm_allocate_frame(mem)
        j == Cardinality(IF pde[KDIR][Heap] = NULL THEN {}
                         ELSE {k \in Page : pte[pde[KDIR][Heap].table][k] # NULL})
        r == paging_map_page(Take(mem, f), d, Heap, j, f, FALSE)
    IN  /\ NobodyCalls /\ f # 0 /\ j \in Page
        /\ Become(IF r.ok THEN [r.m EXCEPT !.data[f] = "heap"]
                          ELSE pmm_free_frame(r.m, {f}))
        /\ UNCHANGED <<live, stuck, slots, pc, what, dir, fr, todo, halted>>

\* address_space_release of the last reference, in the reaper.
address_space_release(d) ==
    /\ NobodyCalls
    /\ Become(paging_destroy_user_directory(mem, d))
    /\ live' = live \ {d} /\ slots' = [slots EXCEPT ![d] = 0]
    /\ UNCHANGED <<stuck, pc, what, dir, fr, todo, halted>>

Next ==
    \/ \E a \in Actor :
         \/ \E image \in Images : elf_load_user_image(a, image)
         \/ ScratchMap(a) \/ ScratchWrite(a) \/ ScratchUnmap(a)
         \/ ArgumentsTooLong(a) \/ AllocatePage(a) \/ InstallPage(a)
    \/ \E c \in Caller, d \in live \ stuck : user_thread_create(c, d)
    \/ \E d \in (live \ stuck) \cup {KDIR} : heap_map_page(d)
    \/ \E d \in live \ stuck : address_space_release(d)

Spec == Init /\ [][Next]_vars

-----------------------------------------------------------------------------
\* Types.
TypeOK ==
    /\ used \subseteq Frame /\ live \subseteq Frame /\ stuck \subseteq live
    /\ \A d \in Dir : \A i \in Index :
          pde[d][i] = NULL \/ (pde[d][i].table \in Frame /\ pde[d][i].user \in BOOLEAN)
    /\ \A t \in Frame : \A j \in Page :
          pte[t][j] = NULL \/ (pte[t][j].frame \in Frame /\ pte[t][j].user \in BOOLEAN)
    /\ data \in [Frame -> {"junk", "dir", "table", "page", "heap"}]
    /\ slots \in [Frame -> 0..Slots]
    /\ pc \in [Actor -> {"idle", "map", "write", "unmap", "alloc", "install"}]
    /\ what \in [Actor -> {"dir", "page", "argv", "share", "thread"}]
    /\ dir \in [Actor -> Frame \cup {0}] /\ fr \in [Actor -> Frame \cup {0}]
    /\ halted \in {"no", "thread", "unmap"}

\* Directories whose content has been written.
Building == {a \in Actor : pc[a] # "idle" /\ what[a] # "thread"}
Formed == live \cup {dir[a] : a \in {b \in Building : what[b] # "dir" \/ pc[b] = "unmap"}}

\* How many have frame f: as a directory, as a table of the kernel's or of a user,
\* as a page of the heap's or of a user, in an actor's hand.
Owned(f) ==
    Cardinality({d \in live : d = f}) + Cardinality({a \in Building : dir[a] = f})
    + Cardinality({i \in Index : pde[KDIR][i] # NULL /\ pde[KDIR][i].table = f})
    + Cardinality({di \in Formed \X Index :
          /\ pde[di[1]][di[2]] # NULL
          /\ pde[di[1]][di[2]].user /\ pde[di[1]][di[2]].table = f})
    + Cardinality({j \in Page : LET h == Mapped(mem, KDIR, Heap, j)
                                IN  h # NULL /\ h.frame = f})
    + Cardinality({dij \in Formed \X UserIndex \X Page :
          LET u == Mapped(mem, dij[1], dij[2], dij[3])
          IN  u # NULL /\ u.frame = f})
    + Cardinality({a \in Building : what[a] = "page" /\ pc[a] # "alloc" /\ fr[a] = f})

\* Every frame that is allocated has exactly one owner, and a free frame has
\* none: whatever fails on the way, and whoever exits, nothing is lost, handed
\* out twice or freed under somebody.
FramesAccounted == TypeOK /\ \A f \in Frame : Owned(f) = IF f \in used THEN 1 ELSE 0

\* Kernel memory looks the same from every directory: what a directory has of
\* the kernel's it shares with the kernel's own, it always has the heap, and it
\* never has the scratch page.
KernelShared ==
    \A d \in Formed :
        /\ pde[d][Heap] = pde[KDIR][Heap] /\ pde[d][Scratch] = NULL
        /\ \A i \in Index \ UserIndex : pde[d][i] # NULL =>
               pde[d][i] = pde[KDIR][i] /\ ~pde[d][i].user
        /\ \A i \in UserIndex : pde[d][i] # NULL => pde[d][i].user

\* Between its map and its unmap an actor has the scratch page for itself: it
\* writes into its own frame and its unmap finds a mapping, which is its own.
ScratchPrivate ==
    \A a \in Actor : pc[a] \in {"write", "unmap"} =>
        LET s == Mapped(mem, KDIR, Scratch, 0) IN s # NULL /\ s.frame = fr[a]

\* No frame is used that was not cleared since it was allocated, neither as a
\* directory or a table nor, with somebody else's data in it, as a program's page.
NoStaleData ==
    \A d \in Formed :
        /\ data[d] = "dir"
        /\ \A i \in Index : pde[d][i] # NULL => data[pde[d][i].table] = "table"
        /\ \A i \in UserIndex : \A j \in Page :
             Mapped(mem, d, i, j) # NULL => data[Mapped(mem, d, i, j).frame] = "page"

=============================================================================
