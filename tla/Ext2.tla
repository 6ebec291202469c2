-------------------------------- MODULE Ext2 --------------------------------
(***************************************************************************)
(* fs/ext2.c: files and directories on a block device that can fail any    *)
(* write, and on a machine that can lose its power between two of them.    *)
(*                                                                         *)
(* A call of the file system runs to its end before the next begins, but   *)
(* every disk write is a step of its own: todo holds the disk writes (and  *)
(* allocations) the call still has to make, call its local variables.  A   *)
(* failed write changes nothing on the disk and takes the error path.      *)
(* Bytes are numbers: the byte written at offset o of inode f is           *)
(* ByteOf(f, o); smaller numbers in a pointer table are block numbers.     *)
(***************************************************************************)
EXTENDS Integers, Sequences, FiniteSets, SequencesExt, FiniteSetsExt

CONSTANTS
    Direct,        \* direct pointers of an inode (12 in the code)
    BlockSize,     \* bytes, and table entries, in a block
    BlocksPerGroup, Groups,
    InodesPerGroup, \* inode 1 is the root directory
    DirSize,       \* units of four bytes in a directory block
    NameSize,      \* name -> units of its directory entry
    MaxRun,        \* EXT2_MAX_READ_RUN_BLOCKS
    Fd             \* descriptors KERNEL_FD_FIRST .. KERNEL_FD_MAX - 1

Name  == DOMAIN NameSize
Block == 1..(BlocksPerGroup * Groups)
Group == 0..(Groups - 1)
Inode == 1..(InodesPerGroup * Groups)
root  == 1
Slot  == 0..(Direct + 1)     \* inode.block[]: direct, single (12), double (13)
Single == Direct
Double == Direct + 1
Index == 0..(BlockSize - 1)
GroupOf(b)  == (b - 1) \div BlocksPerGroup
InGroup(g)  == {b \in Block : GroupOf(b) = g}
IGroupOf(i) == (i - 1) \div InodesPerGroup
U16(n) == n % 65536
MaxBlocks == Direct + BlockSize + BlockSize * BlockSize
ByteOf(f, o) == 100 * f + o + 100

ASSUME Ext2Assumption ==
    /\ Direct \in Nat \ {0} /\ BlockSize \in Nat \ {0} /\ MaxRun \in Nat \ {0}
    /\ Max(Block) < ByteOf(root, 0)
    /\ \A n \in Name : NameSize[n] \in 1..DirSize

VARIABLES
    disk,     \* what the device holds
    super,    \* fs->superblock: the free counts in memory
    file,     \* fd_table: an open file with its vnode, or NoFile
    call,     \* the running call and its local variables
    ctx,      \* its ext2_allocation_context_t
    todo,     \* what it has still to do
    spoiled   \* history: a case the code leaves inconsistent has happened

Zeros == [i \in Index |-> 0]
NoInode == [type |-> "none", size |-> 0, links |-> 0, block |-> [s \in Slot |-> 0]]
NoCache == [single |-> 0, sdirty |-> FALSE, stable |-> Zeros,
            rootb |-> 0, rdirty |-> FALSE, rtable |-> Zeros,
            leaf |-> 0, ldirty |-> FALSE, ltable |-> Zeros]
NoFile == [ino |-> 0, inode |-> NoInode, cache |-> NoCache, off |-> 0,
           flags |-> {}, size |-> 0, old |-> FALSE]
NoCtx  == [loaded |-> FALSE, group |-> 0, count |-> 0, used |-> {}, dirty |-> FALSE,
           n |-> 0, exposed |-> FALSE]
NoCall == [op |-> "none", fd |-> 0, ino |-> 0, dir |-> 0, name |-> "", pos |-> 0,
           end |-> 0, fresh |-> FALSE, block |-> 0, flags |-> {}]
Entry(i, len, name) == [ino |-> i, len |-> len, name |-> name]
F(op, a) == [op |-> op, a |-> a]

Doing(op) == todo # <<>> /\ Head(todo).op = op
Arg == Head(todo).a
Rest == todo' = Tail(todo)

\* ext2_mount: the superblock is read; nothing is open.
ext2_mount(d) ==
    /\ super' = [free |-> d.sfree, ifree |-> d.sifree]
    /\ file' = [fd \in Fd |-> NoFile]
    /\ call' = NoCall /\ ctx' = NoCtx /\ todo' = <<>>

-----------------------------------------------------------------------------
(* Directories                                                             *)

ext2_directory_entry_size(name) == NameSize[name]

\* The directory block of an inode, as a sequence of entries.
Entries(d, i) == d.blk[d.inode[i].block[0]]

\* ext2_lookup in one directory: 0 when there is no such entry.
ext2_lookup(d, i, name) ==
    LET at == {k \in DOMAIN Entries(d, i) : /\ Entries(d, i)[k].ino # 0
                                            /\ Entries(d, i)[k].name = name}
    IN  IF d.inode[i].type # "dir" \/ at = {} THEN 0 ELSE Entries(d, i)[Min(at)].ino

\* Where ext2_link_new_child can put an entry: an unused record that is long
\* enough, or the slack behind a live one.
UnusedFits(e, name) == e.ino = 0 /\ e.len >= ext2_directory_entry_size(name)
Slack(e) == e.len - ext2_directory_entry_size(e.name)
SlackFits(e, name) == e.ino # 0 /\ Slack(e) >= ext2_directory_entry_size(name)
Places(es, name) == {k \in DOMAIN es : UnusedFits(es[k], name) \/ SlackFits(es[k], name)}

\* The directory block with the new entry at the first such place.
TakeRecord(es, k, name, i) == [es EXCEPT ![k] = Entry(i, es[k].len, name)]
SplitSlack(es, k, name, i) ==
    LET e == es[k]
        actual == ext2_directory_entry_size(e.name)
    IN  SubSeq(es, 1, k - 1)
          \o <<[e EXCEPT !.len = actual], Entry(i, e.len - actual, name)>>
          \o SubSeq(es, k + 1, Len(es))
Linked(es, name, i) ==
    LET k == Min(Places(es, name))
    IN  IF es[k].ino = 0 THEN TakeRecord(es, k, name, i) ELSE SplitSlack(es, k, name, i)

\* ext2_vnode_readdir: the first live entry at or after an offset, and the
\* offset behind it; at the end the offset is the size of the directory.
Offset(es, k) == FoldSeq(LAMBDA e, n : e.len + n, 0, SubSeq(es, 1, k - 1))
ext2_vnode_readdir(d, i, off) ==
    LET es == Entries(d, i)
        live == {k \in DOMAIN es : es[k].ino # 0 /\ Offset(es, k) >= off}
    IN  IF live = {} THEN [ino |-> 0, next |-> DirSize]
        ELSE [ino |-> es[Min(live)].ino, next |-> Offset(es, Min(live) + 1)]

-----------------------------------------------------------------------------
(* Blocks of a file                                                        *)

\* Which pointer names a logical block.
Place(lb) ==
    LET s == lb - Direct
        t == s - BlockSize
    IN  IF lb < Direct THEN [kind |-> "direct", i |-> lb, j |-> 0]
        ELSE IF s < BlockSize THEN [kind |-> "single", i |-> s, j |-> 0]
        ELSE [kind |-> "double", i |-> t \div BlockSize, j |-> t % BlockSize]

\* The cache after ext2_get_data_block has read the tables it needs.  A leaf
\* is read over the one in the cache, and over its dirty flag, unconditionally.
ReadSingle(d, c, b) ==
    IF b = 0 \/ c.single = b THEN c ELSE [c EXCEPT !.single = b, !.stable = d.blk[b]]
ReadRoot(d, c, b) ==
    IF b = 0 \/ c.rootb = b THEN c
    ELSE [c EXCEPT !.rootb = b, !.rtable = d.blk[b], !.leaf = 0]
ReadLeaf(d, c, b) ==
    IF b = 0 \/ c.leaf = b THEN c ELSE [c EXCEPT !.leaf = b, !.ltable = d.blk[b]]
CacheFor(d, n, c, lb) ==
    LET p == Place(lb)
        r == ReadRoot(d, c, n.block[Double])
    IN  CASE p.kind = "direct" -> c
          [] p.kind = "single" -> ReadSingle(d, c, n.block[Single])
          [] OTHER -> IF n.block[Double] = 0 THEN c ELSE ReadLeaf(d, r, r.rtable[p.i])

\* ext2_get_data_block, once the cache is that of CacheFor: 0 is no block.
BlockAt(n, c, lb) ==
    LET p == Place(lb)
    IN  CASE p.kind = "direct" -> n.block[p.i]
          [] p.kind = "single" -> IF n.block[Single] = 0 THEN 0 ELSE c.stable[p.i]
          [] OTHER -> IF n.block[Double] = 0 \/ c.rtable[p.i] = 0 THEN 0
                      ELSE c.ltable[p.j]
ext2_get_data_block(d, n, c, lb) == BlockAt(n, CacheFor(d, n, c, lb), lb)

\* ext2_read_file_cached: whole blocks are read in runs of neighbours, the
\* rest block by block; a missing block ends the file.
AnyRun(d, n, c, lb, max) == max
RunLength(d, n, c, lb, max) ==
    LET first == ext2_get_data_block(d, n, c, lb)
        joins(k) == ext2_get_data_block(d, n, c, lb + k) = first + k
        stops == {k \in 1..(max - 1) : ~joins(k)}
    IN  IF stops = {} THEN max ELSE Min(stops)
ReadChunk(d, n, c, off, wanted) ==
    LET lb == off \div BlockSize
        at == off % BlockSize
        b == ext2_get_data_block(d, n, c, lb)
        whole == at = 0 /\ wanted >= BlockSize
        blocks == Min({wanted \div BlockSize, MaxRun})
        run == RunLength(d, n, c, lb, blocks)
        count == IF whole THEN run * BlockSize ELSE Min({BlockSize - at, wanted})
    IN  [k \in 1..count |-> d.blk[b + (at + k - 1) \div BlockSize][(at + k - 1) % BlockSize]]
ext2_read_file_cached(d, n, c, off, size) ==
    LET wanted == IF off >= n.size THEN 0 ELSE Min({size, n.size - off})
        read[o \in off..(off + wanted)] ==
            IF o = off + wanted \/ ext2_get_data_block(d, n, c, o \div BlockSize) = 0
              THEN <<>>
              ELSE LET chunk == ReadChunk(d, n, c, o, off + wanted - o)
                   IN  chunk \o read[o + Len(chunk)]
    IN  read[off]

-----------------------------------------------------------------------------
(* Allocating and freeing blocks                                           *)

View(g) == IF ctx.loaded /\ ctx.group = g
             THEN [count |-> ctx.count, used |-> ctx.used]
             ELSE [count |-> disk.gfree[g], used |-> disk.used \cap InGroup(g)]
FreeIn(g) == InGroup(g) \ View(g).used
Usable(g) == /\ FreeIn(g) # {}
             /\ (ctx.loaded /\ ctx.group = g) \/ View(g).count # 0

\* The loop over the groups flushes the loaded group before it leaves it.
MustFlush == ctx.dirty /\ ~(ctx.group = 0 /\ FreeIn(0) # {})
Flush == IF ctx.loaded /\ ctx.dirty THEN <<F("bitmap", 0), F("descriptor", 0)>> ELSE <<>>

\* ext2_allocate_block, the group flushed: the lowest free bit of the first
\* group whose descriptor counts a free block.
CanAllocate == super.free # 0 /\ \E g \in Group : Usable(g)
NewGroup == Min({g \in Group : Usable(g)})
NewBlock == Min(FreeIn(NewGroup))
Allocate ==
    /\ ctx' = [ctx EXCEPT !.loaded = TRUE, !.group = NewGroup,
                          !.count = U16(View(NewGroup).count - 1 + 65536),
                          !.used = View(NewGroup).used \cup {NewBlock},
                          !.dirty = TRUE, !.n = @ + 1]
    /\ super' = [super EXCEPT !.free = @ - 1]

\* ext2_free_block: bitmap, descriptor, superblock, each written at once.
FreeBlock(b) == <<F("free_bit", b), F("free_count", b), F("super", 0)>>

\* ext2_flush_allocation_context
WriteBitmap ==
    /\ Doing("bitmap")
    /\ disk' = [disk EXCEPT !.used = (@ \ InGroup(ctx.group)) \cup ctx.used]
    /\ Rest
    /\ UNCHANGED <<super, file, call, ctx, spoiled>>
WriteDescriptor ==
    /\ Doing("descriptor")
    /\ disk' = [disk EXCEPT !.gfree[ctx.group] = ctx.count]
    /\ ctx' = [ctx EXCEPT !.dirty = FALSE]
    /\ Rest
    /\ UNCHANGED <<super, file, call, spoiled>>
\* ext2_write_superblock
WriteSuper ==
    /\ Doing("super")
    /\ disk' = [disk EXCEPT !.sfree = super.free, !.sifree = super.ifree]
    /\ Rest
    /\ UNCHANGED <<super, file, call, ctx, spoiled>>

FreeBit ==
    /\ Doing("free_bit") /\ Arg \in disk.used
    /\ disk' = [disk EXCEPT !.used = @ \ {Arg}]
    /\ ctx' = [ctx EXCEPT !.exposed = TRUE]
    /\ Rest
    /\ UNCHANGED <<super, file, call, spoiled>>
FreeCount ==
    /\ Doing("free_count")
    /\ disk' = [disk EXCEPT !.gfree[GroupOf(Arg)] = U16(@ + 1)]
    /\ super' = [super EXCEPT !.free = @ + 1]
    /\ Rest
    /\ UNCHANGED <<file, call, ctx, spoiled>>

-----------------------------------------------------------------------------
(* ext2_vnode_write                                                        *)

Here == file[call.fd]
Return == todo' = <<>> /\ call' = NoCall /\ ctx' = NoCtx

\* What is missing before the logical block at call.pos can be written.
Missing ==
    LET p == Place(call.pos \div BlockSize)
        n == Here.inode
        c == Here.cache
    IN  CASE p.kind = "direct" /\ n.block[p.i] = 0          -> "direct"
          [] p.kind = "single" /\ n.block[Single] = 0       -> "single"
          [] p.kind = "single" /\ n.block[Single] # 0
                               /\ c.stable[p.i] = 0         -> "sdata"
          [] p.kind = "double" /\ n.block[Double] = 0       -> "root"
          [] p.kind = "double" /\ n.block[Double] # 0
                               /\ c.rtable[p.i] = 0         -> "leaf"
          [] p.kind = "double" /\ n.block[Double] # 0
                               /\ c.rtable[p.i] # 0
                               /\ c.ltable[p.j] = 0         -> "ldata"
          [] OTHER                                          -> "nothing"

\* ext2_get_or_allocate_data_block with the new block b in the missing place.
\* A new table is only in memory.
WithBlock(f, what, b) ==
    LET p == Place(call.pos \div BlockSize)
    IN  CASE what = "direct" -> [f EXCEPT !.inode.block[p.i] = b]
          [] what = "single" -> [f EXCEPT !.inode.block[Single] = b, !.cache.single = b,
                                          !.cache.stable = Zeros, !.cache.sdirty = TRUE]
          [] what = "sdata"  -> [f EXCEPT !.cache.stable[p.i] = b, !.cache.sdirty = TRUE]
          [] what = "root"   -> [f EXCEPT !.inode.block[Double] = b, !.cache.rootb = b,
                                          !.cache.rtable = Zeros, !.cache.rdirty = TRUE,
                                          !.cache.leaf = 0, !.cache.ldirty = FALSE]
          [] what = "leaf"   -> [f EXCEPT !.cache.rtable[p.i] = b, !.cache.rdirty = TRUE,
                                          !.cache.leaf = b, !.cache.ltable = Zeros,
                                          !.cache.ldirty = TRUE]
          [] what = "ldata"  -> [f EXCEPT !.cache.ltable[p.j] = b, !.cache.ldirty = TRUE]

\* ext2_flush_block_cache: the tables that were changed in memory.
DirtyTables(c) ==
       (IF c.single # 0 /\ c.sdirty THEN <<F("single", 0)>> ELSE <<>>)
    \o (IF c.leaf # 0 /\ c.ldirty THEN <<F("leaf", 0)>> ELSE <<>>)
    \o (IF c.rootb # 0 /\ c.rdirty THEN <<F("root", 0)>> ELSE <<>>)

\* The commit phase: tables, bitmap and descriptor, superblock, inode.
CommitInodeFirst(f) == <<F("inode", 0)>> \o DirtyTables(f.cache) \o Flush
                         \o (IF ctx.n > 0 THEN <<F("super", 0)>> ELSE <<>>)
                         \o <<F("written", 0)>>
CommitAllocations(f) == DirtyTables(f.cache) \o Flush
                          \o (IF ctx.n > 0 THEN <<F("super", 0), F("inode", 0)>> ELSE <<>>)
                          \o <<F("written", 0)>>
Commit(f) == DirtyTables(f.cache) \o Flush
               \o (IF ctx.n > 0 THEN <<F("super", 0)>> ELSE <<>>)
               \o <<F("inode", 0), F("written", 0)>>

\* The head of the loop: where the next bytes go, if they have a block yet.
Locate ==
    LET lb == call.pos \div BlockSize
        c  == CacheFor(disk, Here.inode, Here.cache, lb)
    IN  /\ Doing("locate")
        /\ IF call.pos < call.end
             THEN /\ file' = [file EXCEPT ![call.fd].cache = c]
                  /\ call' = [call EXCEPT !.fresh = BlockAt(Here.inode, c, lb) = 0]
                  /\ todo' = <<F("allocate", 0)>>
             ELSE /\ file' = [file EXCEPT ![call.fd].inode.size = Max({@, call.end})]
                  /\ todo' = Commit(Here)
                  /\ UNCHANGED call
        /\ UNCHANGED <<disk, super, ctx, spoiled>>

\* A dirty leaf is written before another leaf takes its place in the cache.
LeafFirst == Missing = "leaf" /\ Here.cache.leaf # 0 /\ Here.cache.ldirty
Wants == \/ Doing("allocate") /\ Missing # "nothing" /\ ~LeafFirst
         \/ Doing("allocate_dir")
GetBlock ==
    /\ Doing("allocate") /\ Missing = "nothing"
    /\ todo' = <<F("put", ext2_get_data_block(disk, Here.inode, Here.cache,
                                              call.pos \div BlockSize))>>
    /\ UNCHANGED <<disk, super, file, call, ctx, spoiled>>
FlushLeaf ==
    /\ Doing("allocate") /\ LeafFirst
    /\ todo' = <<F("leaf", 0)>> \o todo
    /\ UNCHANGED <<disk, super, file, call, ctx, spoiled>>
FlushGroup ==
    /\ Wants /\ super.free # 0 /\ MustFlush
    /\ todo' = Flush \o todo
    /\ UNCHANGED <<disk, super, file, call, ctx, spoiled>>
AllocateBlock ==
    /\ Wants /\ CanAllocate /\ ~MustFlush
    /\ Allocate
    /\ IF Doing("allocate")
         THEN /\ file' = [file EXCEPT ![call.fd] = WithBlock(@, Missing, NewBlock)]
              /\ UNCHANGED <<call, todo>>
         ELSE call' = [call EXCEPT !.block = NewBlock] /\ Rest /\ UNCHANGED file
    /\ UNCHANGED <<disk, spoiled>>

\* ext2_write_block of whole or part of a block; what is not written of a new
\* block is zero.
Chunk == Min({BlockSize - (call.pos % BlockSize), call.end - call.pos})
WrittenBlock(b) ==
    LET at == call.pos % BlockSize
        base == call.pos - at
    IN  [i \in Index |->
           IF i \in at..(at + Chunk - 1) THEN ByteOf(Here.ino, base + i)
           ELSE IF call.fresh THEN 0 ELSE disk.blk[b][i]]
PutBlock ==
    /\ Doing("put")
    /\ disk' = [disk EXCEPT !.blk[Arg] = WrittenBlock(Arg)]
    /\ call' = [call EXCEPT !.pos = @ + Chunk]
    /\ todo' = <<F("locate", 0)>>
    /\ UNCHANGED <<super, file, ctx, spoiled>>

\* A pointer table goes to the disk.
TableBlock(t) == CASE t = "single" -> Here.cache.single
                   [] t = "leaf"   -> Here.cache.leaf
                   [] t = "root"   -> Here.cache.rootb
TableOf(t) == CASE t = "single" -> Here.cache.stable
                [] t = "leaf"   -> Here.cache.ltable
                [] t = "root"   -> Here.cache.rtable
Clean(c, t) == CASE t = "single" -> [c EXCEPT !.sdirty = FALSE]
                 [] t = "leaf"   -> [c EXCEPT !.ldirty = FALSE]
                 [] t = "root"   -> [c EXCEPT !.rdirty = FALSE]
WriteTable ==
    \E t \in {"single", "leaf", "root"} :
        /\ Doing(t)
        /\ disk' = [disk EXCEPT !.blk[TableBlock(t)] = TableOf(t)]
        /\ file' = [file EXCEPT ![call.fd].cache = Clean(@, t)]
        /\ ctx' = [ctx EXCEPT !.exposed = @ \/ TableBlock(t) \in disk.used]
        /\ Rest
        /\ UNCHANGED <<super, call, spoiled>>

\* ext2_write_inode at the end, and what vfs_write does with the result.
WriteInode ==
    /\ Doing("inode")
    /\ disk' = [disk EXCEPT !.inode[Here.ino] = Here.inode]
    /\ Rest
    /\ UNCHANGED <<super, file, call, ctx, spoiled>>
Written ==
    /\ Doing("written")
    /\ file' = [file EXCEPT ![call.fd].size = Here.inode.size, ![call.fd].off = call.end]
    /\ Return
    /\ UNCHANGED <<disk, super, spoiled>>

-----------------------------------------------------------------------------
(* ext2_vnode_truncate, of a vnode that vfs_open has just read             *)

Live(seq) == SelectSeq(seq, LAMBDA b : b # 0)
TableSeq(d, b) == [k \in 1..BlockSize |-> d.blk[b][k - 1]]
LeafBlocks(d, b) == Live(TableSeq(d, b)) \o <<b>>
SingleBlocks(d, n) == IF n.block[Single] = 0 THEN <<>>
                      ELSE Live(TableSeq(d, n.block[Single])) \o <<n.block[Single]>>
DoubleBlocks(d, n) ==
    IF n.block[Double] = 0 THEN <<>>
    ELSE FlattenSeq([k \in 1..Len(Live(TableSeq(d, n.block[Double]))) |->
                       LeafBlocks(d, Live(TableSeq(d, n.block[Double]))[k])])
           \o <<n.block[Double]>>
DirectBlocks(n) == Live([k \in 1..Direct |-> n.block[k - 1]])

\* The order in which its blocks are freed; the inode is written last.
Truncation(d, i) ==
    LET n == d.inode[i]
        bs == DirectBlocks(n) \o SingleBlocks(d, n) \o DoubleBlocks(d, n)
    IN  FlattenSeq([k \in 1..Len(bs) |-> FreeBlock(bs[k])]) \o <<F("truncated", i)>>
WriteTruncated ==
    /\ Doing("truncated")
    /\ disk' = [disk EXCEPT !.inode[Arg].size = 0, !.inode[Arg].block = [s \in Slot |-> 0]]
    /\ ctx' = NoCtx
    /\ Rest
    /\ UNCHANGED <<super, file, call, spoiled>>

-----------------------------------------------------------------------------
(* ext2_vnode_create and ext2_vnode_mkdir                                  *)

\* ext2_allocate_inode_with_mode: the lowest free inode of the first group
\* that counts one.  The inode is written before its bit.
FreeInodes(d) == {i \in Inode : /\ i # root /\ i \notin d.iused
                                /\ d.gifree[IGroupOf(i)] # 0}
CanCreate == super.ifree # 0 /\ FreeInodes(disk) # {}
NewInode == Min(FreeInodes(disk))
AllocateInode(i, type) == <<F("new_inode", type), F("inode_bit", i),
                            F("inode_count", i), F("super", 0)>>
InitializeInode ==
    /\ Doing("new_inode")
    /\ disk' = [disk EXCEPT !.inode[call.ino] = [NoInode EXCEPT !.type = Arg]]
    /\ Rest
    /\ UNCHANGED <<super, file, call, ctx, spoiled>>
InodeBit ==
    /\ Doing("inode_bit")
    /\ disk' = [disk EXCEPT !.iused = @ \cup {Arg}]
    /\ Rest
    /\ UNCHANGED <<super, file, call, ctx, spoiled>>
InodeCount ==
    /\ Doing("inode_count")
    /\ disk' = [disk EXCEPT !.gifree[IGroupOf(Arg)] = @ - 1]
    /\ super' = [super EXCEPT !.ifree = @ - 1]
    /\ Rest
    /\ UNCHANGED <<file, call, ctx, spoiled>>

\* ext2_link_new_child: the child's links, for a directory the parent's, then
\* the entry that makes the child visible.
LinkNewChild(links) == <<F("link", links)>>
CanLink == /\ disk.inode[call.dir].type = "dir"
           /\ disk.inode[call.ino].links = 0
           /\ ext2_lookup(disk, call.dir, call.name) = 0
           /\ Places(Entries(disk, call.dir), call.name) # {}
EntryFirst(links) ==
    <<F("entry", 0), F("child", links)>>
      \o (IF call.op = "mkdir" THEN <<F("parent", 1)>> ELSE <<>>)
LinkSteps(links) ==
    <<F("child", links)>> \o (IF call.op = "mkdir" THEN <<F("parent", 1)>> ELSE <<>>)
      \o <<F("entry", 0)>>
Link ==
    /\ Doing("link") /\ CanLink
    /\ todo' = LinkSteps(Arg) \o Tail(todo)
    /\ UNCHANGED <<disk, super, file, call, ctx, spoiled>>
LinkChild ==
    /\ Doing("child") \/ Doing("unchild")
    /\ disk' = [disk EXCEPT !.inode[call.ino].links = Arg]
    /\ Rest
    /\ UNCHANGED <<super, file, call, ctx, spoiled>>
LinkParent ==
    /\ Doing("parent") \/ Doing("unparent")
    /\ disk' = [disk EXCEPT !.inode[call.dir].links = @ + Arg]
    /\ Rest
    /\ UNCHANGED <<super, file, call, ctx, spoiled>>
LinkEntry ==
    /\ Doing("entry")
    /\ disk' = [disk EXCEPT !.blk[disk.inode[call.dir].block[0]] =
                               Linked(@, call.name, call.ino)]
    /\ Rest
    /\ UNCHANGED <<super, file, call, ctx, spoiled>>

\* ext2_vnode_mkdir, after the inode: a block, on the disk as used; its two
\* entries; the inode; the count of directories; the link.
MakeDirectory(i) ==
    AllocateInode(i, "dir") \o <<F("allocate_dir", 0), F("flush_dir", 0)>>
FlushDirectory ==
    /\ Doing("flush_dir")
    /\ todo' = Flush \o <<F("super", 0), F("dots", 0), F("dir_inode", 0), F("dirs", 1)>>
                 \o LinkNewChild(2) \o Tail(todo)
    /\ UNCHANGED <<disk, super, file, call, ctx, spoiled>>
WriteDots ==
    LET dot == NameSize["."]
    IN  /\ Doing("dots")
        /\ disk' = [disk EXCEPT !.blk[call.block] =
                      <<Entry(call.ino, dot, "."), Entry(call.dir, DirSize - dot, "..")>>]
        /\ Rest
        /\ UNCHANGED <<super, file, call, ctx, spoiled>>
WriteDirInode ==
    /\ Doing("dir_inode")
    /\ disk' = [disk EXCEPT !.inode[call.ino] =
                  [@ EXCEPT !.size = DirSize, !.links = 0, !.block[0] = call.block]]
    /\ Rest
    /\ UNCHANGED <<super, file, call, ctx, spoiled>>
CountDirectory ==
    /\ Doing("dirs") \/ Doing("undirs")
    /\ disk' = [disk EXCEPT !.gdirs[IGroupOf(call.ino)] = U16(@ + Arg)]
    /\ Rest
    /\ UNCHANGED <<super, file, call, ctx, spoiled>>

-----------------------------------------------------------------------------
(* Errors and crashes                                                      *)

\* The error paths: what is undone, and in which order.
UndoDirs == IF call.op = "mkdir" THEN <<F("undirs", -1)>> ELSE <<>>
ErrorPath(op) ==
    CASE op \in {"dots", "dir_inode"} -> FreeBlock(call.block)
      [] op \in {"link", "child"}     -> UndoDirs
      [] op = "parent"                -> <<F("unchild", 0)>> \o UndoDirs
      [] op = "entry" -> (IF call.op = "mkdir" THEN <<F("unparent", -1)>> ELSE <<>>)
                           \o <<F("unchild", 0)>> \o UndoDirs
      [] op \in {"unchild", "unparent", "undirs"} -> SelectSeq(Tail(todo),
                                                       LAMBDA f : f.op # "returned")
      [] OTHER                        -> <<>>

\* The three ways to leave the disk or a vnode inconsistent: an interrupted
\* write has allocated blocks or written pointers to blocks whose bits are not
\* set; a truncation has freed blocks of a live inode; a free bit is not counted.
Exposed == \/ ctx.exposed /\ (ctx.dirty \/ call.op = "open")
           \/ Doing("free_count")

Abort ==
    /\ spoiled' = (spoiled \/ Exposed \/ (call.op = "write" /\ ctx.n > 0))
    /\ IF ErrorPath(Head(todo).op) = <<>>
         THEN Return
         ELSE /\ todo' = ErrorPath(Head(todo).op) \o <<F("returned", 0)>>
              /\ UNCHANGED <<call, ctx>>
    /\ UNCHANGED <<disk, super, file>>

\* The device refuses a read or a write.
Fail == todo # <<>> /\ Head(todo).op \notin {"written", "opened", "returned"} /\ Abort
\* No block, no inode or no room is left, or a block is already free.
NoSpace == Wants /\ (super.free = 0 \/ (~MustFlush /\ ~CanAllocate)) /\ Abort
NoRoom == Doing("link") /\ ~CanLink /\ Abort
NotUsed == Doing("free_bit") /\ Arg \notin disk.used /\ Abort
Returned == Doing("returned") /\ Return /\ UNCHANGED <<disk, super, file, spoiled>>

\* The power goes, and the machine boots and mounts the disk as it is.
Crash ==
    /\ ext2_mount(disk)
    /\ spoiled' = (spoiled \/ Exposed)
    /\ UNCHANGED disk

Step == \/ WriteBitmap \/ WriteDescriptor \/ WriteSuper \/ FreeBit \/ FreeCount
        \/ Locate \/ GetBlock \/ FlushLeaf \/ FlushGroup \/ AllocateBlock \/ PutBlock
        \/ WriteTable \/ WriteInode \/ Written \/ WriteTruncated
        \/ InitializeInode \/ InodeBit \/ InodeCount
        \/ Link \/ LinkChild \/ LinkParent \/ LinkEntry
        \/ FlushDirectory \/ WriteDots \/ WriteDirInode \/ CountDirectory
        \/ NoSpace \/ NoRoom \/ NotUsed \/ Returned
=============================================================================
