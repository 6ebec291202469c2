------------------------------- MODULE Files --------------------------------
(***************************************************************************)
(* fs/vfs.c, fs/fd.c and the file calls of arch/i386/syscall.c over Ext2:  *)
(* paths, open files with their offsets, the descriptor table.  Every      *)
(* lookup makes a vnode of its own, so two descriptors of one file keep    *)
(* two copies of its inode; a copy that another descriptor has overtaken   *)
(* is marked old.                                                          *)
(***************************************************************************)
EXTENDS Ext2

CONSTANTS
    Path,        \* absolute paths the callers use: sequences of names
    OpenFlags,   \* sets of flags they open with
    Sizes,       \* lengths they read and write
    MaxCalls     \* bound: number of calls

VARIABLE calls

vars == <<disk, super, file, call, ctx, todo, spoiled, calls>>

FirstBlock == 1    \* the block of the root directory
\* A formatted disk: the root directory has its two entries and either slack
\* behind the second or an unused record.
Formatted(es) ==
    [used   |-> {FirstBlock},
     gfree  |-> [g \in Group |-> Cardinality(InGroup(g) \ {FirstBlock})],
     sfree  |-> Cardinality(Block) - 1,
     iused  |-> {root},
     gifree |-> [g \in Group |-> Cardinality({i \in Inode \ {root} : IGroupOf(i) = g})],
     sifree |-> Cardinality(Inode) - 1,
     gdirs  |-> [g \in Group |-> IF g = 0 THEN 1 ELSE 0],
     inode  |-> [i \in Inode |-> IF i # root THEN NoInode
                 ELSE [NoInode EXCEPT !.type = "dir", !.size = DirSize, !.links = 2,
                                      !.block[0] = FirstBlock]],
     blk    |-> [b \in Block |-> IF b = FirstBlock THEN es ELSE Zeros]]
Init ==
    LET d == NameSize["."]
    IN  /\ \E es \in {<<Entry(root, d, "."), Entry(root, DirSize - d, "..")>>,
                      <<Entry(root, d, "."), Entry(root, d, ".."),
                        Entry(0, DirSize - 2 * d, "")>>} : disk = Formatted(es)
        /\ super = [free |-> disk.sfree, ifree |-> disk.sifree]
        /\ file = [fd \in Fd |-> NoFile]
        /\ call = NoCall /\ ctx = NoCtx /\ todo = <<>>
        /\ spoiled = FALSE /\ calls = 0

-----------------------------------------------------------------------------
Ready == todo = <<>> /\ calls < MaxCalls
Open(fd) == file[fd].ino # 0
Begin == calls' = calls + 1

\* vfs_lookup and vfs_lookup_parent: component by component from the root; 0
\* when a component is missing or is not a directory.
vfs_lookup(path) ==
    FoldLeft(LAMBDA i, name : IF i = 0 THEN 0 ELSE ext2_lookup(disk, i, name), root, path)
vfs_lookup_parent(path) == vfs_lookup(Front(path))
IsDirectory(i) == i # 0 /\ disk.inode[i].type = "dir"

\* kernel_fd_open: append, create and truncate ask for write.
FlagsValid(fs) == fs # {} /\ ({"append", "create", "trunc"} \cap fs # {} => "write" \in fs)
\* vfs_open: a directory can only be read.
NodeAllows(i, fs) == IsDirectory(i) => fs = {"read"}

\* A vnode that modifies the file makes the other copies of its inode old.
Overtaken(i, keep) ==
    [fd \in Fd |-> IF file[fd].ino = i /\ fd # keep
                     THEN [file[fd] EXCEPT !.old = TRUE] ELSE file[fd]]

\* Truncation by vfs_open, if asked for.
Truncating(i, fs) == IF "trunc" \in fs THEN Truncation(disk, i) ELSE <<>>

OpenExisting(path, fs) ==
    LET i == vfs_lookup(path)
    IN  /\ Ready /\ FlagsValid(fs) /\ i # 0 /\ NodeAllows(i, fs)
        /\ todo' = Truncating(i, fs) \o <<F("opened", 0)>>
        /\ call' = [NoCall EXCEPT !.op = "open", !.ino = i, !.flags = fs]
        /\ file' = IF "trunc" \in fs THEN Overtaken(i, 0) ELSE file
        /\ Begin
        /\ UNCHANGED <<disk, super, ctx, spoiled>>

\* The file is not there: ext2_vnode_create in the parent directory.
OpenCreate(path, fs) ==
    LET q == vfs_lookup_parent(path)
        i == NewInode
    IN  /\ Ready /\ FlagsValid(fs) /\ vfs_lookup(path) = 0 /\ "create" \in fs
        /\ IsDirectory(q) /\ CanCreate
        /\ todo' = AllocateInode(i, "file") \o LinkNewChild(1)
                     \o (IF "trunc" \in fs THEN <<F("truncated", i)>> ELSE <<>>)
                     \o <<F("opened", 0)>>
        /\ call' = [NoCall EXCEPT !.op = "open", !.ino = i, !.flags = fs, !.dir = q,
                                  !.name = Last(path)]
        /\ Begin
        /\ UNCHANGED <<disk, super, file, ctx, spoiled>>

\* The end of kernel_fd_open: the lowest free descriptor, or none (the file
\* stays created or truncated).
FreeFds == {fd \in Fd : ~Open(fd)}
Opened ==
    LET n == disk.inode[call.ino]
    IN  /\ Doing("opened")
        /\ file' = IF FreeFds = {} THEN file
                   ELSE [file EXCEPT ![Min(FreeFds)] =
                           [NoFile EXCEPT !.ino = call.ino, !.inode = n, !.size = n.size,
                                          !.flags = call.flags]]
        /\ Return
        /\ UNCHANGED <<disk, super, spoiled, calls>>

\* kernel_fd_close
kernel_fd_close(fd) ==
    /\ Ready /\ Open(fd)
    /\ file' = [file EXCEPT ![fd] = NoFile]
    /\ Begin
    /\ UNCHANGED <<disk, super, call, ctx, todo, spoiled>>

\* vfs_write: an appending file writes at its end.  The early returns of
\* ext2_vnode_write (a gap, a file that would be too large) change nothing.
WriteAt(fd) == IF "append" \in file[fd].flags THEN file[fd].size ELSE file[fd].off
ext2_vnode_write(n, off, size) == off <= n.size /\ off + size <= MaxBlocks * BlockSize
kernel_fd_write(fd, n) ==
    LET off == WriteAt(fd)
    IN  /\ Ready /\ Open(fd) /\ "write" \in file[fd].flags
        /\ ext2_vnode_write(file[fd].inode, off, n)
        /\ file' = [Overtaken(file[fd].ino, fd) EXCEPT ![fd].off = off]
        /\ call' = [NoCall EXCEPT !.op = "write", !.fd = fd, !.pos = off, !.end = off + n]
        /\ todo' = <<F("locate", 0)>>
        /\ spoiled' = (spoiled \/ file[fd].old)
        /\ Begin
        /\ UNCHANGED <<disk, super, ctx>>

\* vfs_read of a regular file: the tables it walks stay in the cache.  (What an
\* old vnode reads is whatever the disk now has there, and not modelled.)
LastBlock(f, n) == (Min({f.off + n, f.inode.size}) - 1) \div BlockSize
ext2_vnode_read(f, n) ==
    FoldLeft(LAMBDA c, lb : CacheFor(disk, f.inode, c, lb), f.cache,
             [k \in 1..(LastBlock(f, n) - f.off \div BlockSize + 1) |->
                f.off \div BlockSize + k - 1])
kernel_fd_read(fd, n) ==
    LET f == file[fd]
        got == ext2_read_file_cached(disk, f.inode, f.cache, f.off, n)
    IN  /\ Ready /\ Open(fd) /\ "read" \in f.flags /\ f.inode.type = "file" /\ ~f.old
        /\ f.off < f.inode.size
        /\ file' = [file EXCEPT ![fd].off = @ + Len(got), ![fd].cache = ext2_vnode_read(f, n)]
        /\ Begin
        /\ UNCHANGED <<disk, super, call, ctx, todo, spoiled>>

\* vfs_readdir: the offset moves behind the entry that is returned.
kernel_fd_readdir(fd) ==
    /\ Ready /\ Open(fd) /\ "read" \in file[fd].flags /\ file[fd].inode.type = "dir"
    /\ file[fd].off < DirSize
    /\ file' = [file EXCEPT ![fd].off = ext2_vnode_readdir(disk, file[fd].ino, @).next]
    /\ Begin
    /\ UNCHANGED <<disk, super, call, ctx, todo, spoiled>>

\* kernel_fd_seek, SEEK_SET and SEEK_END: any position that is not negative.
kernel_fd_seek(fd, position) ==
    /\ Ready /\ Open(fd) /\ position >= 0
    /\ file' = [file EXCEPT ![fd].off = position]
    /\ Begin
    /\ UNCHANGED <<disk, super, call, ctx, todo, spoiled>>
Positions(fd) == {0, file[fd].size, file[fd].size - 1}

\* vfs_mkdir
vfs_mkdir(path) ==
    LET q == vfs_lookup_parent(path)
        i == NewInode
    IN  /\ Ready /\ vfs_lookup(path) = 0 /\ IsDirectory(q) /\ CanCreate
        /\ todo' = MakeDirectory(i) \o <<F("returned", 0)>>
        /\ call' = [NoCall EXCEPT !.op = "mkdir", !.ino = i, !.dir = q, !.name = Last(path)]
        /\ Begin
        /\ UNCHANGED <<disk, super, file, ctx, spoiled>>

Next ==
    \/ Step /\ UNCHANGED calls
    \/ Fail /\ UNCHANGED calls
    \/ Crash /\ UNCHANGED calls
    \/ Opened
    \/ \E path \in Path : vfs_mkdir(path) \/ \E fs \in OpenFlags : OpenExisting(path, fs)
                                                              \/ OpenCreate(path, fs)
    \/ \E fd \in Fd : \/ kernel_fd_close(fd) \/ kernel_fd_readdir(fd)
                      \/ \E n \in Sizes : kernel_fd_write(fd, n) \/ kernel_fd_read(fd, n)
                      \/ \E p \in Positions(fd) : kernel_fd_seek(fd, p)

Spec == Init /\ [][Next]_vars
-----------------------------------------------------------------------------
(* What the file system promises.  Nothing is asked once spoiled is true.  *)

Initialised(i) == i \in disk.iused /\ disk.inode[i].type # "none"
Regular(i) == Initialised(i) /\ disk.inode[i].type = "file"
BytesOf(i, from, to) == [k \in 1..(to - from) |-> ByteOf(i, from + k - 1)]

\* At every moment the power may go, and after any failed or interrupted call
\* but those that set spoiled (a write that had allocated, or had put a pointer
\* on the disk before the bit; a truncation or a freed block half done): reading
\* a file as a newly mounted system would (ext2_read_file_cached) gives, up to
\* the size in its inode, the bytes that were written.
FilesIntact ==
    ~spoiled => \A i \in Inode : Regular(i) =>
        LET n == disk.inode[i]
        IN  ext2_read_file_cached(disk, n, NoCache, 0, n.size) = BytesOf(i, 0, n.size)

\* What ext2_vnode_write has reported as written is on the disk, and an open
\* file reads it back through its own inode and its cached pointer tables.
HandlesCoherent ==
    (~spoiled /\ todo = <<>>) => \A fd \in Fd :
        LET f == file[fd]
        IN  (Open(fd) /\ ~f.old /\ f.inode.type = "file") =>
              /\ f.size <= disk.inode[f.ino].size
              /\ ext2_read_file_cached(disk, f.inode, f.cache, 0, f.inode.size)
                   = BytesOf(f.ino, 0, f.inode.size)

Owned(i) ==
    LET n == disk.inode[i]
    IN  IF ~Initialised(i) THEN <<>>
        ELSE DirectBlocks(n) \o SingleBlocks(disk, n) \o DoubleBlocks(disk, n)
AllOwned == FlattenSeq([i \in Inode |-> Owned(i)])
Loose(i) == Range(Owned(i)) \ disk.used
Named(i) == Range(disk.inode[i].block)

\* What may be loose in the middle of a call: a write has put a table on the
\* disk (ext2.c:3124) that names blocks whose bits are still in its allocation
\* context (ext2.c:3138); a truncation has freed blocks its inode still leads to.
Ahead(op) == {todo[k].a : k \in {j \in DOMAIN todo : todo[j].op = op}}
MayBeLoose(i) ==
    IF call.op = "write" /\ ctx.dirty /\ Here.ino = i THEN ctx.used \ Named(i)
    ELSE IF i \in Ahead("truncated") THEN Range(Owned(i)) \ Ahead("free_bit")
    ELSE {}
Uncounted(g) == Cardinality({b \in Ahead("free_count") \ Ahead("free_bit") : GroupOf(b) = g})

\* At every moment, not only between calls: no block is reached from two places
\* (ext2_allocate_block and ext2_free_block against the pointer tables); the
\* only inode that leads to a block not marked as used is that of the running
\* call, never through a pointer of the inode itself while it grows, and only to
\* blocks this call has taken or freed; and no descriptor counts less than its
\* bitmap has free but for the bit just cleared, so that no count wraps around.
\* Between calls nothing is loose.  The disk a power loss leaves is the disk of
\* that moment; what later calls make of a loss while a block is loose, or of a
\* failed write that had allocated, is not claimed (spoiled): NothingLoose is
\* false there.
BlocksOwned ==
    ~spoiled =>
        /\ IsInjective(AllOwned)
        /\ \A i \in Inode : Loose(i) \subseteq MayBeLoose(i)
        /\ \A g \in Group : disk.gfree[g] + Uncounted(g) \in
              Cardinality(InGroup(g) \ disk.used)..BlocksPerGroup

\* What the order of ext2_vnode_mkdir is for ("Persist the allocation before
\* exposing the block through the inode", ext2.c:3855), asked of every call and
\* after every power loss: whenever no call is running, the blocks an inode
\* leads to are marked as used.  It is false: see MCFilesLoose.cfg.
NothingLoose == todo = <<>> => \A i \in Inode : Loose(i) = {}

\* At every moment, crashes included: the entries of a directory fill its block,
\* no name occurs twice, and an entry leads to an inode that is allocated, has a
\* link, and is entered in no other place; a directory's block names itself and
\* its parent (ext2_link_new_child, ext2_vnode_mkdir).
Children(i) == {k \in DOMAIN Entries(disk, i) :
                  Entries(disk, i)[k].ino # 0 /\ Entries(disk, i)[k].name \notin {".", ".."}}
Directory(i) == Initialised(i) /\ disk.inode[i].type = "dir" /\ disk.inode[i].block[0] # 0
DirectoriesSound ==
    ~spoiled => \A i \in Inode : Directory(i) =>
        LET es == Entries(disk, i)
        IN  /\ Offset(es, Len(es) + 1) = DirSize
            /\ \A j, k \in DOMAIN es : es[j].name = es[k].name => j = k
            /\ es[1].ino = i /\ es[1].name = "." /\ es[2].name = ".."
            /\ \A k \in Children(i) :
                 /\ Initialised(es[k].ino) /\ disk.inode[es[k].ino].links > 0
                 /\ disk.inode[es[k].ino].type = "dir"
                      => Directory(es[k].ino) /\ Entries(disk, es[k].ino)[2].ino = i
                 /\ \A j \in Inode : Directory(j) => \A l \in Children(j) :
                      Entries(disk, j)[l].ino = es[k].ino => j = i /\ l = k

=============================================================================
