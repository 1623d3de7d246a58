----------------------------- MODULE FileSystem -----------------------------
(***************************************************************************)
(* The file system of src/fs (fs.c, file.c, dir.c, inode.c): bitmaps,      *)
(* inodes, directories, the list of open inodes and the file table.        *)
(*                                                                         *)
(* One call is in progress at a time.  What it does between two disk       *)
(* writes cannot be observed, since a stop loses the memory: a call is     *)
(* evaluated at its start, as the code computes it, on a record s that     *)
(* holds the memory, the disk as the call sees it and the writes it has    *)
(* issued; the writes then reach the disk one by one (DiskWrite), and the  *)
(* power can go between any two of them (PowerCut, Mount).  The operators  *)
(* are named after the functions, take s and return it changed, with the   *)
(* return value in s.r; a failed ASSERT is s.err, after which the call     *)
(* writes nothing more.                                                    *)
(***************************************************************************)
EXTENDS KernelList, FiniteSets, SequencesExt

CONSTANTS Names,            \* names of files and directories
          Paths,            \* the paths that calls are given, sequences of names
          NInodes,          \* MAX_FILES_PER_PART
          NBlocks,          \* block_bitmap_bit_len: data blocks of the partition
          BITS_PER_SECTOR,  \* bits of a bitmap that one sector holds
          UINT8,            \* values of the uint8_t that inode_sync keeps the number in
          NDirect,          \* direct blocks of an inode
          NIndirect,        \* block numbers in the indirect table
          BLOCK_SIZE,       \* units of data in a block
          EntriesPerSec,    \* directory entries in a block
          MAX_FILE_OPEN,    \* slots of file_table for files
          NFds,             \* descriptors of a process for files
          MaxDirs,          \* bound: directories open at a time
          Transfers,        \* bound: how many units one read or write asks for
          MaxCalls,         \* bound: calls that change something, in memory or on disk
          Careless,         \* TRUE: also calls the code does not survive, see InUse
          NULL

ASSUME FileSystemAssumption ==
    /\ {NInodes, NBlocks, BITS_PER_SECTOR, UINT8, NDirect, NIndirect, BLOCK_SIZE, MAX_FILE_OPEN,
        NFds, MaxDirs, MaxCalls} \subseteq Nat \ {0}
    /\ Transfers \subseteq Nat
    /\ EntriesPerSec \in Nat /\ EntriesPerSec >= 2
    /\ Paths \subseteq Seq(Names) \ {<<>>}
    /\ Careless \in BOOLEAN

VARIABLES disk,    \* [bbits, ibits, inode, block]: what a mount would read
          tree,    \* the names and contents it would find there: Tree(disk)
          out,     \* the writes of the call that have not reached the disk
          mem,     \* the kernel's memory: bitmaps, open inodes, file table, directories
          call,    \* the call in progress, or NoCall
          on,      \* the machine is up
          clean,   \* no call was cut short by a power failure
          calls,   \* how many calls have changed something
          panic    \* the failed ASSERT that stopped the kernel, or "none"

vars == <<disk, tree, out, mem, call, on, clean, calls, panic>>

NoCall == [op |-> "none"]
Inodes == 0..NInodes - 1
Root == 0
\* A block's number is its address counted from data_start_lba, plus one: 0 is
\* "no block".  partition_format clears bits 0..block_bitmap_last_bit of the
\* bitmap's last byte, one too many: the last block lies past the partition.
Blocks == 1..NBlocks + 1
Slots == 1..MAX_FILE_OPEN
Dirs == 0..MaxDirs      \* struct dir objects; 0 is root_dir
Objs == 1..NInodes      \* struct inode objects of the kernel heap
NoObj == 0              \* the NULL pointer
RootObj == 1
Total == NDirect + NIndirect
TableIdx == NDirect + 1

NoEntry == [name |-> "", ino |-> 0, type |-> "FT_UNKNOWN"]
Entry(n, i, t) == [name |-> n, ino |-> i, type |-> t]
Zeros(n) == SubSeq([i \in 1..n |-> 0], 1, n)
DirBlock(es) == [kind |-> "dir", c |-> es]
Pad(es) == DirBlock(es \o [i \in 1..EntriesPerSec - Len(es) |-> NoEntry])
Dots(self, up) == Pad(<<Entry(".", self, "FT_DIRECTORY"), Entry("..", up, "FT_DIRECTORY")>>)
IsDot(e) == e.name \in {".", ".."}
ZeroInode == [no |-> 0, size |-> 0, sect |-> Zeros(TableIdx)]
\* The contents of blocks that were never written.
NoData == [kind |-> "none", c |-> <<>>]

\* Objects that are not in use: a struct inode that is not allocated, a slot of
\* file_table with fd_inode == NULL, a struct dir that is not allocated.
NoInode == [no |-> Root, size |-> 0, sect |-> Zeros(TableIdx), cnt |-> 0, deny |-> FALSE]
NoFile == [obj |-> NoObj, w |-> FALSE, pos |-> 0]
NoDir == [obj |-> NoObj, pos |-> 0]

\* What the body of a loop makes of s in rounds 1..n.
Loop(Body(_, _), s, n) ==
    LET after[k \in 0..n] == IF k = 0 THEN s ELSE Body(after[k - 1], k) IN after[n]

-----------------------------------------------------------------------------
(* The disk *)

\* Which bits share the sector of bit b.
SectorOf(b) == {c \in 0..NBlocks + NInodes : c \div BITS_PER_SECTOR = b \div BITS_PER_SECTOR}

Apply(d, w) ==
    CASE w.to = "bbits" -> [d EXCEPT !.bbits = {b \in @ : b - 1 \notin SectorOf(w.at)}
                                         \cup {b \in w.val : b - 1 \in SectorOf(w.at)}]
      [] w.to = "ibits" -> [d EXCEPT !.ibits = (@ \ SectorOf(w.at)) \cup (w.val \cap SectorOf(w.at))]
      [] w.to = "inode" -> [d EXCEPT !.inode[w.at] = w.val]
      [] w.to = "block" -> [d EXCEPT !.block[w.at] = w.val]

Write(to, at, val) == [to |-> to, at |-> at, val |-> val]

ide_write(s, w) ==
    IF s.err # "none" THEN s ELSE [s EXCEPT !.d = Apply(@, w), !.out = Append(@, w)]

bitmap_sync(s, b, type) ==
    IF type = "BLOCK" THEN ide_write(s, Write("bbits", b - 1, s.bbits))
                      ELSE ide_write(s, Write("ibits", b, s.ibits))

\* bitmap_scan never returns -1 for a single bit: its ASSERT fails first.
block_bitmap_alloc(s) ==
    LET Take(free) == IF free = {} \/ s.err # "none" THEN [s EXCEPT !.err = "bitmap_scan"]
                      ELSE [s EXCEPT !.bbits = @ \cup {Min(free)}, !.r = Min(free)]
    IN Take(Blocks \ s.bbits)

inode_bitmap_alloc(s) ==
    LET Take(free) == IF free = {} THEN [s EXCEPT !.err = "bitmap_scan"]
                      ELSE [s EXCEPT !.ibits = @ \cup {Min(free)}, !.r = Min(free)]
    IN Take(Inodes \ s.ibits)

\* An allocated block is marked on the disk at once.
NewBlock(s) ==
    LET Sync(x) == bitmap_sync(x, x.r, "BLOCK") IN Sync(block_bitmap_alloc(s))

-----------------------------------------------------------------------------
(* inode.c *)

inode_sync(s, i) ==
    ide_write(s, Write("inode", i.no % UINT8, [no |-> i.no, size |-> i.size, sect |-> i.sect]))

\* inode_sync of an open inode.
SyncOpen(s, o) == inode_sync(s, s.obj[o])

\* What kmalloc can return for an inode.  There is room for every number once.
FreeObjs(s) == {o \in Objs : s.obj[o].cnt = 0}

\* The first open inode with that number, or one read from the disk and pushed.
inode_open(s, no) ==
    LET Read(new, i) == [s EXCEPT !.obj[new] = [no |-> i.no, size |-> i.size, sect |-> i.sect,
                                                cnt |-> 1, deny |-> FALSE],
                                  !.list = list_push(@, new), !.r = new]
        Locate(free) == CASE no \notin Inodes -> [s EXCEPT !.err = "inode_no"]
                          [] no \in Inodes /\ free = {} -> [s EXCEPT !.err = "kmalloc"]
                          [] OTHER -> Read(Min(free), s.d.inode[no])
        Found(at) == IF at # 0 THEN [s EXCEPT !.obj[s.list[at]].cnt = @ + 1, !.r = s.list[at]]
                     ELSE Locate(FreeObjs(s))
    IN Found(SelectInSeq(s.list, LAMBDA o : s.obj[o].no = no))

inode_close(s, o) ==
    IF s.obj[o].cnt > 1 THEN [s EXCEPT !.obj[o].cnt = @ - 1]
    ELSE [s EXCEPT !.obj[o] = NoInode, !.list = list_remove(@, o)]

\* The blocks of an inode: the direct ones and those of the indirect table.
all_blocks(d, i) ==
    SubSeq(i.sect, 1, NDirect) \o
        (IF i.sect[TableIdx] # 0 THEN d.block[i.sect[TableIdx]].c ELSE Zeros(NIndirect))

\* Mutant: the bit cleared in memory only.
FreeBlockUnsynced(s, b) == IF b = 0 THEN s ELSE [s EXCEPT !.bbits = @ \ {b}]

FreeBlock(s, b) ==
    IF b = 0 THEN s ELSE bitmap_sync([s EXCEPT !.bbits = @ \ {b}], b, "BLOCK")

FreeBlocks(s, blocks) ==
    LET Free(x, k) == FreeBlock(x, blocks[k]) IN Loop(Free, s, Total)

\* Mutant: without inode_delete, "for debugging" by its comment, the number keeps
\* what the inode held.
inode_release_no_delete(s, no) ==
    LET Free(x, i) == FreeBlocks(FreeBlock(x, i.sect[TableIdx]), all_blocks(s.d, i))
        Number(x) == bitmap_sync([x EXCEPT !.ibits = @ \ {no}], no, "INODE")
        Release(x) == inode_close(Number(Free(x, x.obj[x.r])), x.r)
    IN Release(inode_open(s, no))

\* The table goes first, then the blocks, then the number, then the inode itself.
inode_release(s, no) ==
    LET Free(x, i) == FreeBlocks(FreeBlock(x, i.sect[TableIdx]), all_blocks(s.d, i))
        Number(x) == bitmap_sync([x EXCEPT !.ibits = @ \ {no}], no, "INODE")
        inode_delete(x) == ide_write(x, Write("inode", no, ZeroInode))
        Release(x) == CASE x.err # "none" -> x
                        [] x.err = "none" /\ x.obj[x.r].no # no -> [x EXCEPT !.err = "i_no"]
                        [] OTHER -> inode_close(inode_delete(Number(Free(x, x.obj[x.r]))), x.r)
    IN Release(inode_open(s, no))

-----------------------------------------------------------------------------
(* dir.c.  A handle is [obj, root]: root_dir is never closed.               *)

RootDir == [obj |-> RootObj, root |-> TRUE]

dir_open(s, no) == inode_open(s, no)

dir_close(s, h) == IF h.root THEN s ELSE inode_close(s, h.obj)

\* The blocks in use of a directory, in order, and the entries in them.
UsedBlocks(d, i) == SelectSeq(all_blocks(d, i), LAMBDA b : b # 0)
Entries(d, i) ==
    LET In(blocks) == FlattenSeq([k \in 1..Len(blocks) |-> d.block[blocks[k]].c])
    IN In(UsedBlocks(d, i))
InUseEntries(d, i) == SelectSeq(Entries(d, i), LAMBDA e : e.type # "FT_UNKNOWN")

search_dir_entry(d, i, name) ==
    LET First(es) == LET at == SelectInSeq(es, LAMBDA e : e.name = name)
                     IN IF at = 0 THEN NoEntry ELSE es[at]
    IN First(Entries(d, i))

\* Mutant: the size of the directory forgotten.
GrownNot(s, o) == s

\* dir_inode->i_size += dir_entry_size
Grown(s, o) == [s EXCEPT !.obj[o].size = @ + 1]

\* The first direct block with a free entry, or one to be allocated.  The code
\* does not read the indirect table here: behind the direct blocks it always
\* starts a new table.
sync_dir_entry(s, o, e) ==
    LET dir == s.obj[o]
        Room(b) == b = 0 \/ NoEntry \in ToSet(s.d.block[b].c)
        Direct(x, blk) == ide_write(x, Write("block", blk, Pad(<<e>>)))
        Table(x, table) ==
            ide_write(x, Write("block", table, [kind |-> "table",
                                                c |-> [Zeros(NIndirect) EXCEPT ![1] = x.r]]))
        Fill(blk, es) ==
            LET k == SelectInSeq(es, LAMBDA x : x = NoEntry)
            IN ide_write(s, Write("block", blk, DirBlock(ReplaceAt(es, k, e))))
        Indirect(x) == Direct(x, x.r)
        Extend(x, at) == IF at # TableIdx THEN Direct(x, x.r) ELSE Indirect(Table(NewBlock(x), x.r))
        Given(x, at) == Extend([x EXCEPT !.obj[o].sect[at] = x.r], at)
        Place(at) == IF at # TableIdx /\ dir.sect[at] # 0
                       THEN Fill(dir.sect[at], s.d.block[dir.sect[at]].c)
                       ELSE Given(NewBlock(s), at)
    IN Grown(Place(Min({k \in 1..NDirect : Room(dir.sect[k])} \cup {TableIdx})), o)

\* A block whose last entry goes is freed, except the one with ".": first in
\* the bitmap on disk, then in the inode.  For a block of the indirect table the
\* loop that counts the others never ends.
delete_dir_entry(s, o, no) ==
    LET Mine(es) == {k \in DOMAIN es : es[k].type # "FT_UNKNOWN" /\ ~IsDot(es[k])}
        Is(es, k) == k \in Mine(es) /\ es[k].ino = no
        Shrunk(x) == [x EXCEPT !.obj[o].size = @ - 1]
        Clear(at, blk, es, last) ==
            CASE ~last -> ide_write(s, Write("block", blk, DirBlock(
                              ReplaceAt(es, Min({k \in DOMAIN es : Is(es, k)}), NoEntry))))
              [] last /\ at <= NDirect -> [FreeBlock(s, blk) EXCEPT !.obj[o].sect[at] = 0]
              [] OTHER -> [s EXCEPT !.err = "endless_loop"]
        Found(at, blk, es) ==
            Clear(at, blk, es, Cardinality(Mine(es)) = 1 /\ \A k \in DOMAIN es : es[k].name # ".")
        Delete(blocks, at) ==
            IF at = 0 THEN s
            ELSE SyncOpen(Shrunk(Found(at, blocks[at], s.d.block[blocks[at]].c)), o)
        Search(blocks) ==
            Delete(blocks, SelectInSeq(blocks, LAMBDA b : b # 0 /\ LET es == s.d.block[b].c
                                                                  IN \E k \in DOMAIN es : Is(es, k)))
    IN Search(all_blocks(s.d, s.obj[o]))

\* The next entry of an open directory and its new position, or NULL.
dir_read(s, dir) ==
    LET Nth(size, es) ==
            IF dir.pos >= size \/ dir.pos >= Len(es) THEN NULL ELSE es[dir.pos + 1]
    IN Nth(s.obj[dir.obj].size, InUseEntries(s.d, s.obj[dir.obj]))

dir_is_empty(i) == i.size = 2

dir_remove(s, parent, o) ==
    IF \E k \in 2..TableIdx : s.obj[o].sect[k] # 0
      THEN [s EXCEPT !.err = "i_sectors"]
      ELSE inode_release(delete_dir_entry(s, parent, s.obj[o].no), s.obj[o].no)

-----------------------------------------------------------------------------
(* file.c *)

get_free_slot_in_global(s) == Min({f \in Slots : s.slot[f].obj = NoObj} \cup {MAX_FILE_OPEN + 1})

\* The slot stays taken when the process has no descriptor left.
pcb_fd_install(s, f) ==
    IF Cardinality(s.fds) = NFds THEN [s EXCEPT !.r = -1]
    ELSE [s EXCEPT !.fds = @ \cup {f}, !.r = 0]

OpenFile(o, w) == [obj |-> o, w |-> w, pos |-> 0]

\* Directory entry, parent, inode, bitmap: the order in which they are written.
NewEntry(s, parent, e, inode) ==
    bitmap_sync(inode_sync(SyncOpen(sync_dir_entry(s, parent, e), parent), inode), e.ino, "INODE")

file_create(s, parent, name, w) ==
    LET New(no) == [no |-> no, size |-> 0, sect |-> Zeros(TableIdx), cnt |-> 1, deny |-> FALSE]
        Install(x, f, o, no) ==
            pcb_fd_install([x EXCEPT !.obj[o] = New(no), !.list = list_push(@, o),
                                     !.slot[f] = OpenFile(o, w)], f)
        Numbered(x, no, free, f) ==
            CASE x.err # "none" -> x
              [] x.err = "none" /\ (free = {} \/ f > MAX_FILE_OPEN) -> [x EXCEPT !.ibits = @ \ {no}, !.r = -1]
              [] OTHER -> Install(NewEntry(x, parent, Entry(name, no, "FT_REGULAR"), New(no)),
                                  f, Min(free), no)
        Start(x) == Numbered(x, x.r, FreeObjs(x), get_free_slot_in_global(x))
    IN Start(inode_bitmap_alloc(s))

\* A second writer is turned away, but keeps the slot and the open inode.
file_open(s, no, w) ==
    LET Grant(x, f) ==
            IF w /\ x.obj[x.r].deny THEN [x EXCEPT !.r = -1]
            ELSE pcb_fd_install([x EXCEPT !.obj[x.r].deny = @ \/ w], f)
        Slot(x, f) == Grant([x EXCEPT !.slot[f] = OpenFile(x.r, w)], f)
        Start(f) == IF f > MAX_FILE_OPEN THEN [s EXCEPT !.r = -1] ELSE Slot(inode_open(s, no), f)
    IN Start(get_free_slot_in_global(s))

disk_file_release(s, f) ==
    inode_close([s EXCEPT !.obj[s.slot[f].obj].deny = FALSE], s.slot[f].obj)

\* The k-th unit of what is written to inode no: units differ, so that a block
\* in the wrong place or of the wrong file shows.
Unit(no, k) == <<no, k>>
ZeroUnit == Unit(Root, 0)
Units(no, from, n) == [k \in 1..n |-> Unit(no, from + k - 1)]
Rounds(from, to) == IF to < from THEN 0 ELSE to - from + 1

\* A new block for index k of the file: in the inode, or for an indirect one only
\* in all_blocks.
GrowBy(s, o, k) ==
    LET Give(x) == [x EXCEPT !.all[k] = x.r,
                             !.obj[o].sect = IF k <= NDirect THEN [@ EXCEPT ![k] = x.r] ELSE @]
    IN IF k <= NDirect /\ s.obj[o].sect[k] # 0 THEN [s EXCEPT !.err = "i_sectors"]
       ELSE Give(NewBlock(s))

\* The indirect table is allocated in memory only; the write of the bitmap for
\* the next block takes its bit along if the two share a sector.
NewTable(s, o) ==
    LET Give(x) == [x EXCEPT !.obj[o].sect[TableIdx] = x.r]
    IN IF s.obj[o].sect[TableIdx] # 0 THEN [s EXCEPT !.err = "i_sectors_12"]
       ELSE Give(block_bitmap_alloc(s))

\* The blocks for the n indices behind has.
GrowMore(s, o, has, n) ==
    LET Grow(x, k) == GrowBy(x, o, has + k) IN Loop(Grow, s, n)

\* all_blocks for a write of n units, new blocks included.  A file of a multiple
\* of BLOCK_SIZE units owns the block it will use next.
BlocksForWrite(s, o, n) ==
    LET has  == s.obj[o].size \div BLOCK_SIZE + 1
        will == (s.obj[o].size + n) \div BLOCK_SIZE + 1
        Fill(x) == GrowMore(x, o, has, Rounds(has + 1, will))
        Table(x) == IF will <= NDirect THEN x
                    ELSE ide_write(x, Write("block", x.obj[o].sect[TableIdx],
                             [kind |-> "table", c |-> SubSeq(x.all, NDirect + 1, Total)]))
        Begin(x) == IF has <= NDirect /\ will > NDirect THEN NewTable(x, o) ELSE x
        Collect(x) == [x EXCEPT !.all = all_blocks(x.d, x.obj[o])]
        Add(x) == CASE x.err # "none" -> x
                    [] x.err = "none" /\ will > Total -> [x EXCEPT !.err = "file_will_use_blocks"]
                    [] x.err = "none" /\ will <= Total /\ has = will -> Collect(x)
                    [] OTHER -> Table(Fill(Begin(Collect(x))))
    IN Add(IF s.obj[o].sect[1] = 0 THEN GrowBy(s, o, 1) ELSE s)

\* Mutant: the block is not read before it is written.
WriteChunkBlind(s, o, k, from, n) ==
    LET Pos(j) == (k - 1) * BLOCK_SIZE + j - 1
        hi == Min({from + n - 1, Pos(BLOCK_SIZE)})
        c  == [j \in 1..BLOCK_SIZE |-> IF Pos(j) \in from..hi THEN Unit(s.obj[o].no, Pos(j)) ELSE ZeroUnit]
    IN [ide_write(s, Write("block", s.all[k], [kind |-> "data", c |-> c]))
          EXCEPT !.obj[o].size = hi + 1]

\* Block k of the file gets its part of the units from..from+n-1.  What is behind
\* them in the block is behind the end of the file, and taken as zero.
WriteChunk(s, o, k, from, n) ==
    LET no == s.obj[o].no
        b  == s.all[k]
        Pos(j) == (k - 1) * BLOCK_SIZE + j - 1
        lo == IF from > Pos(1) THEN from ELSE Pos(1)
        hi == IF from + n - 1 < Pos(BLOCK_SIZE) THEN from + n - 1 ELSE Pos(BLOCK_SIZE)
        old == s.d.block[b].c
        c  == [j \in 1..BLOCK_SIZE |-> CASE Pos(j) < lo -> old[j]
                                         [] Pos(j) \in lo..hi -> Unit(no, Pos(j))
                                         [] Pos(j) > hi -> ZeroUnit]
    IN IF s.err # "none" THEN s
       ELSE [ide_write(s, Write("block", b, [kind |-> "data", c |-> c]))
               EXCEPT !.obj[o].size = hi + 1]

\* The blocks first..last of the file get theirs.
WriteChunks(s, o, first, last, from, n) ==
    LET Chunk(x, k) == WriteChunk(x, o, first + k - 1, from, n)
    IN Loop(Chunk, s, Rounds(first, last))

\* Data is always appended; fd_pos ends one before the end of the file.
file_write(s, f, n) ==
    LET o  == s.slot[f].obj
        from == s.obj[o].size
        first == from \div BLOCK_SIZE + 1
        last == (from + n - 1) \div BLOCK_SIZE + 1
    IN IF from + n > BLOCK_SIZE * Total THEN [s EXCEPT !.r = -1]
       ELSE [SyncOpen(WriteChunks(BlocksForWrite(s, o, n), o, first, last, from, n), o)
               EXCEPT !.slot[f].pos = from + n - 1, !.r = 0]

\* The units read and their number; fd_pos = -1 stands for 0xffffffff, which is
\* what a write of nothing to an empty file leaves.
file_read(s, f, n) ==
    LET pos  == s.slot[f].pos
        i    == s.obj[s.slot[f].obj]
        size == IF pos + n > i.size THEN i.size - pos ELSE n
        all  == all_blocks(s.d, i)
        At(k) == s.d.block[all[k \div BLOCK_SIZE + 1]].c[(k % BLOCK_SIZE) + 1]
    IN CASE pos + n > i.size /\ size = 0 -> [s EXCEPT !.r = <<>>]
         [] pos = -1 \/ (pos + size) \div BLOCK_SIZE >= Total - 1 ->
              [s EXCEPT !.err = "block_read_end_idx"]
         [] OTHER -> [s EXCEPT !.slot[f].pos = @ + size,
                               !.r = [k \in 1..size |-> At(pos + k - 1)]]

disk_file_lseek(s, f, pos) ==
    IF pos < 0 \/ pos > s.obj[s.slot[f].obj].size - 1 THEN s ELSE [s EXCEPT !.slot[f].pos = pos]

-----------------------------------------------------------------------------
(* fs.c: looking a path up *)

\* One component of the path.  A regular file ends the search, also when the
\* path goes on behind it.
SearchStep(x, name) ==
    LET Into(y, s) == [y EXCEPT !.s = s, !.h = [obj |-> s.r, root |-> FALSE],
                                !.up = x.s.obj[x.h.obj].no]
        Met(y) ==
            CASE y.e = NoEntry -> [y EXCEPT !.type = "FT_UNKNOWN"]
              [] y.e # NoEntry /\ y.e.type = "FT_REGULAR" -> [y EXCEPT !.type = "FT_REGULAR"]
              [] y.e # NoEntry /\ y.e.type = "FT_DIRECTORY" ->
                   Into(y, dir_open(dir_close(x.s, x.h), y.e.ino))
              [] OTHER -> y
    IN IF x.type # "FT_DIRECTORY" \/ x.s.err # "none" THEN x
       ELSE Met([x EXCEPT !.depth = @ + 1, !.e = search_dir_entry(x.s.d, x.s.obj[x.h.obj], name)])

\* The components of the path one after the other, from the root on.
SearchSteps(s, path) ==
    LET Step(x, k) == SearchStep(x, path[k])
    IN Loop(Step, [s |-> s, h |-> RootDir, up |-> Root, e |-> NoEntry,
                   type |-> "FT_DIRECTORY", depth |-> 0], Len(path))

\* The entry, its type, how many components were looked at and the handle of the
\* directory that holds it, which the caller has to close.
search_file(s, path) ==
    LET Parent(x, s1) == [x EXCEPT !.s = s1, !.h = [obj |-> s1.r, root |-> FALSE]]
        End(x) == IF x.type # "FT_DIRECTORY" \/ x.s.err # "none" THEN x
                  ELSE Parent(x, dir_open(dir_close(x.s, x.h), x.up))
    IN End(SearchSteps(s, path))

Fail(x) == [dir_close(x.s, x.h) EXCEPT !.r = -1]

\* The calls on a path, given x, what search_file found.  Without O_CREAT the
\* directory is not closed.
open_path(x, path, create, w) ==
    LET Created(s) == IF s.err # "none" THEN s ELSE dir_close(s, x.h)
    IN CASE \/ x.type = "FT_DIRECTORY" \/ x.depth # Len(path)
            \/ (x.type = "FT_REGULAR") = create -> Fail(x)
         [] x.type = "FT_UNKNOWN" /\ x.depth = Len(path) /\ create ->
              Created(file_create(x.s, x.h.obj, Last(path), w))
         [] x.type = "FT_REGULAR" /\ x.depth = Len(path) /\ ~create -> file_open(x.s, x.e.ino, w)

unlink(x) ==
    LET open == {x.s.obj[x.s.slot[f].obj].no : f \in {g \in Slots : x.s.slot[g].obj # NoObj}}
        Released(s) == [dir_close(s, x.h) EXCEPT !.r = 0]
        Deleted(s) == IF s.err # "none" THEN s ELSE Released(inode_release(s, x.e.ino))
    IN IF x.type # "FT_REGULAR" \/ x.e.ino \in open THEN Fail(x)
       ELSE Deleted(delete_dir_entry(x.s, x.h.obj, x.e.ino))

mkdir(x, path) ==
    LET up == x.s.obj[x.h.obj].no
        New(no, b) == [no |-> no, size |-> 2, sect |-> [Zeros(TableIdx) EXCEPT ![1] = b]]
        Done(s) == [dir_close(s, x.h) EXCEPT !.r = 0]
        Filled(s, no, b) ==
            NewEntry(ide_write(s, Write("block", b, Dots(no, up))), x.h.obj,
                     Entry(Last(path), no, "FT_DIRECTORY"), New(no, b))
        Block(s, no) == IF s.err # "none" THEN s ELSE Done(Filled(s, no, s.r))
        Number(s) == Block(NewBlock(s), s.r)
    IN IF x.type # "FT_UNKNOWN" \/ x.depth # Len(path) THEN Fail(x)
       ELSE Number(inode_bitmap_alloc(x.s))

rmdir(x) ==
    LET Removed(s, o) == IF s.err # "none" THEN s ELSE [dir_close(inode_close(s, o), x.h) EXCEPT !.r = 0]
        Open(s) == IF dir_is_empty(s.obj[s.r]) THEN Removed(dir_remove(s, x.h.obj, s.r), s.r)
                   ELSE Fail([x EXCEPT !.s = inode_close(s, s.r)])
    IN IF x.type # "FT_DIRECTORY" THEN Fail(x) ELSE Open(dir_open(x.s, x.e.ino))

stat(x) ==
    LET Open(s) == [dir_close(inode_close(s, s.r), x.h)
                      EXCEPT !.r = [type |-> x.type, size |-> s.obj[s.r].size]]
    IN IF x.type = "FT_UNKNOWN" THEN Fail(x) ELSE Open(inode_open(x.s, x.e.ino))

opendir(x, h) ==
    LET Open(s) == [dir_close(s, x.h) EXCEPT !.dirs[h] = [obj |-> s.r, pos |-> 0]]
    IN IF x.type # "FT_DIRECTORY" THEN Fail(x) ELSE Open(dir_open(x.s, x.e.ino))

chdir(x) ==
    LET Closed(s) == IF x.type # "FT_DIRECTORY" THEN s ELSE [s EXCEPT !.cwd = x.e.ino]
    IN Closed(dir_close(x.s, x.h))

\* One level up: ".." of the child, then the child's name in its parent.
CwdStep(x, _k) ==
    LET Named(s, in, at, up) ==
            IF at = 0 THEN [x EXCEPT !.s = [s EXCEPT !.r = -1], !.child = Root, !.path = NULL]
            ELSE [x EXCEPT !.s = s, !.child = up, !.path = Cons(in[at].name, @)]
        Listed(s, in, up) == Named(s, in, SelectInSeq(in, LAMBDA e : e.ino = x.child), up)
        Parent(s, up) == Listed(inode_close(s, s.r), Entries(s.d, s.obj[s.r]), up)
        Up(s, up) == Parent(inode_open(s, up), up)
        Child(s, b) == IF b = 0 \/ s.d.block[b].kind # "dir"
                         THEN [x EXCEPT !.s.err = "block_lba"]
                         ELSE Up(inode_close(s, s.r), s.d.block[b].c[2].ino)
        Start(s) == Child(s, s.obj[s.r].sect[1])
    IN IF x.child = Root \/ x.s.err # "none" THEN x ELSE Start(inode_open(x.s, x.child))

\* From the working directory up to the root.
CwdSteps(s) == Loop(CwdStep, [s |-> s, child |-> s.cwd, path |-> <<>>], NInodes)

getcwd(s) ==
    LET Found(x) == [x.s EXCEPT !.r = x.path] IN Found(CwdSteps(s))

-----------------------------------------------------------------------------
(* What the tree on disk d looks like to a mount. *)

Lookup(d, p) ==
    FoldLeft(LAMBDA e, n : IF e.type = "FT_DIRECTORY" THEN search_dir_entry(d, d.inode[e.ino], n)
                           ELSE NoEntry,
             Entry("/", Root, "FT_DIRECTORY"), p)

Contents(d, i) ==
    [k \in 1..i.size |-> d.block[all_blocks(d, i)[(k - 1) \div BLOCK_SIZE + 1]]
                           .c[((k - 1) % BLOCK_SIZE) + 1]]

Tree(d) ==
    [p \in {q \in Paths : Lookup(d, q) # NoEntry} |->
        LET e == Lookup(d, p)
            isDir == e.type = "FT_DIRECTORY"
        IN [dir |-> isDir, data |-> IF isDir THEN <<>> ELSE Contents(d, d.inode[e.ino])]]

-----------------------------------------------------------------------------
(* State machine *)

\* Reading the bitmaps (mount_partition) and opening the root (open_root_dir).
Mounted(d) ==
    [bbits |-> d.bbits, ibits |-> d.ibits,
     obj   |-> [o \in Objs |-> IF o # RootObj THEN NoInode
                ELSE [no |-> d.inode[Root].no, size |-> d.inode[Root].size,
                      sect |-> d.inode[Root].sect, cnt |-> 1, deny |-> FALSE]],
     list  |-> <<RootObj>>,
     slot  |-> [f \in Slots |-> NoFile], fds |-> {},
     dirs  |-> [h \in Dirs |-> IF h = 0 THEN [obj |-> RootObj, pos |-> 0] ELSE NoDir],
     cwd   |-> Root]

\* partition_format
Formatted ==
    [bbits |-> {1}, ibits |-> {Root},
     inode |-> [i \in Inodes |-> IF i # Root THEN ZeroInode
                  ELSE [no |-> Root, size |-> 2, sect |-> [Zeros(TableIdx) EXCEPT ![1] = 1]]],
     block |-> [b \in Blocks |-> IF b = 1 THEN Dots(Root, Root) ELSE NoData]]

Init ==
    /\ disk = Formatted /\ tree = Tree(Formatted) /\ mem = Mounted(Formatted)
    /\ out = <<>> /\ call = NoCall /\ panic = "none"
    /\ on = TRUE /\ clean = TRUE /\ calls = 0

\* A call starts with the memory as it is.
S == [d |-> disk, out |-> <<>>, all |-> Zeros(Total), r |-> 0, err |-> "none",
      bbits |-> mem.bbits, ibits |-> mem.ibits, obj |-> mem.obj, list |-> mem.list,
      slot |-> mem.slot, fds |-> mem.fds, dirs |-> mem.dirs, cwd |-> mem.cwd]

Memory(s) == [bbits |-> s.bbits, ibits |-> s.ibits, obj |-> s.obj, list |-> s.list,
              slot |-> s.slot, fds |-> s.fds, dirs |-> s.dirs, cwd |-> s.cwd]

\* After a call was cut short no other is made: what counts is what a mount finds.
Idle == on /\ call = NoCall /\ panic = "none" /\ clean

\* The call has been evaluated to s; it is over at once if it writes nothing.
Do(c, s) ==
    /\ Idle
    /\ calls < MaxCalls
    /\ mem' = IF s.err = "none" THEN Memory(s) ELSE mem
    /\ calls' = IF s.out = <<>> /\ mem' = mem THEN calls ELSE calls + 1
    /\ out' = s.out
    /\ call' = IF s.out = <<>> THEN NoCall
               ELSE [op |-> c.op, path |-> c.path, data |-> c.data,
                     ok |-> s.err = "none" /\ s.r = 0, err |-> s.err, old |-> tree]
    /\ panic' = IF s.out = <<>> THEN s.err ELSE "none"
    /\ UNCHANGED <<disk, tree, on, clean>>

PathCall(op, p) == [op |-> op, path |-> p, data |-> <<>>]
WriteCall(p, units) == [op |-> "write", path |-> p, data |-> units]

sys_open(p, create, w) == Do(PathCall("create", p), open_path(search_file(S, p), p, create, w))

\* Mutant: the descriptor stays.
sys_close_keeps_fd(f) ==
    /\ f \in mem.fds
    /\ Do(PathCall("close", <<>>), [disk_file_release(S, f) EXCEPT !.slot[f] = NoFile])

sys_close(f) ==
    /\ f \in mem.fds
    /\ Do(PathCall("close", <<>>),
          [disk_file_release(S, f) EXCEPT !.slot[f] = NoFile, !.fds = @ \ {f}])

NameOf(f) == CHOOSE p \in Paths : Lookup(disk, p).ino = mem.obj[mem.slot[f].obj].no

sys_write(f, n) ==
    /\ f \in mem.fds /\ mem.slot[f].w
    /\ LET i == mem.obj[mem.slot[f].obj]
       IN Do(WriteCall(NameOf(f), Units(i.no, i.size, n)), file_write(S, f, n))

sys_read(f, n) ==
    /\ f \in mem.fds
    /\ Do(PathCall("read", <<>>), file_read(S, f, n))

sys_lseek(f, pos) ==
    /\ f \in mem.fds
    /\ Do(PathCall("lseek", <<>>), disk_file_lseek(S, f, pos))

\* What the calls do not survive: sys_unlink of a path that goes on behind a
\* regular file removes that file, and sys_rmdir of a directory that is open, or
\* that sys_open has left open, or that is somebody's working directory leaves
\* its number behind, in open_inodes or in cwd_inode_nr, for a file to come.
BehindFile(p) == \E k \in 1..Len(p) - 1 : Lookup(disk, SubSeq(p, 1, k)).type = "FT_REGULAR"
InUse(p) ==
    LET no == Lookup(disk, p).ino
    IN no = mem.cwd \/ \E o \in Objs : mem.obj[o].cnt > 0 /\ mem.obj[o].no = no

sys_unlink(p) ==
    /\ Careless \/ ~BehindFile(p)
    /\ Do(PathCall("unlink", p), unlink(search_file(S, p)))

sys_mkdir(p) == Do(PathCall("mkdir", p), mkdir(search_file(S, p), p))

sys_rmdir(p) ==
    /\ Careless \/ ~InUse(p)
    /\ Do(PathCall("rmdir", p), rmdir(search_file(S, p)))

sys_opendir(p) ==
    /\ \E h \in Dirs : mem.dirs[h].obj = NoObj
    /\ Do(PathCall("opendir", p),
          opendir(search_file(S, p), Min({h \in Dirs : mem.dirs[h].obj = NoObj})))

sys_readdir(h) ==
    /\ mem.dirs[h].obj # NoObj
    /\ Do(PathCall("readdir", <<>>),
          IF dir_read(S, mem.dirs[h]) = NULL THEN S ELSE [S EXCEPT !.dirs[h].pos = @ + 1])

sys_rewinddir(h) ==
    /\ mem.dirs[h].obj # NoObj
    /\ Do(PathCall("rewinddir", <<>>), [S EXCEPT !.dirs[h].pos = 0])

sys_closedir(h) ==
    /\ h # 0 /\ mem.dirs[h].obj # NoObj
    /\ Do(PathCall("closedir", <<>>), [inode_close(S, mem.dirs[h].obj) EXCEPT !.dirs[h] = NoDir])

sys_chdir(p) == Do(PathCall("chdir", p), chdir(search_file(S, p)))

sys_stat(p) == Do(PathCall("stat", p), stat(search_file(S, p)))

sys_getcwd == Do(PathCall("getcwd", <<>>), getcwd(S))

\* A write of the call in progress reaches the disk.
DiskWrite ==
    /\ on /\ out # <<>>
    /\ disk' = Apply(disk, Head(out))
    /\ tree' = Tree(disk')
    /\ out' = Tail(out)
    /\ UNCHANGED <<mem, call, on, clean, calls, panic>>

Return ==
    /\ on /\ out = <<>> /\ call # NoCall
    /\ call' = NoCall
    /\ panic' = call.err
    /\ UNCHANGED <<disk, tree, out, mem, on, clean, calls>>

\* The power fails; what is in memory and on its way to the disk is lost.
PowerCut ==
    /\ on
    /\ on' = FALSE
    /\ clean' = (clean /\ call = NoCall /\ panic = "none")
    /\ call' = NoCall /\ out' = <<>> /\ panic' = "none"
    /\ mem' = Mounted(Formatted)
    /\ UNCHANGED <<disk, tree, calls>>

\* filesys_init finds the magic number and mounts.
Mount ==
    /\ ~on
    /\ on' = TRUE
    /\ mem' = Mounted(disk)
    /\ UNCHANGED <<disk, tree, out, call, clean, calls, panic>>

Next ==
    \/ \E p \in Paths : \/ \E create, w \in BOOLEAN : sys_open(p, create, w)
                        \/ sys_unlink(p) \/ sys_mkdir(p) \/ sys_rmdir(p)
                        \/ sys_opendir(p) \/ sys_chdir(p) \/ sys_stat(p)
    \/ \E f \in Slots : \/ sys_close(f)
                        \/ \E n \in Transfers : sys_write(f, n) \/ sys_read(f, n)
                        \/ \E pos \in Transfers : sys_lseek(f, pos)
    \/ \E h \in Dirs : sys_readdir(h) \/ sys_rewinddir(h) \/ sys_closedir(h)
    \/ sys_getcwd
    \/ DiskWrite \/ Return \/ PowerCut \/ Mount

Spec == Init /\ [][Next]_vars

-----------------------------------------------------------------------------
(* Properties *)

DiskInodes == [no : Inodes, size : Int, sect : [1..TableIdx -> Blocks \cup {0}]]
OpenInodes == [no : Inodes, size : Int, sect : [1..TableIdx -> Blocks \cup {0}],
               cnt : Nat, deny : BOOLEAN]

\* Whatever the calls and the power cuts, every inode on disk and in memory has
\* the number of an inode and block numbers of the partition, the pointers of
\* file_table and of open directories are NULL or point at inode objects, and a
\* descriptor of the process names a slot of file_table that is in use.
TypeOK ==
    /\ disk.bbits \subseteq Blocks /\ disk.ibits \subseteq Inodes
    /\ disk.inode \in [Inodes -> DiskInodes] /\ DOMAIN disk.block = Blocks
    /\ mem.bbits \subseteq Blocks /\ mem.ibits \subseteq Inodes
    /\ mem.obj \in [Objs -> OpenInodes]
    /\ mem.slot \in [Slots -> [obj : Objs \cup {NoObj}, w : BOOLEAN, pos : Int]]
    /\ mem.dirs \in [Dirs -> [obj : Objs \cup {NoObj}, pos : Nat]]
    /\ mem.fds \subseteq {f \in Slots : mem.slot[f].obj # NoObj}
    /\ {on, clean} \subseteq BOOLEAN /\ calls \in 0..MaxCalls

InodeOf(d, p) == d.inode[Lookup(d, p).ino]
IsFile(d, p) == Lookup(d, p).type = "FT_REGULAR"
BlocksOf(d, i) == (ToSet(all_blocks(d, i)) \cup {i.sect[TableIdx]}) \ {0}
RootInode(d) == d.inode[Root]
Quiet == call = NoCall /\ panic = "none" /\ clean

FT == INSTANCE FileTree WITH req <- call

\* To whoever mounts the disk after the power went, every call has happened or
\* not happened: the order in which sync_dir_entry, inode_sync, bitmap_sync and
\* the data reach the disk never shows a tree in between.
ImplementsTree == FT!Spec

\* Between calls the bitmaps in memory are those on disk, so that a mount finds
\* what was in use.  A block that is free in memory is free on disk; the other
\* way round only if one sector holds the whole block bitmap, since file_write
\* does not sync the bit of a new indirect table (NewTable).
BitmapsMatch ==
    on /\ call = NoCall /\ panic = "none" =>
      /\ mem.ibits = disk.ibits
      /\ disk.bbits \subseteq mem.bbits
      /\ NBlocks < BITS_PER_SECTOR => mem.bbits = disk.bbits

\* open_inodes holds the inode objects in use, each once, and i_open_cnts of each
\* is at least the number of slots of file_table and of open directories that
\* point at it: none of them is left with an object that inode_close has freed.
InodesCounted ==
    LET Holders(o) == {f \in Slots : mem.slot[f].obj = o}
        Readers(o) == {h \in Dirs : mem.dirs[h].obj = o}
    IN /\ Distinct(mem.list) /\ ToSet(mem.list) = {o \in Objs : mem.obj[o].cnt > 0}
       /\ \A o \in Objs : mem.obj[o].cnt >= Cardinality(Holders(o)) + Cardinality(Readers(o))

\* What memory knows of the disk is right: the bitmaps, and which inodes are in use.
MemoryMatchesDisk == BitmapsMatch /\ InodesCounted

\* Whatever is cut short, the contents of files stay theirs: the blocks of a file
\* that has a name are marked in the bitmap on disk and belong to no other file
\* or directory that has one.  For directories, whose last block is freed before
\* the inode forgets it (delete_dir_entry), only between calls.  Between calls,
\* too, the bitmaps mark exactly what the tree uses, so nothing is lost; and an
\* open inode is the one on disk and the only one with its number.
FilesSafe ==
    LET Held(p) == IsFile(disk, p) \/ Quiet
        inos == {Lookup(disk, p).ino : p \in DOMAIN tree} \cup {Root}
    IN /\ \A p \in DOMAIN tree : Held(p) =>
             /\ BlocksOf(disk, InodeOf(disk, p)) \subseteq disk.bbits
             /\ BlocksOf(disk, InodeOf(disk, p)) \cap BlocksOf(disk, RootInode(disk)) = {}
       /\ \A p, q \in DOMAIN tree : p # q =>
             /\ Lookup(disk, p).ino # Lookup(disk, q).ino
             /\ IsFile(disk, p) =>
                  BlocksOf(disk, InodeOf(disk, p)) \cap BlocksOf(disk, InodeOf(disk, q)) = {}
       /\ \A i \in Inodes : disk.inode[i].size >= 0
       /\ Quiet /\ on =>
             /\ disk.ibits = inos /\ mem.cwd \in inos
             /\ disk.bbits = UNION {BlocksOf(disk, disk.inode[i]) : i \in inos}
             /\ \A o \in ToSet(mem.list) :
                   LET i == mem.obj[o]
                   IN /\ disk.inode[i.no] = [no |-> i.no, size |-> i.size, sect |-> i.sect]
                      /\ \A x \in ToSet(mem.list) : mem.obj[x].no = i.no => x = o

\* What the calls that only look report is what the tree holds: a read returns the
\* part of the file from fd_pos on, sys_stat and sys_rmdir go by a size that is the
\* number of entries in use, and sys_getcwd names the directory it is in.
AnswersRight ==
    Quiet /\ on =>
      /\ \A f \in mem.fds, n \in Transfers :
            LET s   == file_read(S, f, n)
                all == Contents(disk, disk.inode[mem.obj[mem.slot[f].obj].no])
                pos == mem.slot[f].pos
            IN s.err = "none" => s.r = SubSeq(all, pos + 1, Min({pos + n, Len(all)}))
      /\ \A p \in DOMAIN tree \cup {<<>>} :
            LET i == disk.inode[Lookup(disk, p).ino]
            IN ~IsFile(disk, p) => i.size = Len(InUseEntries(disk, i))
      /\ LET s == getcwd(S)
         IN s.err = "none" /\ s.r # NULL =>
              Lookup(disk, s.r).ino = mem.cwd /\ ~IsFile(disk, s.r)
=============================================================================
