------------------------------- MODULE Memory -------------------------------
(***************************************************************************)
(* Page allocation of src/kernel/memory.c and the address spaces that      *)
(* src/userprog (fork.c, exec.c, wait_exit.c) builds with it: the bitmaps  *)
(* of the two physical pools, the virtual bitmaps, page directories and    *)
(* page tables.  Processes interleave: a system call runs with interrupts  *)
(* off until it waits for the disk (ticks_to_sleep, timer.c:53, enables    *)
(* them and nothing disables them again) or for user_pool.lock, so the     *)
(* calls of exec and of the file system take the lock of the user pool     *)
(* with interrupts on and can be preempted between any two steps.          *)
(* kernel_pool.lock is only taken with interrupts off and never held       *)
(* across a wait: get_kernel_pages and mfree_page of kernel pages are      *)
(* single steps.                                                           *)
(***************************************************************************)
EXTENDS Integers, FiniteSets, FiniteSetsExt

CONSTANTS Procs,        \* the processes there can be; bound: one fork for each
          InitProc,     \* the first process
          Workers,      \* bound: the processes that use the heap and exec
          NKernel,      \* frames in kernel_pool
          NUser,        \* frames in user_pool
          KPages,       \* bits of kernel_vaddr.vaddr_bitmap
          UPages,       \* bits of a process's userprog_vaddr.vaddr_bitmap
          TableSize,    \* user pages that share one page table
          BitmapPages,  \* pages that hold userprog_vaddr.vaddr_bitmap
          MaxPages,     \* bound: largest request of sys_malloc, in pages
          None

ASSUME MemoryAssumption ==
    /\ InitProc \in Procs /\ Workers \subseteq Procs /\ None \notin Procs
    /\ IsFiniteSet(Procs)
    /\ {NKernel, NUser, KPages, UPages, TableSize, BitmapPages, MaxPages}
         \subseteq Nat \ {0}

VARIABLES used,    \* frames whose bit is set in their pool's bitmap
          kmap,    \* kernel heap page -> frame (its bit is set iff it is mapped)
          status,  \* of a slot: "none", "fork" (being built), "live", "hanging", "dead"
          bits,    \* userprog_vaddr.vaddr_bitmap: the pages whose bit is set
          pte,     \* user page -> frame, 0 when not present
          pde,     \* page table -> the frame that holds it, 0 when not present
          kreg,    \* kernel pages of a process: role -> [at, n]
          heap,    \* large blocks of sys_malloc not yet freed: [at, n]
          lock,    \* holder of user_pool.lock
          pc,      \* where a process is in its system call
          loc,     \* the locals of that call
          panic    \* the failed ASSERT that stopped the kernel, or "none"

vars == <<used, kmap, status, bits, pte, pde, kreg, heap, lock, pc, loc, panic>>
spaces == <<status, bits, pte, pde, kreg, heap>>

KFrames == 1..NKernel
UFrames == NKernel + 1..NKernel + NUser
NoFrame == 0
UVirt == 0..UPages - 1
KVirt == 0..KPages            \* one page more than the bitmap has bits
STACK3 == UPages - 1          \* USER_STACK3_VADDR, the last user page
PDE_IDX(v) == v \div TableSize
Tables == {PDE_IDX(v) : v \in UVirt}
Pool(f) == IF f \in UFrames THEN UFrames ELSE KFrames

\* Mutant: a page table is taken from the pool of the page it maps.
PoolOfPage(pf) == IF pf = "none" THEN KFrames ELSE UFrames

PoolOf(pf) == IF pf = "kernel" THEN KFrames ELSE UFrames

\* The frames whose bits share the byte of f: each pool has its own bitmap.
ByteOf(f) == LET base == Min(Pool(f))
             IN {g \in Pool(f) : (g - base) \div 8 = (f - base) \div 8}

-----------------------------------------------------------------------------
(* bitmap.c *)

\* The ASSERT of bitmap_scan: no byte of the bitmap has a free bit.
BitmapFull(b, len) == 0..len - 1 \subseteq b

\* The start of the first n free bits in a row, -1 if there is none.  The loop
\* for n > 1 counts one bit too many and also looks at bit len, past the end.
bitmap_scan(b, len, n) ==
    LET first == Min(0..len - 1 \ b)
        ends  == {e \in first + n - 1..len : e - n + 1..e \cap b = {}}
    IN CASE n = 1 -> first
         [] n > 1 /\ ends = {} -> -1
         [] OTHER -> Min(ends) - n + 1

-----------------------------------------------------------------------------
(* Kernel pages, with interrupts off: k is [used, map, reg, err].          *)

Nth(S, i) == CHOOSE f \in S : Cardinality({g \in S : g < f}) = i
Run(r) == r.at..r.at + r.n - 1

\* palloc and page_table_add for the n pages from at, which become k.reg[role]
map_kernel_pages(k, role, at, n) ==
    LET free == KFrames \ k.used
    IN [used |-> k.used \cup {Nth(free, i) : i \in 0..n - 1},
        map  |-> [v \in KVirt |-> IF v \in at..at + n - 1 THEN Nth(free, v - at)
                                                          ELSE k.map[v]],
        reg  |-> [k.reg EXCEPT ![role] = [at |-> at, n |-> n]],
        err  |-> k.err]

\* vaddr_get, then n frames; after a failure (err) nothing more is allocated
\* and nothing is given back.
get_kernel_pages(k, role, n) ==
    LET kbits == {v \in KVirt : k.map[v] # NoFrame}
        full  == BitmapFull(kbits, KPages)
        at    == bitmap_scan(kbits, KPages, n)
        short == Cardinality(KFrames \ k.used) < n
    IN CASE k.err # "none" -> k
         [] k.err = "none" /\ full -> [k EXCEPT !.err = "full"]
         [] k.err = "none" /\ ~full /\ at = -1 -> [k EXCEPT !.err = "NULL"]
         [] k.err = "none" /\ ~full /\ at # -1 /\ short -> [k EXCEPT !.err = "full"]
         [] OTHER -> map_kernel_pages(k, role, at, n)

\* mfree_page(PF_KERNEL, at, n): the frames go back, the pages are unmapped.
mfree_kernel_pages(k, at, n) ==
    [used |-> k.used \ {k.map[v] : v \in at..at + n - 1},
     map  |-> [v \in KVirt |-> IF v \in at..at + n - 1 THEN NoFrame ELSE k.map[v]],
     reg  |-> k.reg,
     err  |-> k.err]

NoRegion == [at |-> 0, n |-> 0]
Roles == {"pcb", "buf", "bitmap", "pgdir"}
NoKernelPages == [r \in Roles |-> NoRegion]
Kernel == [used |-> used, map |-> kmap, reg |-> NoKernelPages, err |-> "none"]

\* The kernel pages of a new process: its PCB, the buffer page of the copy,
\* the pages of its virtual bitmap and its page directory.
fork_pages(k) ==
    LET k1 == get_kernel_pages(k, "pcb", 1)
        k2 == get_kernel_pages(k1, "buf", 1)
        k3 == get_kernel_pages(k2, "bitmap", BitmapPages)
    IN get_kernel_pages(k3, "pgdir", 1)

-----------------------------------------------------------------------------
NoPages == [v \in UVirt |-> NoFrame]
NoTables == [t \in Tables |-> NoFrame]
Idle == [call |-> "none", view |-> None, at |-> 0, n |-> 0, v |-> 0,
         pf |-> "user", frame |-> NoFrame, byte |-> {}, page |-> NoFrame,
         child |-> None, todo |-> {}, buf |-> NoRegion]

\* process_execute for init on the empty kernel pool: its PCB, virtual bitmap
\* and page directory.
boot_pages ==
    LET k0 == [used |-> {}, map |-> [v \in KVirt |-> NoFrame],
               reg |-> NoKernelPages, err |-> "none"]
        k1 == get_kernel_pages(k0, "pcb", 1)
        k2 == get_kernel_pages(k1, "bitmap", BitmapPages)
    IN get_kernel_pages(k2, "pgdir", 1)

\* The kernel pool is large enough to start init: the kernel stops otherwise.
ASSUME BootAssumption == boot_pages.err = "none" /\ KFrames \ boot_pages.used # {}

\* The rest of start_process: the stack page of init and the page table of the
\* stack.
Init ==
    LET k == boot_pages
        page  == Min(UFrames)
        table == Min(KFrames \ k.used)
        init(f, x) == [f EXCEPT ![InitProc] = x]
    IN /\ used = k.used \cup {page, table}
       /\ kmap = k.map
       /\ status = init([p \in Procs |-> "none"], "live")
       /\ bits = init([p \in Procs |-> {}], {STACK3})
       /\ pte = init([p \in Procs |-> NoPages], [NoPages EXCEPT ![STACK3] = page])
       /\ pde = init([p \in Procs |-> NoTables], [NoTables EXCEPT ![PDE_IDX(STACK3)] = table])
       /\ kreg = init([p \in Procs |-> NoKernelPages], k.reg)
       /\ heap = [p \in Procs |-> {}]
       /\ lock = None
       /\ pc = [p \in Procs |-> "user"]
       /\ loc = [p \in Procs |-> Idle]
       /\ panic = "none"

-----------------------------------------------------------------------------
(* Who holds a frame: a kernel page, a page table or a user page.          *)

KernelOwners(F) == {v \in KVirt : kmap[v] \in F}
TableOwners(F)  == {x \in Procs \X Tables : pde[x[1]][x[2]] \in F}
PageOwners(F)   == {x \in Procs \X UVirt : pte[x[1]][x[2]] \in F}

\* No frame of F has two owners.
GivenOnce(F) ==
    Cardinality({kmap[v] : v \in KernelOwners(F)}
                  \cup {pde[x[1]][x[2]] : x \in TableOwners(F)}
                  \cup {pte[x[1]][x[2]] : x \in PageOwners(F)})
      = Cardinality(KernelOwners(F)) + Cardinality(TableOwners(F))
          + Cardinality(PageOwners(F))

\* The kernel has not stopped.  What the machine does once a kernel frame has
\* two owners depends on the bytes they write: the model stops there as well.
Running == panic = "none" /\ GivenOnce(KFrames)

\* p may take the next step: no other process is inside sys_fork, which runs
\* with interrupts off (one that waits for the lock has left the processor).
OnCpu(p) == /\ \A q \in Procs \ {p} : pc[q] \in {"user", "blocked"} \/ loc[q].call # "fork"
            /\ Running

Goto(p, label, locals) == /\ pc' = [pc EXCEPT ![p] = label]
                          /\ loc' = [loc EXCEPT ![p] = locals]

Panic(why) == /\ panic' = why
              /\ UNCHANGED <<used, kmap, spaces, lock, pc, loc>>

-----------------------------------------------------------------------------
(* The calls that take user_pool.lock.  They can be preempted: interrupts  *)
(* are on once the call has waited for the disk.  (A call that runs with   *)
(* interrupts off takes the same steps without being preempted.)           *)

\* sys_malloc of more than 1024 bytes: n pages
sys_malloc(p, n) ==
    /\ pc[p] = "user" /\ status[p] = "live" /\ OnCpu(p)
    /\ Goto(p, "lock", [Idle EXCEPT !.call = "malloc", !.view = p, !.n = n])
    /\ UNCHANGED <<used, kmap, spaces, lock, panic>>

\* sys_free of a large block b
sys_free(p, b) ==
    /\ pc[p] = "user" /\ status[p] = "live" /\ b \in heap[p] /\ OnCpu(p)
    /\ Goto(p, "lock", [Idle EXCEPT !.call = "free", !.view = p,
                                    !.at = b.at, !.v = b.at, !.n = b.n])
    /\ UNCHANGED <<used, kmap, spaces, lock, panic>>

\* segment_load: get_a_page for a page that is not present
segment_load(p, v) ==
    /\ pc[p] = "user" /\ status[p] = "live" /\ pte[p][v] = NoFrame /\ OnCpu(p)
    /\ Goto(p, "lock", [Idle EXCEPT !.call = "get_a_page", !.view = p,
                                    !.at = v, !.v = v, !.n = 1])
    /\ UNCHANGED <<used, kmap, spaces, lock, panic>>

\* Where a call goes on once it has the lock.
Body(call) == CASE call = "malloc" -> "vaddr_get"
                [] call = "get_a_page" -> "vaddr_set"
                [] call = "free" -> "pfree"
                [] OTHER -> "scan"

lock_acquire(p) ==
    /\ pc[p] = "lock" /\ lock = None /\ OnCpu(p)
    /\ lock' = p
    /\ pc' = [pc EXCEPT ![p] = Body(loc[p].call)]
    /\ UNCHANGED <<used, kmap, spaces, loc, panic>>

\* sema_down blocks: schedule will load the page directory of p when it
\* gives the processor back to p, whatever was loaded before.
lock_block(p) ==
    /\ pc[p] = "lock" /\ lock # None /\ OnCpu(p)
    /\ Goto(p, "blocked", [loc[p] EXCEPT !.view = p])
    /\ UNCHANGED <<used, kmap, spaces, lock, panic>>

\* Mutant: a waiter takes the lock without looking at it again.
lock_wakeup_blind(p) ==
    /\ pc[p] = "blocked" /\ OnCpu(p)
    /\ lock' = p
    /\ pc' = [pc EXCEPT ![p] = Body(loc[p].call)]
    /\ UNCHANGED <<used, kmap, spaces, loc, panic>>

lock_wakeup(p) ==
    /\ pc[p] = "blocked" /\ lock = None /\ OnCpu(p)
    /\ lock' = p
    /\ pc' = [pc EXCEPT ![p] = Body(loc[p].call)]
    /\ UNCHANGED <<used, kmap, spaces, loc, panic>>

\* vaddr_get(PF_USER, n)
vaddr_get(p) ==
    /\ pc[p] = "vaddr_get" /\ OnCpu(p)
    /\ LET at == bitmap_scan(bits[p], UPages, loc[p].n)
       IN \/ /\ BitmapFull(bits[p], UPages)
             /\ Panic("full")
          \/ /\ ~BitmapFull(bits[p], UPages) /\ at = -1
             /\ Goto(p, "unlock", [loc[p] EXCEPT !.call = "failed"])
             /\ UNCHANGED <<used, kmap, spaces, lock, panic>>
          \/ /\ ~BitmapFull(bits[p], UPages) /\ at # -1
             /\ bits' = [bits EXCEPT ![p] = @ \cup at..at + loc[p].n - 1]
             /\ Goto(p, "scan", [loc[p] EXCEPT !.at = at, !.v = at])
             /\ UNCHANGED <<used, kmap, status, pte, pde, kreg, heap, lock, panic>>

\* Mutant: get_a_page leaves the virtual bitmap alone.
vaddr_set_nothing(p) ==
    /\ pc[p] = "vaddr_set" /\ OnCpu(p)
    /\ Goto(p, "scan", loc[p])
    /\ UNCHANGED <<used, kmap, spaces, lock, panic>>

\* get_a_page sets the bit of its page
vaddr_set(p) ==
    /\ pc[p] = "vaddr_set" /\ OnCpu(p)
    /\ bits' = [bits EXCEPT ![p] = @ \cup {loc[p].v}]
    /\ Goto(p, "scan", loc[p])
    /\ UNCHANGED <<used, kmap, status, pte, pde, kreg, heap, lock, panic>>

\* palloc: bitmap_scan for one frame of the pool; a full pool fails the ASSERT
palloc_scan(p) ==
    /\ pc[p] = "scan" /\ OnCpu(p)
    /\ LET free == PoolOf(loc[p].pf) \ used
       IN \/ /\ free = {}
             /\ Panic("full")
          \/ /\ free # {}
             /\ Goto(p, "set", [loc[p] EXCEPT !.frame = Min(free)])
             /\ UNCHANGED <<used, kmap, spaces, lock, panic>>

\* bitmap_set reads the byte, changes it and writes it back
bitmap_load(p) ==
    /\ pc[p] \in {"set", "clear"} /\ OnCpu(p)
    /\ Goto(p, IF pc[p] = "set" THEN "store" ELSE "cleared",
            [loc[p] EXCEPT !.byte = used \cap ByteOf(loc[p].frame)])
    /\ UNCHANGED <<used, kmap, spaces, lock, panic>>

Store(p, byte) == used' = (used \ ByteOf(loc[p].frame)) \cup byte

palloc_store(p) ==
    /\ pc[p] = "store" /\ OnCpu(p)
    /\ Store(p, loc[p].byte \cup {loc[p].frame})
    /\ IF loc[p].pf = "user"
         THEN Goto(p, "table", [loc[p] EXCEPT !.page = loc[p].frame])
         ELSE Goto(p, "install", loc[p])
    /\ UNCHANGED <<kmap, spaces, lock, panic>>

\* The next page of malloc_page or mfree_page, or the end of the call.
NextPage(p, label) ==
    IF loc[p].v + 1 < loc[p].at + loc[p].n
      THEN Goto(p, label, [loc[p] EXCEPT !.v = @ + 1, !.pf = "user"])
      ELSE Goto(p, "unlock", loc[p])

\* page_table_add with the page directory that is loaded: loc[p].view
page_table_add(p) ==
    /\ pc[p] = "table" /\ OnCpu(p)
    /\ LET s == loc[p].view
           v == loc[p].v
           present == pde[s][PDE_IDX(v)] # NoFrame
       IN \/ /\ present /\ pte[s][v] # NoFrame
             /\ Panic("pte_repeat")
          \/ /\ present /\ pte[s][v] = NoFrame
             /\ pte' = [pte EXCEPT ![s][v] = loc[p].page]
             /\ NextPage(p, "scan")
             /\ UNCHANGED <<used, kmap, status, bits, pde, kreg, heap, lock, panic>>
          \/ /\ ~present        \* palloc(&kernel_pool), under user_pool.lock
             /\ Goto(p, "scan", [loc[p] EXCEPT !.pf = "kernel"])
             /\ UNCHANGED <<used, kmap, spaces, lock, panic>>

\* the rest of page_table_add once the frame for the page table is there
page_table_install(p) ==
    /\ pc[p] = "install" /\ OnCpu(p)
    /\ LET s == loc[p].view
           v == loc[p].v
       IN /\ pde' = [pde EXCEPT ![s][PDE_IDX(v)] = loc[p].frame]
          /\ pte' = [pte EXCEPT ![s] = [u \in UVirt |->
                       CASE u = v -> loc[p].page
                         [] u # v /\ PDE_IDX(u) = PDE_IDX(v) -> NoFrame
                         [] OTHER -> @[u]]]
          /\ NextPage(p, "scan")
    /\ UNCHANGED <<used, kmap, status, bits, kreg, heap, lock, panic>>

\* mfree_page(PF_USER): for each page addr_v2p and pfree ...
pfree(p) ==
    /\ pc[p] = "pfree" /\ OnCpu(p)
    /\ Goto(p, "clear", [loc[p] EXCEPT !.frame = pte[p][loc[p].v]])
    /\ UNCHANGED <<used, kmap, spaces, lock, panic>>

pfree_store(p) ==
    /\ pc[p] = "cleared" /\ OnCpu(p)
    /\ Store(p, loc[p].byte \ {loc[p].frame})
    /\ Goto(p, "pte_remove", loc[p])
    /\ UNCHANGED <<kmap, spaces, lock, panic>>

\* ... then page_table_pte_remove, and vaddr_remove after the last page
page_table_pte_remove(p) ==
    /\ pc[p] = "pte_remove" /\ OnCpu(p)
    /\ LET b == [at |-> loc[p].at, n |-> loc[p].n]
           last == loc[p].v = b.at + b.n - 1
       IN /\ pte' = [pte EXCEPT ![p][loc[p].v] = NoFrame]
          /\ bits' = [bits EXCEPT ![p] = IF last THEN @ \ Run(b) ELSE @]
          /\ heap' = [heap EXCEPT ![p] = IF last THEN @ \ {b} ELSE @]
    /\ NextPage(p, "pfree")
    /\ UNCHANGED <<used, kmap, status, pde, kreg, lock, panic>>

\* lock_release; sys_malloc returns its block, a page of a fork is copied into
\* the child and the page directory of the parent is loaded again
lock_release(p) ==
    /\ pc[p] = "unlock" /\ OnCpu(p)
    /\ lock' = None
    /\ IF loc[p].call = "fork"
         THEN Goto(p, "copy", [loc[p] EXCEPT !.view = p, !.todo = @ \ {loc[p].v}])
         ELSE Goto(p, "user", Idle)
    /\ heap' = [heap EXCEPT ![p] = IF loc[p].call = "malloc"
                                     THEN @ \cup {[at |-> loc[p].at, n |-> loc[p].n]} ELSE @]
    /\ UNCHANGED <<used, kmap, status, bits, pte, pde, kreg, panic>>

-----------------------------------------------------------------------------
(* sys_fork, with interrupts off.                                          *)

\* sys_fork and copy_process up to copy_body_stack3: a failure gives nothing back
sys_fork(p, c) ==
    /\ pc[p] = "user" /\ status[p] = "live" /\ status[c] = "none" /\ OnCpu(p)
    /\ LET k == fork_pages(Kernel)
       IN \/ /\ k.err = "full"
             /\ Panic("full")
          \/ /\ k.err = "NULL"
             /\ used' = k.used /\ kmap' = k.map
             /\ UNCHANGED <<spaces, lock, pc, loc, panic>>
          \/ /\ k.err = "none"
             /\ used' = k.used /\ kmap' = k.map
             /\ status' = [status EXCEPT ![c] = "fork"]
             /\ bits' = [bits EXCEPT ![c] = bits[p]]
             /\ heap' = [heap EXCEPT ![c] = heap[p]]
             /\ kreg' = [kreg EXCEPT ![c] = [k.reg EXCEPT !["buf"] = NoRegion]]
             /\ Goto(p, "copy", [Idle EXCEPT !.call = "fork", !.view = p, !.child = c,
                                             !.todo = bits[p], !.buf = k.reg["buf"]])
             /\ UNCHANGED <<pte, pde, lock, panic>>

\* Mutant: the loop over the bitmap ends one bit too early.
copy_page_short(p) ==
    /\ pc[p] = "copy" /\ loc[p].todo # {} /\ OnCpu(p)
    /\ LET v == Min(loc[p].todo)
       IN IF v = STACK3
            THEN Goto(p, "copy", [loc[p] EXCEPT !.todo = {}])
            ELSE Goto(p, "lock", [loc[p] EXCEPT !.view = loc[p].child, !.at = v, !.v = v,
                                                !.n = 1, !.pf = "user"])
    /\ UNCHANGED <<used, kmap, spaces, lock, panic>>

\* copy_body_stack3: load the child's page directory and call
\* get_a_page_without_opvaddrbitmap for the next page of the parent
copy_page(p) ==
    /\ pc[p] = "copy" /\ loc[p].todo # {} /\ OnCpu(p)
    /\ LET v == Min(loc[p].todo)
       IN Goto(p, "lock", [loc[p] EXCEPT !.view = loc[p].child, !.at = v, !.v = v, !.n = 1,
                                         !.pf = "user"])
    /\ UNCHANGED <<used, kmap, spaces, lock, panic>>

\* the end of copy_process and of sys_fork: the buffer page is given back
fork_done(p) ==
    /\ pc[p] = "copy" /\ loc[p].todo = {} /\ OnCpu(p)
    /\ LET k == mfree_kernel_pages(Kernel, loc[p].buf.at, loc[p].buf.n)
       IN used' = k.used /\ kmap' = k.map
    /\ status' = [status EXCEPT ![loc[p].child] = "live"]
    /\ Goto(p, "user", Idle)
    /\ UNCHANGED <<bits, pte, pde, kreg, heap, lock, panic>>

-----------------------------------------------------------------------------
(* The end of a process, with interrupts off and without a lock.           *)

\* release_prog_resource: free_a_phy_page for every page and page table, then
\* mfree_page for the virtual bitmap, whose size is rounded down here
release_prog_resource(p) ==
    /\ pc[p] = "user" /\ status[p] = "live" /\ p # InitProc /\ OnCpu(p)
    /\ LET freed == {pte[p][v] : v \in UVirt} \cup {pde[p][t] : t \in Tables}
           k == mfree_kernel_pages(Kernel, kreg[p]["bitmap"].at, BitmapPages - 1)
       IN /\ used' = k.used \ freed
          /\ kmap' = k.map
    /\ status' = [status EXCEPT ![p] = "hanging"]
    /\ pte' = [pte EXCEPT ![p] = NoPages]
    /\ pde' = [pde EXCEPT ![p] = NoTables]
    /\ UNCHANGED <<bits, kreg, heap, lock, pc, loc, panic>>

\* thread_exit(c), called by sys_wait of another process p: page directory and PCB
thread_exit(p, c) ==
    /\ pc[p] = "user" /\ status[p] = "live" /\ status[c] = "hanging" /\ OnCpu(p)
    /\ LET k1 == mfree_kernel_pages(Kernel, kreg[c]["pgdir"].at, 1)
           k2 == mfree_kernel_pages(k1, kreg[c]["pcb"].at, 1)
       IN used' = k2.used /\ kmap' = k2.map
    /\ status' = [status EXCEPT ![c] = "dead"]
    /\ bits' = [bits EXCEPT ![c] = {}]
    /\ heap' = [heap EXCEPT ![c] = {}]
    /\ kreg' = [kreg EXCEPT ![c] = NoKernelPages]
    /\ UNCHANGED <<pte, pde, lock, pc, loc, panic>>

-----------------------------------------------------------------------------
\* What a process does inside a call, once it has begun.
Step(p) == \/ lock_acquire(p) \/ lock_block(p) \/ lock_wakeup(p)
           \/ vaddr_get(p) \/ vaddr_set(p)
           \/ palloc_scan(p) \/ bitmap_load(p) \/ palloc_store(p)
           \/ page_table_add(p) \/ page_table_install(p)
           \/ pfree(p) \/ pfree_store(p) \/ page_table_pte_remove(p)
           \/ lock_release(p) \/ copy_page(p) \/ fork_done(p)

Next ==
    \/ \E p \in Procs : Step(p) \/ release_prog_resource(p)
    \/ \E p \in Workers, n \in 1..MaxPages : sys_malloc(p, n)
    \/ \E p \in Workers : \E b \in heap[p] : sys_free(p, b)
    \/ \E p \in Workers, v \in UVirt : segment_load(p, v)
    \/ \E p \in Procs, c \in Procs : sys_fork(p, c) \/ thread_exit(p, c)

Spec == Init /\ [][Next]_vars

-----------------------------------------------------------------------------
Region == [at : Nat, n : Nat]

\* Every variable has its type.
TypeOK ==
    /\ used \subseteq KFrames \cup UFrames
    /\ kmap \in [KVirt -> KFrames \cup {NoFrame}]
    /\ status \in [Procs -> {"none", "fork", "live", "hanging", "dead"}]
    /\ bits \in [Procs -> SUBSET UVirt]
    /\ pte \in [Procs -> [UVirt -> UFrames \cup {NoFrame}]]
    /\ pde \in [Procs -> [Tables -> KFrames \cup {NoFrame}]]
    /\ heap \in [Procs -> SUBSET Region]
    /\ kreg \in [Procs -> [Roles -> Region]]
    /\ lock \in Procs \cup {None}
    /\ panic \in {"none", "full", "pte_repeat"}

\* A frame of the user pool is mapped in one place only, never in two address
\* spaces and never twice in one (palloc under user_pool.lock, memory.c:101), and
\* is marked in the bitmap as long as it is mapped, so that palloc does not give
\* it away, except while its owner is between pfree and page_table_pte_remove
\* (memory.c:451-454).
UserFrameOwned ==
    /\ GivenOnce(UFrames)
    /\ \A p \in Procs, v \in UVirt :
          pte[p][v] \in UFrames \ used => pc[p] = "pte_remove" /\ loc[p].v = v

\* Between two calls the virtual bitmap of a process holds exactly the pages
\* that are mapped: copy_body_stack3 reads every page whose bit is set, and
\* vaddr_get gives out every page whose bit is not.
BitsMatchMap ==
    \A p \in Procs : status[p] = "live" /\ pc[p] = "user"
                       => bits[p] = {v \in UVirt : pte[p][v] # NoFrame}

\* A child starts with exactly the pages its parent has, each in a frame of
\* its own (copy_body_stack3).
ForkCopiesSpace ==
    [][\A p \in Procs : pc[p] = "copy" /\ pc'[p] = "user" =>
          \A v \in UVirt : (pte[p][v] # NoFrame) <=> (pte[loc[p].child][v] # NoFrame)]_vars

\* page_table_add never finds a page that is already present: fork installs
\* the pages in the page table of the child, not of the parent.
ForkInChildTable == panic # "pte_repeat"

-----------------------------------------------------------------------------
(* The inductive invariant.                                                *)

Mapped(s) == {v \in UVirt : pte[s][v] # NoFrame}
Frames == KFrames \cup UFrames

\* The labels at which user_pool.lock is held, and among them those of
\* malloc_page and of mfree_page.
Allocating == {"scan", "set", "store", "table", "install"}
Freeing == {"pfree", "clear", "cleared", "pte_remove"}
Held == {"vaddr_get", "vaddr_set", "unlock"} \cup Allocating \cup Freeing

Labels == {"user", "lock", "blocked", "copy"} \cup Held
Locals == [call : {"none", "malloc", "free", "get_a_page", "fork", "failed"},
           view : Procs \cup {None}, at : Nat, n : Nat, v : Nat,
           pf : {"user", "kernel"}, frame : Frames \cup {NoFrame},
           byte : SUBSET Frames, page : UFrames \cup {NoFrame},
           child : Procs \cup {None}, todo : SUBSET UVirt, buf : Region]

LocalsOK == pc \in [Procs -> Labels] /\ loc \in [Procs -> Locals]

\* Only a live process is inside a call, and it holds the lock just between
\* lock_acquire and lock_release.
LockOK(p) ==
    /\ pc[p] \in Held <=> lock = p
    /\ pc[p] # "user" => status[p] = "live"
    /\ pc[p] = "user" => loc[p] = Idle

\* Which calls get to which label.
CallOK(p) ==
    /\ pc[p] # "user" => loc[p].call # "none"
    /\ pc[p] \in {"lock", "blocked"} \cup Allocating => loc[p].call # "failed"
    /\ pc[p] = "vaddr_get" => loc[p].call = "malloc"
    /\ pc[p] = "vaddr_set" => loc[p].call = "get_a_page"
    /\ pc[p] \in Freeing => loc[p].call = "free"
    /\ pc[p] \in Allocating => loc[p].call # "free"
    /\ pc[p] = "copy" => loc[p].call = "fork"
    /\ pc[p] \in {"lock", "blocked", "vaddr_get", "vaddr_set"} => loc[p].pf = "user"
    /\ pc[p] # "user" /\ loc[p].call # "fork" => loc[p].view = p

\* The pages of the block a call works on, and those it has still to do.
Block(p) == loc[p].at..loc[p].at + loc[p].n - 1
Rest(p)  == loc[p].v..loc[p].at + loc[p].n - 1

\* What is mapped and what is marked agree, but for the pages a call is about.
SpaceOK(p) ==
    /\ pc[p] \in Allocating /\ loc[p].call # "fork" =>
          /\ loc[p].v \in Block(p) /\ Rest(p) \subseteq bits[p]
          /\ Mapped(p) = bits[p] \ Rest(p)
    /\ pc[p] \in Freeing =>
          loc[p].v \in Block(p) /\ Mapped(p) = bits[p] \ (Block(p) \ Rest(p))
    /\ status[p] = "live" /\ (pc[p] \notin Allocating \cup Freeing \/ loc[p].call = "fork") =>
          Mapped(p) = bits[p]

\* The blocks of the heap are marked and separate, and leave the stack alone; so
\* does the block that a call of malloc is building.
HeapOK(p) ==
    /\ status[p] \in {"fork", "live"} =>
          /\ STACK3 \in bits[p]
          /\ \A b \in heap[p] : b.n > 0 /\ Run(b) \subseteq bits[p] \ {STACK3}
          /\ \A b, d \in heap[p] : b = d \/ Run(b) \cap Run(d) = {}
    /\ pc[p] \in Allocating \cup {"unlock"} /\ loc[p].call = "malloc" =>
          /\ loc[p].n > 0 /\ Block(p) \subseteq bits[p] \ {STACK3}
          /\ \A b \in heap[p] : Run(b) \cap Block(p) = {}

\* What a call was asked to do is still there to be done.
ArgOK(p) ==
    /\ loc[p].call = "malloc" => loc[p].n > 0
    /\ pc[p] \in {"lock", "blocked"} \cup Freeing /\ loc[p].call = "free" =>
          [at |-> loc[p].at, n |-> loc[p].n] \in heap[p]
    /\ pc[p] \in {"lock", "blocked"} /\ loc[p].call = "free" => loc[p].v = loc[p].at
    /\ pc[p] \in {"lock", "blocked", "vaddr_set"} /\ loc[p].call = "get_a_page" =>
          /\ loc[p].v \in UVirt \ bits[p]
          /\ loc[p].at = loc[p].v /\ loc[p].n = 1

\* The page a fork copies is one of the parent that the child does not have yet,
\* and goes to the child unless the parent has been blocked.
ForkOK(p) ==
    loc[p].call = "fork" =>
      LET c == loc[p].child
      IN /\ c \in Procs /\ status[c] = "fork"
         /\ bits[c] = bits[p] /\ loc[p].todo \subseteq bits[p]
         /\ pc[p] # "unlock" => Mapped(c) = bits[c] \ loc[p].todo
         /\ pc[p] # "copy" => /\ loc[p].v \in loc[p].todo
                              /\ loc[p].at = loc[p].v /\ loc[p].n = 1
                              /\ loc[p].view \in {p, c}
         /\ pc[p] = "unlock" => Mapped(c) = bits[c] \ (loc[p].todo \ {loc[p].v})

\* The frame a call has found, marked or is about to give back.
FrameOK(p) ==
    LET l == loc[p]
        unmapped(f) == \A q \in Procs, v \in UVirt : pte[q][v] # f
    IN /\ pc[p] \in {"set", "store"} /\ l.pf = "user" => l.frame \in UFrames \ used
       /\ pc[p] \in {"store", "cleared"} /\ l.frame \in UFrames =>
             used \cap ByteOf(l.frame) \subseteq l.byte
       /\ pc[p] = "table" \/ (pc[p] \in Allocating /\ l.pf = "kernel") =>
             l.page \in UFrames \cap used /\ unmapped(l.page)
       /\ pc[p] = "table" => l.pf = "user"
       /\ pc[p] \in Allocating /\ l.pf = "kernel" => pde[l.view][PDE_IDX(l.v)] = NoFrame
       /\ pc[p] = "install" => l.pf = "kernel"
       /\ pc[p] \in {"set", "store", "install"} /\ l.pf = "kernel" => l.frame \in KFrames
       /\ pc[p] \in {"clear", "cleared", "pte_remove"} => l.frame = pte[p][l.v]

\* A page has a page table; a slot that is free or being given back has no page;
\* the kernel pages of a process are pages of the kernel.
TablesOK(p) ==
    /\ \A v \in UVirt : pte[p][v] # NoFrame => pde[p][PDE_IDX(v)] # NoFrame
    /\ status[p] \notin {"fork", "live"} => Mapped(p) = {}
    /\ kreg[p]["pcb"].at \in KVirt /\ kreg[p]["pgdir"].at \in KVirt
    /\ status[p] \in {"fork", "live"} => kreg[p]["bitmap"].at + BitmapPages - 1 \in KVirt
    /\ Run(loc[p].buf) \subseteq KVirt

\* No two forks build the same child, ...
ChildrenApart ==
    \A p, q \in Procs : loc[p].call = "fork" /\ loc[q].call = "fork"
                           /\ loc[p].child = loc[q].child => p = q

\* ... no two pages share a frame, ...
FramesApart ==
    \A p, q \in Procs : \A v, w \in UVirt :
        pte[p][v] = pte[q][w] /\ pte[p][v] # NoFrame => p = q /\ v = w

\* ... and a mapped frame is marked unless its owner is about to unmap it.
MappedUsed ==
    \A p \in Procs, v \in UVirt :
        pte[p][v] \in UFrames \ used => pc[p] = "pte_remove" /\ loc[p].v = v

ProcessOK(p) == /\ LockOK(p) /\ CallOK(p) /\ SpaceOK(p) /\ HeapOK(p) /\ ArgOK(p)
                /\ ForkOK(p) /\ FrameOK(p) /\ TablesOK(p)

MemInv == /\ TypeOK /\ LocalsOK
          /\ ChildrenApart /\ FramesApart /\ MappedUsed
          /\ \A p \in Procs : ProcessOK(p)

=============================================================================
