------------------------------- MODULE CowMem -------------------------------
(***************************************************************************)
(* Physical pages and copy-on-write user memory: kernel/kalloc.c (free     *)
(* list and reference counts), the user half of kernel/vm.c, cowHandler()  *)
(* of kernel/trap.c, and the parts of fork, exit/wait, sbrk and exec that  *)
(* allocate, share and free pages.                                         *)
(*                                                                         *)
(* Processes run their kernel paths concurrently; a step ends where        *)
(* kmem.lock is released.  A page-table tree is abstracted to its leaf     *)
(* entries and the page-table pages that hold them: one page for the root  *)
(* and what proc_pagetable() hangs below it for the trampoline and the     *)
(* trapframe, and one page per region of user memory for the lower levels  *)
(* that walk() allocates.                                                  *)
(***************************************************************************)
EXTENDS Integers, Sequences, FiniteSets

CONSTANTS
    Procs,          \* slots of the process table
    InitProc,       \* initproc
    NPAGES,         \* physical pages handled by kalloc()
    MAXPAGES,       \* bound: pages of a user address space
    TEXTPAGES,      \* pages of the text segment exec() loads
    REGION,         \* user pages covered by one page-table page
    MAXREFS,        \* bound: no fork() once a page has this many references
    CALLS,          \* bound: which of "copyout", "sbrk", "exec" processes use
    Vals,           \* contents of a page
    Zero, Junk,     \* contents after memset(0), after JUNKFILL()
    NULL

ASSUME CowAssumption ==
    /\ IsFiniteSet(Procs) /\ InitProc \in Procs
    /\ NPAGES \in Nat /\ NPAGES >= 4 /\ MAXPAGES \in Nat \ {0} /\ REGION \in Nat \ {0}
    /\ TEXTPAGES \in Nat /\ TEXTPAGES + 2 <= MAXPAGES
    /\ Zero \in Vals
    /\ NULL \notin 1..NPAGES /\ NULL \notin Procs /\ NULL \notin Procs \X {0, 1}

VARIABLES
    freelist,       \* kmem.freelist, whose order is left out
    refcnt,         \* refcnt[]
    content,        \* what each page holds
    ref,            \* the page that each holder of a page address names
    flags,          \* permission bits of the user PTEs: "W" for PTE_W, "U" for PTE_U;
                    \* "T" is no bit, it marks a page exec() mapped without PTE_W
    cur,            \* which of its two page tables p->pagetable is
    sz,             \* p->sz, in pages
    op,             \* what the process is doing, with the locals of its kernel path
    junk,           \* page whose count reached 0 in kfree(), not yet on the list
    panic           \* "none", or what stopped the kernel: "kmem" for a consistency
                    \* check of the code modelled here, "init" for init exiting

kmemVars == <<freelist, refcnt, content, junk, panic>>
vars == <<kmemVars, ref, flags, cur, sz, op>>

-----------------------------------------------------------------------------
\* A holder is a place that contains the address of a page and so accounts
\* for one reference: a PTE, a slot of an upper page-table page,
\* p->trapframe, or a local variable.
Pages == 1..NPAGES
UserVA == 0..MAXPAGES-1
UserNodes == 0..(MAXPAGES - 1) \div REGION
Tables == Procs \X {0, 1}       \* p->pagetable and the one exec() is building
Pte(t, a) == <<"pte", t, a>>
Node(t, n) == <<"node", t, n>>
Root == -1
Tf(p) == <<"trapframe", p>>
Mem(p) == <<"mem", p>>

Holders ==
    {Pte(t, a) : t \in Tables, a \in UserVA}
        \cup {Node(t, n) : t \in Tables, n \in UserNodes \cup {Root}}
        \cup {Tf(p) : p \in Procs} \cup {Mem(p) : p \in Procs}

Cur(p) == <<p, cur[p]>>
Spare(p) == <<p, 1 - cur[p]>>
Mapped(t, a) == a \in UserVA /\ ref[Pte(t, a)] # NULL
LeafNode(t, a) == Node(t, a \div REGION)

\* check_valid_page()
ValidUser(t, a) == Mapped(t, a) /\ "U" \in flags[t][a]

Ptes(t, lo, hi) == [i \in 1..hi-lo |-> Pte(t, lo + i - 1)]

\* The page-table pages of t in the order freewalk() frees them; user memory
\* grows from address 0, so its first regions are the ones that have a page.
NodeSeq(t) ==
    [i \in 1..Cardinality({n \in UserNodes : ref[Node(t, n)] # NULL}) |-> Node(t, i - 1)]
        \o <<Node(t, Root)>>

\* proc_freepagetable(t, n), freeproc() of a process of n pages.
TableSeq(t, n) == Ptes(t, 0, n) \o NodeSeq(t)
ProcSeq(c, n) == <<Tf(c)>> \o TableSeq(Cur(c), n)

-----------------------------------------------------------------------------
\* Locals of a kernel path: the table and page it works on, the bounds of its
\* loop, the value it stores, the holders it still has to kfree(), the slot it
\* creates or reaps, and where it continues.
User == [pc |-> "user", tab |-> NULL, a |-> 0, lo |-> 0, hi |-> 0, v |-> NULL,
         todo |-> << >>, who |-> NULL, next |-> "user"]
Idle(pc) == [User EXCEPT !.pc = pc]

\* userinit(): init has a trapframe, two page-table pages and one user page.
Init ==
    LET t == <<InitProc, 0>>
        held == <<Tf(InitProc), Node(t, Root), Node(t, 0), Pte(t, 0)>>
        page(h) == CHOOSE i \in 1..4 : held[i] = h
    IN  /\ freelist = Pages \ 1..4
        /\ refcnt = [pa \in Pages |-> IF pa \in 1..4 THEN 1 ELSE 0]
        /\ content = [pa \in Pages |-> IF pa = 4 THEN Zero ELSE Junk]
        /\ ref = [h \in Holders |-> IF \E i \in 1..4 : held[i] = h THEN page(h) ELSE NULL]
        /\ flags = [u \in Tables |-> [a \in UserVA |-> IF u = t /\ a = 0 THEN {"W", "U"} ELSE {}]]
        /\ cur = [q \in Procs |-> 0]
        /\ sz = [q \in Procs |-> IF q = InitProc THEN 1 ELSE 0]
        /\ op = [q \in Procs |-> IF q = InitProc THEN User ELSE Idle("unused")]
        /\ junk = [q \in Procs |-> NULL]
        /\ panic = "none"

\* p runs: it has finished its last kfree() and the kernel has not panicked.
At(p, pc) == op[p].pc = pc /\ junk[p] = NULL /\ panic = "none"

-----------------------------------------------------------------------------
\* kalloc() into holder h, the page then filled with c.
Kalloc(h, c) ==
    LET pa == CHOOSE g \in freelist : TRUE
    IN  /\ freelist # {}
        /\ IF refcnt[pa] # 0
           THEN panic' = "kmem" /\ UNCHANGED <<freelist, refcnt, content, ref>>
           ELSE /\ refcnt' = [refcnt EXCEPT ![pa] = 1]
                /\ freelist' = freelist \ {pa}
                /\ content' = [content EXCEPT ![pa] = c]
                /\ ref' = [ref EXCEPT ![h] = pa]
                /\ UNCHANGED panic
        /\ UNCHANGED junk

\* kalloc() returns 0.
NoMemory == freelist = {} /\ UNCHANGED <<kmemVars, ref>>

\* kfree() by p of the page in holder h, up to the release of kmem.lock.
Kfree(p, h) ==
    /\ IF ref[h] = NULL \/ refcnt[ref[h]] < 1
       THEN panic' = "kmem" /\ UNCHANGED <<refcnt, junk, ref>>
       ELSE /\ refcnt' = [refcnt EXCEPT ![ref[h]] = @ - 1]
            /\ junk' = [junk EXCEPT ![p] = IF refcnt[ref[h]] = 1 THEN ref[h] ELSE NULL]
            /\ ref' = [ref EXCEPT ![h] = NULL]
            /\ UNCHANGED panic
    /\ UNCHANGED <<freelist, content>>

\* The rest of kfree(): JUNKFILL() and add2FL().
Add2FL(p) ==
    /\ junk[p] # NULL /\ panic = "none"
    /\ content' = [content EXCEPT ![junk[p]] = Junk]
    /\ freelist' = freelist \cup {junk[p]}
    /\ junk' = [junk EXCEPT ![p] = NULL]
    /\ UNCHANGED <<refcnt, ref, panic, flags, cur, sz, op>>

\* One kfree() of a clean-up loop (uvmunmap, freewalk, freeproc).  freewalk()
\* panics when a leaf mapping is left in the table.
FreeNext(p) ==
    LET h == Head(op[p].todo)
    IN  /\ At(p, "free") /\ op[p].todo # << >>
        /\ IF h[1] = "node" /\ h[3] = Root /\ \E a \in UserVA : Mapped(h[2], a)
           THEN panic' = "kmem" /\ UNCHANGED <<freelist, refcnt, content, junk, ref>>
           ELSE Kfree(p, h)
        /\ flags' = IF h[1] = "pte" THEN [flags EXCEPT ![h[2]][h[3]] = {}] ELSE flags
        /\ op' = [op EXCEPT ![p].todo = Tail(@)]
        /\ UNCHANGED <<cur, sz>>

\* The clean-up is over: the slot it belonged to becomes UNUSED, sbrk() stores
\* the new size, and the call returns.
FreeDone(p) ==
    LET c == op[p].who
    IN  /\ At(p, "free") /\ op[p].todo = << >>
        /\ op' = [q \in Procs |-> IF q = p THEN User
                                  ELSE IF q = c THEN Idle("unused") ELSE op[q]]
        /\ sz' = CASE c # NULL -> [sz EXCEPT ![c] = 0]
                   [] op[p].next = "shrunk" -> [sz EXCEPT ![p] = op[p].hi]
                   [] OTHER -> sz
        /\ cur' = IF c # NULL THEN [cur EXCEPT ![c] = 0] ELSE cur
        /\ UNCHANGED <<kmemVars, ref, flags>>

Free(p, todo) ==
    op' = [op EXCEPT ![p] = [@ EXCEPT !.pc = "free", !.todo = todo, !.next = "user"]]

\* mappages() of the page in Mem(p), the page-table page being there.
MapPage(p, t, a, perm) ==
    /\ IF Mapped(t, a)
       THEN panic' = "kmem" /\ UNCHANGED <<ref, flags>>
       ELSE /\ ref' = [ref EXCEPT ![Pte(t, a)] = ref[Mem(p)], ![Mem(p)] = NULL]
            /\ flags' = [flags EXCEPT ![t][a] = perm]
            /\ UNCHANGED panic

-----------------------------------------------------------------------------
\* A user store through a writable PTE.
UserStore(p, a, v) ==
    /\ At(p, "user")
    /\ ValidUser(Cur(p), a) /\ "W" \in flags[Cur(p)][a]
    /\ content' = [content EXCEPT ![ref[Pte(Cur(p), a)]] = v]
    /\ UNCHANGED <<freelist, refcnt, junk, panic, ref, flags, cur, sz, op>>

\* exit(): the slot stays a zombie until wait() frees it; init must not exit.
Exit(p) ==
    IF p = InitProc
    THEN panic' = "init" /\ UNCHANGED <<freelist, refcnt, content, junk, op>>
    ELSE op' = [op EXCEPT ![p] = Idle("zombie")] /\ UNCHANGED kmemVars

\* A store that faults (scause 15) enters cowHandler(); address 0 itself, an
\* invalid page or the guard page kills the process.
PageFault(p, a, atZero) ==
    /\ At(p, "user")
    /\ ~(ValidUser(Cur(p), a) /\ "W" \in flags[Cur(p)][a])
    /\ atZero => a = 0
    /\ IF atZero \/ ~ValidUser(Cur(p), a)
       THEN Exit(p)
       ELSE /\ op' = [op EXCEPT ![p] = [User EXCEPT !.pc = "cow", !.tab = Cur(p),
                                                   !.a = a, !.next = "fault"]]
            /\ UNCHANGED kmemVars
    /\ UNCHANGED <<ref, flags, cur, sz>>

\* copyout() of one page on behalf of a system call (read, wait, pipe, fstat):
\* cowHandler() for every page, page 0 and invalid pages fail.
Copyout(p, a, v) ==
    /\ At(p, "user")
    /\ a # 0 /\ ValidUser(Cur(p), a)
    /\ op' = [op EXCEPT ![p] = [User EXCEPT !.pc = "cow", !.tab = Cur(p), !.a = a,
                                            !.v = v, !.next = "copyout"]]
    /\ UNCHANGED <<kmemVars, ref, flags, cur, sz>>

\* Faulty CowCopy: the new page is zeroed, not copied.
CowCopyZero(p) ==
    /\ At(p, "cow")
    /\ Kalloc(Mem(p), Zero)
    /\ op' = [op EXCEPT ![p].pc = "cow_map"]
    /\ UNCHANGED <<flags, cur, sz>>

\* cowHandler(): allocate_and_copy_page() ...
CowCopy(p) ==
    /\ At(p, "cow")
    /\ Kalloc(Mem(p), content[ref[Pte(op[p].tab, op[p].a)]])
    /\ op' = [op EXCEPT ![p].pc = "cow_map"]
    /\ UNCHANGED <<flags, cur, sz>>

\* ... out of memory: a faulting process is killed, a system call fails, exec()
\* frees the image it was building ...
CowFail(p) ==
    /\ At(p, "cow") /\ freelist = {}
    /\ CASE op[p].next = "fault" -> Exit(p)
         [] op[p].next = "copyout" ->
              op' = [op EXCEPT ![p] = User] /\ UNCHANGED kmemVars
         [] op[p].next = "exec" ->
              Free(p, TableSeq(Spare(p), op[p].hi)) /\ UNCHANGED kmemVars
    /\ UNCHANGED <<ref, flags, cur, sz>>

\* ... the new page replaces the old one in the PTE, and the old one is freed.
CowMap(p) ==
    LET t == op[p].tab
        h == Pte(t, op[p].a)
        pa1 == ref[h]
    IN  /\ At(p, "cow_map")
        /\ IF pa1 = NULL \/ refcnt[pa1] < 1
           THEN panic' = "kmem" /\ UNCHANGED <<refcnt, junk>>
           ELSE /\ refcnt' = [refcnt EXCEPT ![pa1] = @ - 1]
                /\ junk' = [junk EXCEPT ![p] = IF refcnt[pa1] = 1 THEN pa1 ELSE NULL]
                /\ UNCHANGED panic
        /\ ref' = [ref EXCEPT ![h] = ref[Mem(p)], ![Mem(p)] = NULL]
        /\ flags' = [flags EXCEPT ![t][op[p].a] = @ \cup {"W", "U"}]
        /\ op' = [op EXCEPT ![p] = CASE op[p].next = "fault" -> User
                                     [] op[p].next = "copyout" -> [@ EXCEPT !.pc = "copyout"]
                                     [] op[p].next = "exec" -> [@ EXCEPT !.pc = "exec_commit"]]
        /\ UNCHANGED <<freelist, content, cur, sz>>

\* The memmove() of copyout(), through the kernel's own mapping.
CopyoutStore(p) ==
    /\ At(p, "copyout")
    /\ content' = [content EXCEPT ![ref[Pte(op[p].tab, op[p].a)]] = op[p].v]
    /\ op' = [op EXCEPT ![p] = User]
    /\ UNCHANGED <<freelist, refcnt, junk, panic, ref, flags, cur, sz>>

-----------------------------------------------------------------------------
\* fork(): allocproc() takes a free slot ...
ForkBegin(p, c) ==
    /\ At(p, "user") /\ op[c].pc = "unused"
    /\ \A pa \in Pages : refcnt[pa] < MAXREFS
    /\ op' = [op EXCEPT ![p] = [User EXCEPT !.pc = "alloc_tf", !.tab = Cur(c),
                                            !.who = c, !.hi = sz[p]],
                        ![c] = Idle("embryo")]
    /\ UNCHANGED <<kmemVars, ref, flags, cur, sz>>

\* ... its trapframe and its page table, either of which may be unavailable ...
AllocProc(p, pc, h, nextpc, undo) ==
    /\ At(p, pc)
    /\ \/ Kalloc(h, Junk) /\ op' = [op EXCEPT ![p].pc = nextpc]
       \/ NoMemory /\ Free(p, undo)
    /\ UNCHANGED <<flags, cur, sz>>

AllocTrapframe(p) == AllocProc(p, "alloc_tf", Tf(op[p].who), "alloc_root", << >>)
AllocRoot(p) == AllocProc(p, "alloc_root", Node(op[p].tab, Root), "share",
                          <<Tf(op[p].who)>>)

\* Faulty UvmcopyShare: no increase_cnt(), or PTE_W left set in the parent.
UvmcopyShareNoCount(p) ==
    /\ At(p, "share") /\ op[p].a < op[p].hi
    /\ flags' = [flags EXCEPT ![Cur(p)][op[p].a] = @ \ {"W"}]
    /\ ref' = [ref EXCEPT ![Mem(p)] = ref[Pte(Cur(p), op[p].a)]]
    /\ op' = [op EXCEPT ![p].pc = "share_map"]
    /\ UNCHANGED <<kmemVars, cur, sz>>

UvmcopyShareKeepsW(p) ==
    LET pa == ref[Pte(Cur(p), op[p].a)]
    IN  /\ At(p, "share") /\ op[p].a < op[p].hi
        /\ refcnt' = [refcnt EXCEPT ![pa] = @ + 1]
        /\ ref' = [ref EXCEPT ![Mem(p)] = pa]
        /\ op' = [op EXCEPT ![p].pc = "share_map"]
        /\ UNCHANGED <<freelist, content, junk, panic, flags, cur, sz>>

\* ... then uvmcopy(): for each page, clear PTE_W in the parent and count the
\* reference the child is about to get (increase_cnt) ...
UvmcopyShare(p) ==
    LET a == op[p].a
        t == Cur(p)
        pa == ref[Pte(t, a)]
    IN  /\ At(p, "share") /\ a < op[p].hi
        /\ IF ~Mapped(t, a) \/ refcnt[pa] < 1
           THEN panic' = "kmem" /\ UNCHANGED <<refcnt, ref, flags>>
           ELSE /\ flags' = [flags EXCEPT ![t][a] = @ \ {"W"}]
                /\ refcnt' = [refcnt EXCEPT ![pa] = @ + 1]
                /\ ref' = [ref EXCEPT ![Mem(p)] = pa]
                /\ UNCHANGED panic
        /\ op' = [op EXCEPT ![p].pc = "share_map"]
        /\ UNCHANGED <<freelist, content, junk, cur, sz>>

\* ... and map it in the child.
UvmcopyMap(p) ==
    LET t == op[p].tab
        a == op[p].a
    IN  /\ At(p, "share_map") /\ ref[LeafNode(t, a)] # NULL
        /\ MapPage(p, t, a, flags[Cur(p)][a])
        /\ op' = [op EXCEPT ![p].pc = "share", ![p].a = a + 1]
        /\ UNCHANGED <<freelist, refcnt, content, junk, cur, sz>>

\* The child becomes RUNNABLE.
ForkDone(p) ==
    /\ At(p, "share") /\ op[p].a = op[p].hi
    /\ sz' = [sz EXCEPT ![op[p].who] = op[p].hi]
    /\ op' = [op EXCEPT ![p] = User, ![op[p].who] = User]
    /\ UNCHANGED <<kmemVars, ref, flags, cur>>

\* wait()/waitx() frees a zombie: freeproc().
Reap(p, c) ==
    /\ At(p, "user") /\ op[c].pc = "zombie"
    /\ op' = [op EXCEPT ![p] = [User EXCEPT !.pc = "free", !.who = c,
                                            !.todo = ProcSeq(c, sz[c])],
                        ![c] = Idle("embryo")]
    /\ UNCHANGED <<kmemVars, ref, flags, cur, sz>>

SysExit(p) ==
    /\ At(p, "user") /\ p # InitProc
    /\ Exit(p)
    /\ UNCHANGED <<ref, flags, cur, sz>>

-----------------------------------------------------------------------------
\* sbrk(n) with n > 0: uvmalloc() from lo to hi.
SbrkGrow(p, n) ==
    /\ At(p, "user") /\ sz[p] + n <= MAXPAGES
    /\ op' = [op EXCEPT ![p] = [User EXCEPT !.pc = "alloc", !.tab = Cur(p), !.a = sz[p],
                                 !.lo = sz[p], !.hi = sz[p] + n, !.next = "sbrk"]]
    /\ UNCHANGED <<kmemVars, ref, flags, cur, sz>>

\* sbrk(n) with n < 0: uvmdealloc().
SbrkShrink(p, n) ==
    /\ At(p, "user") /\ n <= sz[p]
    /\ op' = [op EXCEPT ![p] = [User EXCEPT !.pc = "free", !.hi = sz[p] - n,
                                 !.todo = Ptes(Cur(p), sz[p] - n, sz[p]),
                                 !.next = "shrunk"]]
    /\ UNCHANGED <<kmemVars, ref, flags, cur, sz>>

\* What a failed uvmalloc() frees: its own pages and, in exec(), the new image.
UvmallocUndo(p) ==
    LET t == op[p].tab
    IN  (IF ref[Mem(p)] # NULL THEN <<Mem(p)>> ELSE << >>)
          \o Ptes(t, op[p].lo, op[p].a)
          \o (IF op[p].next = "sbrk" THEN << >> ELSE TableSeq(t, op[p].lo))

\* One iteration of uvmalloc(): a zeroed page ...
UvmallocPage(p) ==
    /\ At(p, "alloc") /\ op[p].a < op[p].hi
    /\ \/ Kalloc(Mem(p), Zero) /\ op' = [op EXCEPT ![p].pc = "alloc_map"]
       \/ NoMemory /\ Free(p, UvmallocUndo(p))
    /\ UNCHANGED <<flags, cur, sz>>

\* ... and its mapping; loadseg() then fills a text page from the file.
UvmallocMap(p) ==
    LET t == op[p].tab
        a == op[p].a
        text == op[p].next = "exec_text"
    IN  /\ At(p, "alloc_map") /\ ref[LeafNode(t, a)] # NULL
        /\ MapPage(p, t, a, IF text THEN {"U", "T"} ELSE {"W", "U"})
        /\ content' = IF text THEN [content EXCEPT ![ref[Mem(p)]] = op[p].v] ELSE content
        /\ op' = [op EXCEPT ![p].pc = "alloc", ![p].a = a + 1]
        /\ UNCHANGED <<freelist, refcnt, junk, cur, sz>>

\* walk() allocates the page-table page that a mapping needs.  When it cannot,
\* uvmalloc() undoes its work, and uvmcopy() unmaps the pages before this one:
\* the count it just took for this one is not given back.
WalkAlloc(p) ==
    LET t == op[p].tab
        h == LeafNode(t, op[p].a)
    IN  /\ \E pc \in {"share_map", "alloc_map"} : At(p, pc)
        /\ ref[h] = NULL
        /\ \/ Kalloc(h, Junk) /\ UNCHANGED op
           \/ /\ freelist = {}
              /\ IF op[p].pc = "alloc_map"
                 THEN Free(p, UvmallocUndo(p)) /\ UNCHANGED ref
                 ELSE /\ Free(p, Ptes(t, 0, op[p].a) \o ProcSeq(op[p].who, 0))
                      /\ ref' = [ref EXCEPT ![Mem(p)] = NULL]
              /\ UNCHANGED kmemVars
        /\ UNCHANGED <<flags, cur, sz>>

\* growproc() succeeds.
SbrkDone(p) ==
    /\ At(p, "alloc") /\ op[p].a = op[p].hi /\ op[p].next = "sbrk"
    /\ sz' = [sz EXCEPT ![p] = op[p].hi]
    /\ op' = [op EXCEPT ![p] = User]
    /\ UNCHANGED <<kmemVars, ref, flags, cur>>

-----------------------------------------------------------------------------
\* exec(): proc_pagetable() for the new image ...
ExecBegin(p, v) ==
    /\ At(p, "user")
    /\ op' = [op EXCEPT ![p] = [User EXCEPT !.pc = "exec_root", !.tab = Spare(p),
                                            !.v = v, !.next = "exec_text"]]
    /\ UNCHANGED <<kmemVars, ref, flags, cur, sz>>

ExecRoot(p) == AllocProc(p, "exec_root", Node(op[p].tab, Root), "exec_load", << >>)

\* ... the text segment, then a guard page and a stack page ...
ExecText(p) ==
    /\ At(p, "exec_load")
    /\ op' = [op EXCEPT ![p].pc = "alloc", ![p].hi = TEXTPAGES]
    /\ UNCHANGED <<kmemVars, ref, flags, cur, sz>>

ExecStack(p) ==
    /\ At(p, "alloc") /\ op[p].a = op[p].hi /\ op[p].next = "exec_text"
    /\ op' = [op EXCEPT ![p].next = "exec_stack", ![p].lo = op[p].hi, ![p].hi = @ + 2]
    /\ UNCHANGED <<kmemVars, ref, flags, cur, sz>>

\* ... uvmclear() of the guard page, and one copyout() per argument and one for
\* the array of their addresses ...
ExecArgs(p) ==
    LET hi == op[p].hi
    IN  /\ At(p, "alloc") /\ op[p].a = hi /\ op[p].next = "exec_stack"
        /\ flags' = [flags EXCEPT ![op[p].tab][hi - 2] = @ \ {"U"}]
        /\ op' = [op EXCEPT ![p].pc = "cow", ![p].a = hi - 1, ![p].next = "exec"]
        /\ UNCHANGED <<kmemVars, ref, cur, sz>>

ExecNextArg(p) ==
    /\ At(p, "exec_commit")
    /\ op' = [op EXCEPT ![p].pc = "cow"]
    /\ UNCHANGED <<kmemVars, ref, flags, cur, sz>>

\* ... a bad segment or too long an argument list frees the new image ...
ExecBad(p) ==
    /\ \/ At(p, "exec_load") \/ At(p, "exec_commit")
       \/ At(p, "alloc") /\ op[p].a = op[p].hi /\ op[p].next \in {"exec_text", "exec_stack"}
    /\ Free(p, TableSeq(op[p].tab, op[p].hi))
    /\ UNCHANGED <<kmemVars, ref, flags, cur, sz>>

\* Faulty ExecCommit: the old image is freed with the size of the new one.
ExecCommitNewSize(p) ==
    /\ At(p, "exec_commit")
    /\ content' = [content EXCEPT ![ref[Pte(op[p].tab, op[p].a)]] = op[p].v]
    /\ cur' = [cur EXCEPT ![p] = 1 - @]
    /\ sz' = [sz EXCEPT ![p] = op[p].hi]
    /\ Free(p, TableSeq(Cur(p), op[p].hi))
    /\ UNCHANGED <<freelist, refcnt, junk, panic, ref, flags>>

\* ... otherwise it replaces the old one, which is freed.
ExecCommit(p) ==
    /\ At(p, "exec_commit")
    /\ content' = [content EXCEPT ![ref[Pte(op[p].tab, op[p].a)]] = op[p].v]
    /\ cur' = [cur EXCEPT ![p] = 1 - @]
    /\ sz' = [sz EXCEPT ![p] = op[p].hi]
    /\ Free(p, TableSeq(Cur(p), sz[p]))
    /\ UNCHANGED <<freelist, refcnt, junk, panic, ref, flags>>

-----------------------------------------------------------------------------
Step(p) ==
    \/ Add2FL(p) \/ FreeNext(p) \/ FreeDone(p)
    \/ CowCopy(p) \/ CowFail(p) \/ CowMap(p) \/ CopyoutStore(p)
    \/ AllocTrapframe(p) \/ AllocRoot(p)
    \/ UvmcopyShare(p) \/ UvmcopyMap(p) \/ ForkDone(p)
    \/ UvmallocPage(p) \/ UvmallocMap(p) \/ WalkAlloc(p) \/ SbrkDone(p)
    \/ ExecRoot(p) \/ ExecText(p) \/ ExecStack(p)
    \/ ExecArgs(p) \/ ExecNextArg(p) \/ ExecBad(p) \/ ExecCommit(p)

Call(p) ==
    \/ \E a \in UserVA, v \in Vals :
          UserStore(p, a, v) \/ ("copyout" \in CALLS /\ Copyout(p, a, v))
    \/ \E a \in UserVA, atZero \in BOOLEAN : PageFault(p, a, atZero)
    \/ \E c \in Procs : ForkBegin(p, c) \/ Reap(p, c)
    \/ \E n \in 1..MAXPAGES : "sbrk" \in CALLS /\ (SbrkGrow(p, n) \/ SbrkShrink(p, n))
    \/ \E v \in Vals : "exec" \in CALLS /\ ExecBegin(p, v)
    \/ SysExit(p)

Next == \E p \in Procs : Step(p) \/ Call(p)

Spec == Init /\ [][Next]_vars

-----------------------------------------------------------------------------
RefsIn(r, pa) == {h \in Holders : r[h] = pa}
Refs(pa) == RefsIn(ref, pa)

TypeOK ==
    /\ freelist \in SUBSET Pages
    /\ refcnt \in [Pages -> Nat]
    /\ content \in [Pages -> Vals \cup {Junk}]
    /\ ref \in [Holders -> Pages \cup {NULL}]
    /\ flags \in [Tables -> [UserVA -> SUBSET {"W", "U", "T"}]]
    /\ cur \in [Procs -> {0, 1}]
    /\ sz \in [Procs -> 0..MAXPAGES]
    /\ junk \in [Procs -> Pages \cup {NULL}]
    /\ panic \in {"none", "kmem", "init"}

\* kalloc.c: a page on the free list, or about to be put there, is named by no
\* PTE, page table, trapframe or kernel path, and is put there only once.
NoDangling ==
    /\ \A pa \in Pages : Cardinality(Refs(pa)) <= refcnt[pa]
    /\ \A pa \in freelist : refcnt[pa] = 0
    /\ \A p \in Procs : junk[p] # NULL =>
          /\ refcnt[junk[p]] = 0 /\ junk[p] \notin freelist
          /\ \A q \in Procs : junk[q] = junk[p] => q = p

\* A page that two holders name is mapped read-only everywhere: uvmcopy()
\* clears PTE_W before it shares, cowHandler() sets it only on a fresh page.
NoSharedWritable ==
    \A t \in Tables, a \in UserVA :
        Mapped(t, a) /\ "W" \in flags[t][a] => refcnt[ref[Pte(t, a)]] = 1

\* None of the consistency panics of kalloc.c, uvmunmap, mappages and freewalk
\* is reachable (init running out of memory aside).
NoPanic == panic # "kmem"

\* A store into a text page never succeeds (user/usertests.c:2424): no page that
\* exec() mapped without PTE_W becomes writable.
TextReadOnly == \A t \in Tables, a \in UserVA : "T" \in flags[t][a] => "W" \notin flags[t][a]

\* Every count is accounted for: no reference is lost, so every page comes back.
NoLeak == \A pa \in Pages : refcnt[pa] = Cardinality(Refs(pa))

Alive(p) == op[p].pc \notin {"unused", "embryo", "zombie"}
View(p) ==
    IF Alive(p)
    THEN [a \in {b \in UserVA : b < sz[p] /\ Mapped(Cur(p), b)} |->
             content[ref[Pte(Cur(p), a)]]]
    ELSE NULL

Mode(p) ==
    CASE ~Alive(p) -> "none"
      [] op[p].pc = "user" -> "user"
      [] op[p].pc # "user" /\ op[p].next = "fault" -> "fault"
      [] OTHER -> "call"

Private == INSTANCE PrivateMem WITH mem <- [p \in Procs |-> View(p)],
                                    mode <- [p \in Procs |-> Mode(p)], None <- NULL

\* Copy-on-write is invisible: fork, stores, copyout, sbrk and exec behave as
\* if every process had its own copy of its memory (vm.c:304-309).
CowIsCopy == Private!Spec
=============================================================================
